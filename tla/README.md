# Verification of cdimage

cdimage builds Ubuntu's CD images: cron starts one shell script per image set, which syncs a
mirror of the archive, expands the seeds into package lists with germinate, checks with
britney's tools what is installable, masters images with debian-cd, publishes them in a tree of
hard links and symlinks under `www/full` and purges old ones; operators make some of them
releases, which mirrors fetch. Nothing coordinates the scripts but files: lock files made with
procmail's `lockfile`, a counting semaphore kept in a file, stamp files, symlinks, manifests.
The correctness of the whole rests on what several scripts, written separately, do to those
files at the same time, on what is left of them when a script fails or dies, and on two
algorithms that are hard to test: germinate's expansion and britney's search for packages that
may migrate. That is what this project models.

Paths below are relative to the repository (`bin/semaphore` is `src/bin/semaphore` in
`PROJECT.json`).

## 1. Inventory

### Components with state

| component | state | operations | interacts with | hard behaviour | what makes it correct |
|---|---|---|---|---|---|
| **counting semaphore** `bin/semaphore` | the semaphore's file, its lock file, `STATE`, `CUR` | `test-increment`, `decrement-test` | called by `build-image-set` | several reads and writes per call, the lock file and its trap, retries, death with the lock | calls are atomic; no call works on what another one changes; the file exists exactly while the count is positive |
| **image set builds** `bin/build-image-set` | image set lock, semaphore, archive sync lock, cleanup stack, `SEM_STATE` | start, lock, count, sync or wait, build, publish, cleanup | semaphore, anonftpsync, daily tree | any command may end the script; cleanup runs in a trap, and again on a signal; locks that age; death | one build per image set; the semaphore counts the users of the archive; nothing left behind; every build ends |
| **archive mirror sync** `bin/anonftpsync`, `bin/wait-for-package` | the mirror, `Archive-Update-in-Progress` | lock, two rsync passes, unlock | builds, operators | started from two places; lock broken after 12 h | one rsync at a time; no build reads a mirror in the middle of a sync |
| **germinate** `germinate/germinate/*.py`, `germinate/bin/germinate` | seeds and their structure, package lists, reverse dependencies | order and inherit seeds, plant, grow, add extras, rescue, write `rdepends/` | `build-image-set` | a recursion that changes what it goes through; cycles, alternatives, provides, promotions, blacklists | seeds in order or their cycle reported; lists closed; each package in the innermost list; reasons and reverse dependencies true; ends |
| **britney** `britney/update_out` | working copy of testing with its undo, candidates, hints | consider, try, accept, undo | archive, excuses | candidates that depend on each other or take each other's binaries; every order of trying | testing gets no more uninstallable packages; what fails is undone exactly; nothing acceptable is left |
| **installability reports** `lib/cdimage/check_installable.py` | `britney/data`, `britney/report` | collect Packages files, run `rptprobs.sh`, copy the report | build, bounded commands, other series | a directory shared by the series of one image set | a published report is of the build it is published with |
| **bounded commands** `lib/cdimage/osextras.py` | control process, child, alarm | run with a time limit | installability reports | SIGALRM and SIGCHLD in any order | ends in time; kills no process group but the command's |
| **build IDs** `lib/cdimage/build_id.py` | `.next-build-suffix-*` | `next_build_id` | `build-image-set`, daily tree | failures and crashes between the stamp and the directory; midnight | an ID is never given out twice |
| **daily tree** `lib/cdimage/tree.py` | build directories, `current`, `.manifest-daily`, its lock | `publish`, the manifest's walk | purge, mirrors, post-qa, other publishers | two-step symlink change, a walk over a tree that others change, a lock without timeout | `current` leads to whole builds; what is announced is in the manifest |
| **files of one image set** `tree.py`, `checksums.py`, `sign.py`, `atomicfile.py` | names, inodes, sums, signatures | publish, carry over, checksum, sign | daily tree, releases | hard links to older builds, programs that write in place, sums taken over by name, signing that fails | old builds unchanged; sums and signatures describe the files beside them; other architectures' images carried over whole |
| **purge** `bin/purge-old-images` | build directories | remove what is old and not `current` | daily tree | decides at its start, removes later | the newest build is kept |
| **releases** `bin/publish-release`, `SimpleTree` of `tree.py`, `bin/checksum-*` | pool, directories of links, sums, `.manifest` | publish to the pool, or visibly; purge; sum; write the manifest | daily tree, mirrors | two directories of links share one pool; any command may fail | links lead to images; sums are true; publishing to the pool is unseen; the manifest names what is there |
| **mirrors** `lib/cdimage/mirror.py`, `bin/sync-mirrors` | none (what the mirrors have is external) | check the manifest, trigger | releases | runs at any moment of a publication | mirrors fetch only what the manifest promises |
| **live filesystems** `bin/download-live-filesystems`, `livefs.py` | scratch directory | fetch, move | `build-image-set` | some fetches fail | no file of an older build passes for a new one |
| **other users of the image set lock** `bin/build-livecd-base`, `bin/cron.wubi` | image set lock, `current` | build, publish | builds, daily tree | a trap of their own | as for builds |

### Components without state of their own

Configuration and cron jobs set environment variables and start `build-image-set`; task lists,
web indices and announcements are text filters; torrents and metalinks are generated beside the
images by one-shot programs; debian-cd is a Makefile system that masters one image and that the
rest sees as a command that ends or fails (and is followed by `|| true`, `build-image-set:200`);
the archive tools are separate clients of Launchpad; cloudfront and `debmirrorsync` are unused
by the builds; `cdimage/` is a second copy of `bin`, `lib` and `etc`. `PROJECT.json` lists all
of them with the reason why they are not modelled.

### How they interact

    cron, operators ─► build-image-set ─► semaphore           (.sem-build-image-set)
       │  │                │ ├──────────► anonftpsync         (.lock-archive-sync,
       │  │                │ │                                 Archive-Update-in-Progress)
       │  │                │ ├─ next-build-date               (.next-build-suffix-*)
       │  │                │ ├─ germinate                     (package lists)
       │  │                │ ├─ debian-cd, livefs             (scratch)
       │  │                │ ├─ check-installable             (britney/data, report)
       │  │                │ │     └─ run_bounded ─► rptprobs.sh
       │  │                │ ├─ publish-daily ─► tree.py ──► www/full, current,
       │  │                │ │                                .manifest-daily ─► post-qa
       │  │                │ └─ purge-old-images ──────────► www/full
       │  └─► publish-release ─► www/simple/.pool, links, .manifest ─► sync-mirrors
       └─► wait-for-package ─► anonftpsync

All of it is calls and shared files. There are no messages; what takes their place are lock
files, which a process may leave behind, and signals.

## 2. Modules

| module | what it is | models |
|---|---|---|
| `CountingSemaphore` | abstract specification | what the header of `bin/semaphore` promises: two atomic operations |
| `Semaphore` | detailed specification | `bin/semaphore`, one command per action |
| `SharedLock` | abstract specification | "a shared lock which only opens when all users have unlocked" (`bin/semaphore:7-8`) |
| `BuildImageSet` | detailed specification, composes builders, an operator, the semaphore and the locks | `bin/build-image-set`, the locking of `bin/anonftpsync` and `bin/wait-for-package` |
| `DailyTree` | composes publishers and purges of all image sets | `build_id.py`, `DailyTreePublisher.publish` and `DailyTree` of `tree.py`, `bin/purge-old-images` |
| `RunBounded` | signals and processes of one call | `run_bounded` of `osextras.py` |
| `PublishDirectory` | extends `RunBounded`: one image set, file by file | `check_installable.py`, `publish` and what it calls in `tree.py`, `checksums.py`, `sign.py`, `atomicfile.py` |
| `SeedStructure` | the collection of seeds and its order | `seeds.py`, `tsort.py` |
| `Germinator` | extends it: the expansion | `germinator.py`, the order of calls of `germinate/bin/germinate` |
| `ReverseDependencies` | extends it: the files under `rdepends/` | `reverseDepends` and `writeRdependList` of `germinator.py` |
| `Britney` | the migration run | `update_out.py`, the working copy of `dpkg.c` |
| `SimpleTree` | the tree of small mirrors and its reader | `SimpleTree` of `tree.py`, `checksums.py` on a release, `mirror.py` |
| `PublishRelease` | extends it: publications | `bin/publish-release` |
| `*Proofs` | theorems and their proofs | |
| `MC*` | instances for TLC, with one `.cfg` per run | |

The layers rest on each other. `BuildImageSet` uses the semaphore's two operations as atomic,
which `SemaphoreProofs!Refinement` shows. `DailyTree` and `PublishDirectory` have one process
per image set, which `BuildImageSetProofs!Exclusion` shows. The two look at the same program
from two sides: `DailyTree` at what several publishers do to the tree, where a build's directory
is one thing, `PublishDirectory` at what one publisher does inside it.

### `Semaphore`

The program counter names the next command of the script: `lockfile` (line 23), `trap` (27),
`create` (29–31), `state` (40, 45), `zero` (46–49), `cur` and `write` (the function `add`,
33–36), `restate` and `remove` (52–55), `echo` (42, 56), `exit` (60). `disk` and `content` are
the semaphore's file, `lock` its lock file with the process that created it (which the script
itself does not know: `rm -f` removes the file whoever made it). `outcome` is what the caller
would see if the script ended now: `blank`, `ok` or `error`.

`CrashSpec` lets callers die at any command, `SignalSpec` adds the signals that its trap
catches, after which the trap runs once for the signal and again for EXIT. Writing the file is
one step: a death between its truncation and the write leaves an empty file, but also the lock
file, so that nobody reads it.

Refinement to `CountingSemaphore`: `value` is the number in the file, and a call takes effect
when it writes the file. A death in the middle of a call is the abstract `Abandon`: the caller
gets no answer, before or after the effect.

### `BuildImageSet`

A builder's `pc` names its next command, `CLEANUP` is its cleanup stack with the entries `set`,
`sem` and `sync`. `pop_cleanup` is two steps, as in lines 23–24: the command is run, and is
taken off the stack afterwards. `exiting` tells the two ways into `cleanup` apart: a signal (the
script's own EXIT trap is still to come) and EXIT. `aged` holds the lock files that are older
than the `-l` they are tried with. Everything between the sync and the publication is the phase
`build`, which reads the archive and may fail at any command (`set -e`). Before the sync a build
ends when its log cannot be opened or a `lockfile` runs out of retries (`StopBeforeSync`).

Under faults: `crash` (death, nothing runs), `signal` (a caught signal at any command, also
during cleanup; `anonftpsync` traps none and leaves its lock file), `refuse` (the semaphore
script cannot get its own lock file), `slow` (a script outlives the `-l` of a lock it holds).
`Faults` selects the kinds, `MaxFaults` bounds their number.

`NoSync` is the set of builders with `CDIMAGE_NOSYNC` in their environment. At this commit
`etc/config:49` exports it for all of them; the models keep both cases, because the sync is what
the semaphore is for.

Refinement to `SharedLock`: the users are the builders between their two semaphore calls, the
opener is the one with `SEM_STATE` 0.

### `DailyTree`

A build ID is a pair of a day and a suffix (`20130107.2`). `stamp` is `.next-build-suffix-*`,
`dirs` the build directories, `complete` the ones that hold a whole published build, `current`
the symlink's target, `manifest` and `mlock` the manifest and its lock, `announced` the last
build that post-qa posted. Publishing goes through `newdir` (`new_publish_dir`), `fill` (images,
sums, indices, metalinks), `unlink` and `symlink` (`tree.py:579-580`, two steps), `lock`, `walk`
(`os.walk` over all image sets, one at a time, while the others go on), `trace` (the time stamp
under the lock) and `postqa`. The purge finds the old directories when it starts and removes
them one at a time, except the one `current` leads to. `Midnight` changes the day at any moment.

`CrashSpec` adds a death at any step. The purge's `rm -rf` is one step: a directory it leaves
half removed does not count as a whole build, like the directory of a build that failed, so
nothing the properties speak of tells them apart.

Left out: the overrides `DATE` and `DATE_SUFFIX` of `next_build_id`, which operators may set and
cron does not.

### `RunBounded` and `PublishDirectory`

`run_bounded` forks a control process that starts the command in a process group of its own,
sets an alarm and calls `pause()` for ever; everything else happens in Python signal handlers.
`control` is where it is, `pending` the signals it has received and not yet handled: the
interpreter handles them between two bytecodes, in the order of their numbers, and not inside
`pause()`. So a signal that comes after the last look at `pending` and before the system call
sleeps does not wake it (`Sleep` may happen with a signal pending).

In `PublishDirectory` a new build's directory starts as hard links to the last one
(`NewPublishDir`), so that directories share inodes. A hard link keeps its name, hence an inode
is known by the build that made it and its name; a directory maps names to the builds that made
their inodes, and `data` maps inodes to contents. A name is an architecture and an extension, or
a checksum file; the extension follows from the kind of image (`detect_image_extension`), as do
its checksums (`WantImage`) and its limit of size; the content of an image says which build it
is from, that of a checksum file what it says of which image, that of a signature what it is
over. `Put` is a new inode under a name (a rename, or an atomic file), `Write` changes an inode
in place: the difference is what `EarlierBuildsUnchanged` is about. The steps are those of the
build after debian-cd (`PrepareCheckInstallable`, `Rptprobs` running under `RunBounded`,
`CheckInstallable`), then those of `publish` in order: per architecture the image, the files
beside it, what is dropped, the zsync file and the `OVERSIZED` mark (`PublishBinary`), the
report, all sums (`MergeAll`, then one file at a time), each signature in two steps, as `gpg`
fails after its output is open, web indices, `current`, manifest, post-qa. Any command may fail
and end the build; another series of the image set may empty the report directory at any moment;
the machine may crash.

Left out: `publish_source` and metalinks; `shutil.move` is within one file system. The
comparison of time stamps in `checksums.py:101` is decided one way: the sums that debian-cd
leaves in scratch are not older than the images they are of.

### `SeedStructure`, `Germinator`, `ReverseDependencies`

The input of a run is a *world*: branches with their STRUCTURE lines and seed texts, an archive
of binary and source packages, hints. `Worlds` is a constant, and every action is deterministic
but for orders that the program takes from dictionaries.

`SeedStructure` parses the branches as `_parse` does, call by call (`IncludeBranch`,
`FinishBranch`): `parsing` has the calls in progress, and the list of branches is reversed
whenever one returns. It then runs the lazy topological sort of `tsort.py` node by node with its
stack of pending parents, up to the order or the cycle it raises (`PopItem`, `VisitParent`,
`PopNode`), expands inheritance seed by seed, and adds what `--seed-packages` adds at the end
(`addSeedPackage`). A collection may be anything that parses, but no STRUCTURE line is about a
seed called `extra` or `all`, and what is added is not a seed already (`CollectionsAssumption`).
The sections of the archive's indices are typed records (`ArchiveAssumption`); nothing is
assumed of what they depend on, provide or build.

In `Germinator` the program's recursion is the sequence `stack`: each entry is a call that is to
be made with its arguments, or the rest of a loop, and a step works on the first. `_addPackage`,
`_addDependencyTree` and `_rescueIncludes` put what they call before the rest of their own loop,
so that a loop goes on with whatever the calls it made have changed. That interleaving is where
the algorithm is delicate: alternatives are chosen by what is in the lists at that moment, a
promotion takes a package out of outer seeds, a kernel version or a blacklist entry prunes what
others have asked for. `why` keeps the kind of reason of each package in each list.

`ReverseDependencies` notes at each package in use who depends on it, writes the lists
(`writeLists`), and then the file of any one package, call by call. A package may be on a list
that was refused afterwards: `_addDependency` and `_rescueIncludes` list it before `_addPackage`
finds it pruned or blacklisted (`germinator.py:923-935`). It has no reason there, `writeList`
raises `KeyError` on it (line 1093), and nothing is written under `rdepends/`: phase `noReason`.

Left out: downloads, the blacklist file, limits of length, substitution variables, architecture
specifications, output formats. Pre-Depends and Depends are one sequence. Lines about what
builds with a package are not entries of `rdepends/` and are left out.

### `Britney`

A world is a pair of suites with their counts of bugs, hints, sources that are too young, and
removals. `Consider` makes the candidates and invalidates those whose excuses depend on
something that is not considered; the bugs of what testing already has are not held against
unstable (`testingbugs`). Hints are taken in turn, at most six of those that are not easy
(`TakeNext`). The loop of `do_all` and `iter_end` then tries them: `DoAll` and `Lead` start a
hint or the main run, `Try` applies one candidate to `notes`, the working copy, pushes what is
needed to undo it on `undo`, and judges the result by the sets of uninstallable packages; the
order of trying is any order. `JudgeEasy` and `EndLoop` keep or undo all of it, one change per
step.

`Installable` is the definition of what `dpkg.c` searches for (a set of packages that contains
this one, satisfies every dependency in it and has no conflict): the search, and its counter
that gives up after 5,000,000 steps, are left out. So are `Provides`, testing-proposed-updates
(a second suite treated like unstable), force hints, recursion (`iter_some` is never called with
a depth) and the files written.

### `SimpleTree` and `PublishRelease`

An image's name is its status (`beta`, or the release itself), type and architecture, its
content the daily build it is from. `pool` maps names to contents, `links` are the directories
of symlinks, `sums` the checksum file of each of them and of the pool. A publication runs one
command after the other, and any may fail: the links of a released image are removed, each
architecture is copied, its old sum forgotten and its link made, other statuses are purged from
the links and from the pool, sums and the manifest are written. A copy that breaks off leaves a
`Partial` image. `CheckManifest` and `FetchTree`, the two halves of `trigger_mirrors`, come at
any moment in between. `failures` counts commands that fail by chance, which the bound limits,
and those that are refused because a link leads nowhere (`Refused`: `checksum-directory` has no
sum for it, or `site-manifest` looks at it), which it does not.

Left out: the full tree (`named`, `no`), torrents, metalinks, `CDIMAGE_NO_PURGE`, jigdo and list
files as files of their own, sizes in the manifest. Operators publish one release at a time.

## 3. Runs

| run | instance | properties | shows |
|---|---|---|---|
| `semaphore` | 3 callers, 4 calls, 2 retries, 2 deaths | `MutualExclusion` `FileMeansInUse` `AtomicSpec` `EveryCallEnds` `OrphanLockIsForever` | the script is an atomic counting semaphore whoever dies, every call ends; but a lock file left behind refuses all later calls |
| `semaphore_signal` | 3 callers, 1 signal | `MutualExclusion` **violated** | finding 1 |
| `image_sets` | 3 builders, two of one image set, one without sync; no faults | `ImageSetExclusion` `SemaphoreCountsUsers` `OneRsync` `NothingLeftBehind` `SharedSpec` | builds that fail anywhere keep all locks right and leave nothing behind |
| `image_sets_faults` | 2 builders of one image set, 2 faults of any kinds | `BuildsEnd` `OrphanLocks` | every build that lives ends, however it is interrupted; the lock of a dead build is broken, the sync lock is not |
| `image_sets_archive` | 2 builders of two image sets, no faults | `ConsistentArchive` **violated** | finding 2 |
| `image_sets_opens` | 3 builders, 1 signal | `OpensOnlyWhenUnused` **violated** | finding 3 |
| `daily_tree` | 2 image sets, one purged after a day, 3 days, 1 crash | `CurrentIsComplete` `AnnouncedInManifest` `ManifestLockIsForever` `FreshBuildId` `NewestKeptUntilCrash` | concurrent publication, walks, purges and a death |
| `publish_directory` | 2 builds, 3 architectures (two of one processor), 1 crash | `PublishedIsWhole` `ChecksumsOfNewestTrue` `ReportIsOfItsBuild` `EarlierBuildsUnchanged` `OthersCarriedOver` `KillsOnlyItsOwn` `PublicationEnds` | what a build publishes, whatever fails in it |
| `germinate` | 1,909 worlds | `StructureInOrder` `ListsClosed` `InnermostList` `ReasonFitsList` `RdependsTell` `Terminates` | the expansion over small collections and archives |
| `britney` | pairs of suites of three sources on two architectures | `NeverWorse` `DpkgAssertions` `InvalidatedClosed` `FailedRunRestores` `NothingLeftToAccept` `Ends` | every order of trying the candidates |
| `publish_release` | 3 publications of images of two types and sources with two statuses, 1 failure | `OwnLinksResolve` `SumsTrue` `ManifestHolds` `PoolOnlyUnseen` | publications, pre-publications and mirrors |
| `release_links` | 2 publications, no failure | `LinksResolve` **violated** | finding 4 |

Some of these are conjunctions of parts with names of their own, each with its comment in the
module: `OrphanLocks` (the image set's lock, the sync lock), `PublishedIsWhole`
(`CurrentIsComplete`, `SignaturesFit`, `PostedIsThere`), `StructureInOrder` (`SortedAndClosed`,
`CycleIsReported`, `LaterBranchesOverride`), `ListsClosed` (`DependencyClosed`, `BuildClosed`),
`InnermostList` (`InnermostOnly`, `BuildDependsAreOnlyThat`, `ExtraIsLowest`), `RdependsTell`
(`FileIsComplete`, `CauseIsShown`), `DpkgAssertions` (`OneOwner`, `CandidatesDefined`),
`SumsTrue` (`PublishedSumsTrue`, `AllSumsTrue`).

**What the properties except.** Each exception is a case the run reaches, in which the code does
not do what one would wish; it is stated in the property and not removed from the model.

- `NewestKeptUntilCrash`: a publisher that dies after its build is whole and before `current`
  leads to it (`tree.py:579-580`) leaves the newest build unprotected, and when the following
  builds fail, a purge removes it.
- `OthersCarriedOver`: after a death between those two lines there is no `current`, and the next
  build of one architecture carries nothing over.
- `ChecksumsOfNewestTrue`: when an architecture's image changes its kind (`.iso`, `.img`), the
  old one stays beside the new one and `map_expr` gives it the new one's sum, against the
  comment in `checksums.py:229-231`. The newer image need not have a checksum itself: an old
  `.iso` beside a new `.iso.gz` is the only one listed, with the sum of the other.
- `PublishedIsWhole`: an image that `detect_image_extension` calls `.iso.gz` gets no checksums
  and is in no manifest: `want_image` (`checksums.py:168`) and `manifest_file_allowed`
  (`tree.py:108`) know the other kinds only, while `map_expr` (`tree.py:544`) knows this one as
  well. A build that has nothing else to sum is published without checksum files and without
  signatures: a file without entries is removed, not written (`checksums.py:120-124`).
- `PublicationEnds`: SIGCHLD that comes just before `pause()`, with the alarm spent, wakes
  nobody, and the build waits for ever (`LostWakeup`).
- `LaterBranchesOverride`: of a branch that includes another one that includes a third, the
  third may come first, because branches are reversed at every level of the recursion.
- `InnermostOnly` and `BuildDependsAreOnlyThat`, for seeds on top of the last one in STRUCTURE:
  what is rescued to build with comes to that one after they have grown, with what it depends on,
  and they may have that already (`germinator.py:545`).
- `BuildClosed` asks what satisfies a build dependency for one binary of the source, the one that
  brought it in: for a udeb a versioned dependency on a virtual package counts, for a deb not, and
  the other binaries of that source do not ask again.
- `NeverWorse` speaks of the sum over the architectures that may break, as the code does: one of
  them may get worse while the sum does not.
- `OwnLinksResolve`: links whose image a publication in another directory purged (finding 4).
- `SumsTrue` and `PoolOnlyUnseen`: `poolonly` may publish again under a name that is linked
  already, which changes what is visible while the sums in the links' directory stay; and a copy
  that breaks off before `checksum-remove` leaves the old sum of a new image, which the next
  `checksum-directory` takes over. A publication that is refused does the same. Once finding 4
  has left links that lead nowhere, `site-manifest` refuses every publication. Before that,
  `checksum-directory` gives such a link the sum that its own old file or the daily build's has
  under the name (`checksums.py:91-95`: it counts as older than everything), and rewrites the
  file; it refuses only a link of which neither knows (line 81). In both cases the pool has new
  images by then, and a later publication of other architectures gives them the sums of the
  daily build it publishes itself, under the same names. So `AllSumsTrue` asks that no command
  has failed or been refused; `PublishedSumsTrue` does not.
- `Terminates`: a run may end in `writeList`'s `KeyError` (`germinator.py:1093`), without
  `rdepends/`, and does so only for packages that were pruned from the seed or blacklisted.
  `ReasonFitsList` and `RdependsTell` speak of the packages that were added.

**Bounds.** Two callers are enough for each race in the semaphore, and the third is the one that
comes when two are in trouble; 4 calls are an increment and a decrement of two users, or a third
one in the middle; with two retries a call meets the lock before, at and after its last attempt.
Two builders of one image set compete for its lock; the third, of another image set, shares the
semaphore and the mirror with them. Two faults let a death happen during the cleanup after a
signal, or two deaths of successive builders; a builder that has ended may start again without
limit. In `DailyTree` a directory is purged one day after the day after its build: three days
contain a build, a later one that fails or succeeds, and the purge of the first, and two
suffixes a day are the plain ID and the first with a suffix. In `PublishDirectory` the second
build meets everything the first may have left, a third would meet what a second does;
`amd64+mac` and `amd64` share a processor and a prefix, which is where Packages files and names
could be mixed up; one of the requests is a rebuild of one architecture. `amd64` has an ISO
image or none, `amd64+mac` a disk image, `i386` a compressed ISO image, which gets no checksum
(and is all that some builds have), or a plain one that debian-cd has not summed. Images are 800
MB: too much for a CD, not for a disk image or a compressed one.

The worlds of `germinate` are a family that varies the dependencies of three packages (none,
one, alternatives, on a virtual package, cycles), the seeds they are in and a blacklist
independently; texts made of every kind of line; hints; added seeds, on top of each other, of
none or of the last one, and one that is a seed's parent already; a source of a deb and a udeb;
nothing at all; every inheritance relation of three seeds, cyclic ones included; and collections
of two and three branches, included once or twice. Those of `britney` give each of three sources
its old form, a new one alone or bound to the next source, one that takes the next source's
binary, one rebuilt on one architecture, one with an all-architectures package, or none; with an
easy and an ordinary hint, a removal and a source that is held back by its age or by bugs, with
one hint or seven. In `publish_release` two publications make each of the hazards and the third
meets the result; a build date that carried an architecture over has images of two builds; and a
link of the second type that a failed publication left without a sum, and the next one without
its image, has none in the daily build of the first either.

`CHECK_DEADLOCK FALSE` is set where the model stops because its calls, days, builds or
publications run out, and where the program ends (`germinate`, `britney`); `BuildImageSet` is
checked for deadlock.

**Mutants.** Each property of each passing run has a mutant of one definition of the model (in
the modules, marked "Mutant:"), a plausible bug in the code, that violates it: the lock file
made without `O_EXCL`, a popped entry that is not the top one, a walk that swallows missing
directories, a signature left in place when gpg fails, a candidate that was skipped and is not
tried again, a topological sort that goes to a parent it has visited, and so on.

## 4. Fairness

- `Semaphore`: `WF(Work(p))`. The caller waits for the script, and the kernel schedules it.
  Retries are bounded, so weak fairness is enough. Invocations are not fair.
- `BuildImageSet`: `WF(Step(b))` and `WF(AnonFtpSync(Operator))`, since a script that has been
  started runs; every wait in it has a limit (`-r 0`, `-r 4`, `-r 450`). `FaultSpec` adds
  `WF(Age)`, since time passes, and `WF(Start(b))`, since cron starts every image set's next
  build: only these make a lock file older than its `-l` and let somebody find it so.
- `PublishDirectory`: `WF(Publish)`, the build's own steps, and `WF(RptprobsRuns)`, the steps of
  the control process and its alarm. The package check itself need not end: that is what the
  alarm is for.
- `Germinator` (`RdependsSpec`) and `Britney`: `WF(Next)`, for sequential programs that run.
- `DailyTree`, `PublishRelease`: none, as they have no liveness property.

No fairness is assumed of faults, failures, crashes or of other series' builds, and strong
fairness is not used.

## 5. Proofs

All theorems are checked by TLAPS for every value of the constants, that is for any number of
processes, image sets, days, calls and faults, under the assumptions named in the modules:
`Nobody` and the like are distinct from real values, `Builders` is finite, bounds are natural
numbers, dates are numbers (`DatesAreNumbers`), the release's status is one of the statuses
(`StatusesAssumption`). The assumptions that say more are about what the programs read.
`Britney`: there are finitely many architectures, none called `remove` or `source`
(`ArchitecturesAssumption`); suites and their packages are finite, a binary package is with the
source it names, and in testing with no other (`WorldsAssumption`; `dpkg.c:1462-1468` files it
there). `PublishRelease`: the pool is not one of the directories of links
(`ReleasesAssumption`), and ARCHES names at least one architecture that daily builds have
(`RequestsAssumption`). `PublishDirectory`: ARCHES names no architecture twice
(`RequestsAssumption`); no architecture is called like a checksum file or the report
(`NamesAssumption`); debian-cd leaves only files of the five kinds that `publish_binary` looks
for beside an image (`OutcomesAssumption`). `SeedStructure`: every branch that a STRUCTURE
includes can be read, no STRUCTURE line is about a seed called `extra` or `all`, and what
`--seed-packages` adds is not a seed already (`CollectionsAssumption`). `Germinator`: the
indices are finite and their sections well-typed (`ArchiveAssumption`); what packages depend on,
provide or build may be anything, missing and cyclic dependencies included. Where a theorem
excludes a kind of fault, this is in its `ASSUME`.

| theorem | statement | hypotheses |
|---|---|---|
| `SemaphoreProofs!TypeCorrect` | `CrashSpec => []TypeOK` | |
| `SemaphoreProofs!Exclusion` | `CrashSpec => []MutualExclusion` | |
| `SemaphoreProofs!FileLife` | `CrashSpec => []FileMeansInUse` | |
| `SemaphoreProofs!NoStaleWrite` | `CrashSpec => []WritesWhatItTested` | |
| `SemaphoreProofs!OrphanForever` | `CrashSpec => OrphanLockIsForever` | |
| `SemaphoreProofs!Refinement` | `CrashSpec => AtomicSpec` | |
| `BuildImageSetProofs!TypeCorrect` | `FaultSpec => []TypeOK` | all faults |
| `BuildImageSetProofs!Exclusion` | `Spec => []ImageSetExclusion` | |
| `BuildImageSetProofs!CrashExclusion` | `FaultSpec => []ImageSetExclusion` | no signals, no slow builds |
| `BuildImageSetProofs!Counting` | `Spec => []SemaphoreCountsUsers` | |
| `BuildImageSetProofs!OpensUnused` | `FaultSpec => []OpensOnlyWhenUnused` | no signals |
| `BuildImageSetProofs!RsyncExclusion` | `FaultSpec => []OneRsync` | no slow builds |
| `BuildImageSetProofs!Sharing` | `Spec => SharedSpec` | |
| `BuildImageSetProofs!CleanEnd` | `Spec => []NothingLeftBehind` | |
| `BuildImageSetProofs!OrphanSyncForever` | `FaultSpec => OrphanSyncLockIsForever` | all faults |
| `DailyTreeProofs!TypeCorrect` | `CrashSpec => []TypeOK` | |
| `DailyTreeProofs!FreshIds` | `CrashSpec => []FreshBuildId` | |
| `DailyTreeProofs!WholeBuilds` | `CrashSpec => []CurrentIsComplete` | |
| `DailyTreeProofs!Announced` | `CrashSpec => []AnnouncedInManifest` | |
| `DailyTreeProofs!LockForever` | `CrashSpec => ManifestLockIsForever` | |
| `DailyTreeProofs!NewestUntilCrash` | `CrashSpec => NewestKeptUntilCrash` | |
| `DailyTreeProofs!NewestKept` | `Spec => MostRecentBuildKept` | no crashes |
| `PublishDirectoryProofs!KillsOwnGroup` | `Spec => KillsOnlyItsOwn` | |
| `PublishDirectoryProofs!EarlierBuildsKept` | `Spec => EarlierBuildsUnchanged` | |
| `PublishDirectoryProofs!RebuildCarriesOver` | `Spec => OthersCarriedOver` | |
| `PublishDirectoryProofs!ReportsAreOwn` | `Spec => []ReportIsOfItsBuild` | |
| `PublishDirectoryProofs!ChecksumsAreTrue` | `Spec => []ChecksumsOfNewestTrue` | |
| `PublishDirectoryProofs!PublishedAreWhole` | `Spec => []PublishedIsWhole` | |
| `PublishReleaseProofs!LinksLead` | `Spec => []OwnLinksResolve` | |
| `PublishReleaseProofs!ManifestTrue` | `Spec => []ManifestHolds` | |
| `PublishReleaseProofs!ChecksumsTrue` | `Spec => []SumsTrue` | |
| `PublishReleaseProofs!OnlyThePool` | `Spec => PoolOnlyUnseen` | |
| `BritneyProofs!AssertionsHold` | `Spec => []DpkgAssertions` | |
| `BritneyProofs!TestingNeverWorse` | `Spec => []NeverWorse` | |
| `BritneyProofs!FailureRestores` | `Spec => FailedRunRestores` | |
| `BritneyProofs!NothingIsLeft` | `Spec => NothingLeftToAccept` | |
| `BritneyProofs!CandidatesClosed` | `Spec => InvalidatedClosed` | |
| `SeedStructureProofs!StructureIsInOrder` | `RdependsSpec => []StructureInOrder` | |
| `GerminatorProofs!ReasonsFit` | `RdependsSpec => []ReasonFitsList` | |
| `GerminatorProofs!InnermostListed` | `RdependsSpec => []InnermostList` | |
| `GerminatorProofs!ListsAreClosed` | `RdependsSpec => []ListsClosed` | |
| `GerminatorProofs!RdependsTold` | `RdependsSpec => []RdependsTell` | |

The hypotheses are sharp where the code does otherwise without them: signals for `OpensUnused`
(`image_sets_opens`), crashes for `NewestKept` (section 3). The others exclude what the scripts
accept: a build slower than two hours has its lock broken by the next one (line 48), and then
there are two.

**The arguments.**

*Semaphore.* Exclusion alone is not inductive. `Inv` adds to the types that the lock file
belongs to exactly the process past `lockfile` (`LockInv`), what holds of the file whoever works
on it (`FileInv`), what each process knows of the file at each of its commands (`Knows`: at
`write`, `STATE` and `CUR` are still what is in the file), and which commands have an outcome
(`OutcomeInv`, for the refinement mapping). A step of another process cannot disturb what the
lock's holder knows, because it does not hold the lock.

*BuildImageSet.* The stack decides what a builder holds, so `TypeInv` says which stack goes with
which `pc`; under signals only that it is one of four. From it follow what each action does to
the holders of a lock and to the users of the semaphore. `SetInv`: a holder's lock file is its
own and not aged. `CountsExactly` and `CountsAll`: the number of users equals, or with crashes
is at most, the semaphore. A crash takes a user away without decrementing; a signal between
lines 23 and 24 would decrement without taking one away, which is finding 3. `FtpInv` is
`SetInv` for anonftpsync's lock. For `NothingLeftBehind` the direction is the opposite one:
`Owned` says that no lock ages without faults, and that whoever a lock file names still has its
removal ahead. The sync lock of a dead build (`OrphanSyncForever`) needs only the stack: each
command that removes the file is one that `HoldsSync` knows of, and without signals no step
makes anybody hold a file that is there.

*DailyTree.* `Ages`: the build at hand is newer than all directories, and the stamp is beyond
all of today's. `Whole`: whole builds exist, `current` leads to one, and the build is whole
before `current` is changed. `Tops` (until the first crash): the newest whole build is the
target of `current`, or the one that is about to be. For the manifest: who walks holds the lock
(`Held`); between the symlink and post-qa, `current` is this build (`Flipped`); and each build
that was or may be announced is in the manifest, and has been or will be seen by every walk
under way (`Listed`). The last conjunct is what makes an old walk harmless: it cannot miss an
announced build, because the build was in the tree before the walk began.

*RunBounded.* `ChildInv` says for each state of the control process what it has done with its
child: no signal is pending before there is a child, and none is sent after it has been reaped,
so that a group number the kernel has given away again is never signalled.

*PublishDirectory.* `FilesInv` is what everything else rests on: the course of a publication and
where `current` leads at each stage of it (`Course`); directories lead to inodes that are there,
of their own build or an earlier one (`DirsInv`); and the report and the signatures of this
build are not there yet when they are opened for writing, so that they are no hard links
(`NamesInv`). The marks are opened for appending and may be hard links, but an empty file stays
empty. From it follows that every step starts a build, leaves files alone, or fills the one
directory of the build under names that it lists (`Fills`), and that all earlier directories
keep their contents: `EarlierBuildsUnchanged`. What is said of the contents of a directory
carries over to them by `SameFiles`, so that each further invariant is left to check for the
directory that is filled. `ImagesInv`: what is an image is named like one, and the build's own
images are those `publish_binary` has moved, each under the name of the kind it found, although
it may be stored over others (`OwnImages`). `EntriesRight` (`ChecksumsInv`): a sum found in
scratch under a mapped name is of the build's own image, and whatever other file of that
architecture maps to the same name is older. `Fits` and `Abandoned` (`SignaturesInv`): a
signature that does not fit is being written, or was when the machine stopped, in a directory
`current` will never lead to. `MarkRight` (`MarksInv`): the mark that is made or removed at the
end of `publish_binary` is about the newest image of its architecture, and what is carried over
keeps both.

*PublishRelease.* `LinkInv`: a link is in its type's directory, the file is copied before the
link is made, the links are purged before the pool, and each link resolves or is in `lost`,
where the purge of finding 4 puts it. `ManifestInv` is `ManifestHolds` with the shape of the
tree, and inductive: whatever removes a file leaves the manifest and the mirrors' check with a
removal they have not noticed, until the one is written or the other made again. For `SumsTrue`
there are two invariants. `PublishedInv` holds whatever has failed: an image that the loop has
treated has no checksum in the pool (nor in the links' directory) until it is summed, and then a
true one, because what `checksum-directory` takes over is from the daily build that the image
was copied from. `AllInv` says, as long as nothing has failed, which checksums may be missing or
stale at each stage: those of the image that has been copied, until `checksum-remove`, and of no
other.

*Britney.* `notes` and `undo` are related by a trail: a sequence of working copies from the one
where the call of `do_all` began to the present one, each made from the last by an operation and
given back by what `undo` has for it (`Leads`). That one operation is given back exactly,
although it takes binaries from any number of other sources, rests on each binary having one
owner (`Good`). `RunInv` says that between calls there is no trail and the copy is no worse than
testing was, and during one that the trail goes through the operations selected so far.
`SkippedInv`: a candidate that is not waiting was accepted, or was skipped and would still be
worse than the present copy. For `InvalidatedClosed` the rounds of `invalidate` are counted: as
long as a round adds something the list has at least as many sources as there were rounds, so
that after as many rounds as there are sources nothing is left to add.

*SeedStructure.* The parser and the sorter are folds and recursive functions over the input. The
library's induction theorems cannot be instantiated, but a set of numbers has a least element,
and from that the lemmas at the beginning of the module follow: what holds of the empty sequence
and is kept by each of its elements holds of what a fold returns (`KeepsUpTo`), and `Reached` is
the least closed set (`ReachesUpTo`). `ParseInv` types the calls of the parser, one by one.
`SortInv` is the topological sort at work: what has been emitted is ordered (`Ordered`), each
node on the stack waits for the ones above it (`Waits`), and what has been visited is emitted or
on the stack; so that the parent which closes a cycle is an ancestor of itself (`CycleInv`).
`ExpandInv` says that the seeds gone through have exactly their ancestors, of which the order
makes sure that they came before; `PlantInv` keeps that for the seeds' lists, and `OverrideInv`
follows each seed through the recursion of branches to the last one that defines it.

*Germinator.* `StackInv` says which calls may be in progress in which phase and what their
arguments are (`Mode`: outside `extra`, a dependency tree is second class exactly when it is for
building). On it rest the invariants of the properties. `ReasonInv`: a run-time reason replaces
one for building and never the reverse. For `InnermostList`: only the innermost tree has begun,
and it has found none of its alternatives in the lists (`TreesInv`); calls for run time run
before those for building, and a build dependency that is not in use yet is among the calls, so
that what is added for run time finds none to come (`PendingInv`); a seed has nothing before it
grows (`UngrownInv`); and what a seed lists, it or one it inherits from has for building too
(`ContainedInv`). The order of the seeds does the rest: while one grows, those that inherit from
it have nothing. `ClosedInv` says of every clause of every package in a list, of a seed or of a
source built with, that it is `Met`: a tree on the stack has still to ask for it (`Asked`), or
it is `Settled`, by what the seed has, by an accepted call to come (`Comes`), or because nothing
acceptable satisfies it (`Hopeless`). A tree that reaches its end has refused every alternative
(`Refused`), and is the only step that takes a question away. A promotion takes a package out of
the list of an outer seed only, and puts it where that seed finds it too (`Kept`).

*ReverseDependencies.* `CausesInv` says what is behind the entries of the lists before there is
any file: what is in a dependency list is named by a package or source in use, and is in use
itself or an accepted call to come, unless it is there for one of the three reasons that
`CauseIsShown` names; and the questions on the stack are of packages and sources in use
(`Reasoned`). `FileInv` is the depth-first search with its stack: each entry in progress is
above the one it belongs under, what is above a finished entry has been begun, and as long as
there is no loop line it is finished too. So the finished entries are closed upward and the
entry that ends now is not among them, hence none of those above it reaches it: without a loop
line nobody depends on itself. Conversely a loop line is about somebody on the entry's own path,
and from everyone on that path the entry is reached.

**What the proofs found.** Attempts that failed corrected the project in several places.
`ChecksumsOfNewestTrue` said that a wrong checksum has a newer image beside it *that is listed
itself*; the proof of `Merged` does not go through for a new `.iso.gz`, and TLC shows the
counterexample once an outcome of debian-cd has one (section 3). `AllSumsTrue` asked only for no
chance failure; a refused publication, which needs none, is as bad (five publications, too many
for the run; section 3). And in `Britney`, one owner for each binary is not inductive by itself:
`OneOwner` now says also that a binary is with the source it names, which is where
`add_binaries_by_arch` looks for it (`dpkg.c:1721`). `OrphanSyncLockIsForever` said of one step
only that the file stays; it says now that its state stays too, and so it is for ever. And of
germinate: `InnermostOnly` and `BuildDependsAreOnlyThat` have an exception for seeds on top of
the last one, and `BuildClosed` holds for the binary that brought a source in and not for the
others (section 3; the worlds have both cases now). A branch that a STRUCTURE includes twice
counts where it was first (`LaterBranchesOverride`). A seed that has one for a parent which
`--seed-packages` adds is refused as one with an unknown parent, although the two may be a cycle
(`CycleIsReported`), and a STRUCTURE without seeds ends in an `IndexError`: the model had
planted nothing instead. It also took the empty string for "no file yet", which may be the name
of a package; `done = {}` says it now.

**Only model-checked.** Liveness (`EveryCallEnds`, `BuildsEnd`, the half of `OrphanLocks` that
says a dead build's lock is broken, `PublicationEnds`, `Terminates`, `Ends`), which is out of
the prover's reach. All safety and action properties of passing runs are theorems. The
composition of the layers is an argument in prose: the semaphore is modelled as atomic in
`BuildImageSet` by reason of a theorem about `Semaphore`, not by a refinement of one combined
specification.

## 6. Findings

1. `bin/semaphore:27`. The trap is set for EXIT and for signals, and ends in `exit`: on a signal
   it runs twice, and the second `rm -f` may remove the lock file of the next caller, so that
   two callers work on the file at once (`semaphore_signal`).
2. `bin/build-image-set:132`. Builds that find the semaphore above zero wait for
   `.lock-archive-sync` and believe the mirror is consistent once they get it; but the first
   build takes it only some commands after its `test-increment`. A second build that comes in
   between gets the lock at once and reads the archive during the sync (`image_sets_archive`).
   The comment in lines 120–121 promises "a consistent archive".
3. `bin/build-image-set:23`. `pop_cleanup` runs a command before it takes it off the stack. A
   signal between the two runs `decrement-test` twice, and the semaphore reads zero while a
   build uses the archive (`image_sets_opens`).
4. `bin/publish-release:420`. The purge of other statuses looks at one directory of links and at
   the pool that images and sources share. Publishing images with a new status removes the old
   status's sources from the pool, while their links stay in the source directory; they lead
   nowhere, and `site-manifest`, which runs next, raises `OSError` on them (`tree.py:113`), so
   that the manifest is not written either (`release_links`). The comment in lines 416–417 says
   "we can now safely clean up previous images".

Each needs a signal, an unlucky order of two builds, or two publications. None needs more than
three processes. The cases that properties except (section 3) are weaknesses that no text in the
repository denies, or denies only in part, and are not counted as findings.

## 7. Not modelled, and plan

What was modelled first is what several processes share, then the two algorithms the images'
contents depend on. What is left out of a module is named in its section. Of the rest:

- **Worth modelling later:** `build-livecd-base`, `publish-livecd-base` and `cron.wubi` as
  further users of the image set's lock and of `current`; `download-live-filesystems` (which
  files are there after some fetches fail); the full tree of releases (`named`, `no`);
  concurrent publications of releases, which share `.manifest.new` without a lock
  (`publish-release:525`); `kill-after`, which nothing at this commit runs beside `run_bounded`.
- **Not worth it, or out of reach:** configuration, cron jobs, task lists, web indices,
  announcements, torrents and metalinks (text, no state); `livefs.py`'s tables of URLs;
  debian-cd (Makefiles and data per series); the archive tools, `qatracker.py` and cloudfront
  (clients of remote services); `debmirrorsync` (not called); `cdimage/` (a second copy);
  britney's search for an installation (a backtracking search whose result the model defines
  instead).

What is not proved is liveness: that `bin/semaphore`'s calls, builds, publications and the two
algorithms end stays with TLC, on its instances. For germinate and britney, which are
sequential, a measure that every step decreases would say it as a safety property; none has been
written.

Abstracted everywhere: wording, logging, mail, file modes, and the contents of files no property
speaks of.
