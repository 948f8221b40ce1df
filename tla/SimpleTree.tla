------------------------------ MODULE SimpleTree ------------------------------
(* The simple tree that small mirrors carry (lib/cdimage/tree.py, SimpleTree): *)
(* a pool of images, a directory of symlinks into it for each release and one  *)
(* for its sources, a checksum file in each of them (lib/cdimage/checksums.py),*)
(* and the manifest, which sync-mirrors checks before it has the mirrors fetch *)
(* the tree (lib/cdimage/mirror.py).                                           *)
(*                                                                             *)
(* An image's name is <<status, type, architecture>>, its content the number   *)
(* of the daily build it is from; later builds have greater numbers.  What     *)
(* belongs to an image (list, jigdo, zsync) comes and goes with it.  The three *)
(* checksum files and their signatures are one: a checksum is represented by   *)
(* the content it is of.  Sizes are left out of the manifest.                  *)
EXTENDS SequencesExt, TLC

CONSTANT Releases       \* the directories of symlinks

VARIABLES
    pool,       \* simple/.pool: name -> content
    links,      \* directory -> names of the symlinks into the pool
    sums,       \* checksum files: directory or "pool" -> name -> content
    manifest,   \* simple/.manifest: <<directory, name>>
    sync,       \* sync-mirrors: "idle", or "checked"
    unnoticed   \* history: who has not looked since a path was removed

simpleVars == <<pool, links, sums, manifest, sync, unnoticed>>

Lookers == {"manifest", "check"}

Names(d) == IF d = "pool" THEN DOMAIN pool ELSE links[d]

(* os.path.exists, which follows links.                                        *)
Exists(path) == path[2] \in Names(path[1]) \cap DOMAIN pool

Linked == UNION {links[d] : d \in Releases}

(* A path that was there is removed.                                           *)
Notice(removed) == unnoticed' = IF removed THEN Lookers ELSE unnoticed

-----------------------------------------------------------------------------
(* manifest_files: the links, and what is in the pool under no link's name.    *)
ManifestFiles ==
    {p \in Releases \X Linked : p[2] \in links[p[1]]}
    \cup {p \in {"pool"} \X DOMAIN pool : p[2] \notin Linked}

(* manifest_file_allowed asks stat about each of them, which follows links.    *)
StatFails == \E p \in ManifestFiles : ~Exists(p)

\* Mutant: lstat, which finds a link that leads nowhere.
LstatManifest ==
    /\ manifest' = ManifestFiles
    /\ unnoticed' = unnoticed \ {"manifest"}

SiteManifest ==
    /\ ~StatFails
    /\ manifest' = ManifestFiles
    /\ unnoticed' = unnoticed \ {"manifest"}

-----------------------------------------------------------------------------
(* trigger_mirrors raises for the first file that does not exist.              *)
ManifestChecked == \A p \in manifest : Exists(p)

CheckManifest ==
    /\ sync = "idle"
    /\ ManifestChecked
    /\ sync' = "checked"
    /\ unnoticed' = unnoticed \ {"check"}
    /\ UNCHANGED <<pool, links, sums, manifest>>

(* External: a mirror that has been triggered fetches what is there then.      *)
FetchTree ==
    /\ sync = "checked"
    /\ sync' = "idle"
    /\ UNCHANGED <<pool, links, sums, manifest, unnoticed>>

TriggerMirrors == CheckManifest \/ FetchTree

-----------------------------------------------------------------------------
(* checksums.py.                                                               *)

(* checksum-remove.                                                            *)
Forget(d, name) == sums' = [sums EXCEPT ![d] = Restrict(@, DOMAIN @ \ {name})]

(* The build that an image is from, which stands for its age as well: a link   *)
(* that leads nowhere counts as older than everything (merge: entry_time = 0). *)
Content(name) == IF name \in DOMAIN pool THEN pool[name] ELSE 0

\* Mutant: the daily build's entries are taken over first.
MergedDailyFirst(old, daily, names) ==
    [name \in names |->
        IF name \in DOMAIN daily.sums /\ Content(name) <= daily.date THEN daily.sums[name]
        ELSE IF name \in DOMAIN old THEN old[name] ELSE Content(name)]

(* checksum-directory: the directory's own entries are taken over first        *)
(* (bin/checksum-directory passes it as the first of the old ones), then those *)
(* of the daily build under the mapped names, unless the image is younger than *)
(* them, and the rest is computed.                                             *)
Merged(old, daily, names) ==
    [name \in names |->
        IF name \in DOMAIN old THEN old[name]
        ELSE IF name \in DOMAIN daily.sums /\ Content(name) <= daily.date
             THEN daily.sums[name] ELSE Content(name)]

(* A link that leads nowhere fails only when its checksum is to be computed.   *)
Summable(d, daily) ==
    Names(d) \subseteq DOMAIN pool \cup DOMAIN sums[d] \cup DOMAIN daily.sums

ChecksumDirectory(d, daily) ==
    /\ Summable(d, daily)
    /\ sums' = [sums EXCEPT ![d] = Merged(@, daily, Names(d))]

SimpleInit ==
    /\ pool = <<>> /\ links = [d \in Releases |-> {}]
    /\ sums = [d \in Releases \cup {"pool"} |-> <<>>]
    /\ manifest = {} /\ sync = "idle" /\ unnoticed = {}
=============================================================================
