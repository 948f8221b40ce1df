--------------------------- MODULE PublishDirectory ---------------------------
(* The files of one image set: what a build leaves in scratch, the             *)
(* installability report made of it (lib/cdimage/check_installable.py), and    *)
(* the directory that DailyTreePublisher.publish fills with hard links to the  *)
(* last build, new images, checksums and signatures (tree.py, checksums.py,    *)
(* sign.py, atomicfile.py) before `current' leads to it.  The directories of   *)
(* earlier builds share inodes; a hard link keeps its name, so that an inode   *)
(* is known by the build that made it and its name, and a directory maps names *)
(* to builds.  The locks, the IDs and the manifest are in BuildImageSet and    *)
(* DailyTree: here, one build follows the other, in directories 1, 2, ...      *)
EXTENDS RunBounded, SequencesExt

CONSTANTS
    Arches,         \* the architectures
    CpuArch,        \* arch.split("+")[0] of each of them
    SizeLimit,      \* size_limit, of the project and the type of image
    Gigabyte,       \* 1024 * 1024 * 1024
    IsEdubuntu,     \* project = "edubuntu"
    Requests,       \* ARCHES, as cron or an operator sets it
    Outcomes,       \* what debian-cd may leave for each architecture
    SumsFiles,      \* MD5SUMS, SHA1SUMS, SHA256SUMS
    Keys,           \* can_sign
    MaxBuilds, MaxCrashes   \* bounds

ASSUME Bounds ==
    /\ SizeLimit \in Nat /\ Gigabyte \in Nat /\ IsEdubuntu \in BOOLEAN
    /\ MaxBuilds \in Nat /\ MaxCrashes \in Nat /\ Keys \in BOOLEAN

ASSUME RequestsAssumption == \A r \in Requests : r \in Seq(Arches) /\ IsInjective(r)

(* What belongs to an architecture is told by its name from what does not.     *)
ASSUME NamesAssumption ==
    "report" \notin Arches \cup SumsFiles /\ Arches \cap SumsFiles = {}

VARIABLES
    stage,      \* the next step of build-image-set and of publish()
    build,      \* the number of the build and of its directory
    arches,     \* config.arches of this build
    scratch,    \* what debian-cd has left for them
    packages,   \* britney/data: processor architecture -> whose Packages file
    report,     \* britney/report/PROJECT/IMAGE_TYPE/SERIES_probs.html
    dirs,       \* build -> name -> the build that made the inode
    data,       \* inode -> content
    current,    \* the build that the symlink leads to, 0 if there is none
    base,       \* where it led when this build started (history)
    published,  \* architectures whose image publish_binary has moved
    entries,    \* the checksums that merge_all has put together
    left,       \* checksum files that are not written yet
    posted,     \* what post-qa was told: builds and architectures
    crashes

publishVars == <<stage, build, arches, scratch, packages, report, dirs, data,
                 current, base, published, entries, left, posted, crashes>>
vars == <<publishVars, boundedVars>>

\* What all steps of one build leave alone, and what only some change.
steady == <<build, scratch, base, crashes>>
checks == <<packages, report>>
files == <<dirs, data>>
progress == <<published, entries, left>>

-----------------------------------------------------------------------------
(* The images in scratch.                                                      *)
NoImage == [type |-> "none"]
Raw(a) == scratch[a].raw

(* What file(1) says of the .raw file, or debian-cd in .type of what is        *)
(* compressed in it; an unknown type is an ISO image or a compressed disk.     *)
detect_image_extension(a) ==
    IF Raw(a).gzip
    THEN CASE Raw(a).type = "ISO9660" -> "iso.gz"
           [] Raw(a).type = "tar" -> "tar.gz"
           [] OTHER -> "img.gz"
    ELSE IF Raw(a).type = "bootSector" THEN "img" ELSE "iso"

Compressed == {"iso.gz", "img.gz", "tar.gz"}
Kinds == {"iso", "img"} \cup Compressed

size_limit_extension(kind) ==
    IF ~IsEdubuntu /\ kind \in {"img"} \cup Compressed THEN Gigabyte ELSE SizeLimit

-----------------------------------------------------------------------------
(* Contents and files.  A checksum is represented by the content it is of.     *)
Image(a) == [is |-> "image", arch |-> a, size |-> Raw(a).size, from |-> build]
Zsync(image) == [is |-> "zsync", for |-> image]
Sums(sums) == [is |-> "sums", of |-> sums]
Signature(content) == [is |-> "signature", over |-> content]
EmptyFile == [is |-> "empty"]
NoReport == [is |-> "none"]
Report(whole, on) == [is |-> "report", whole |-> whole, on |-> on]

Beside == {"list", "bootimg", "manifest", "squashfs", "jigdo"}
Dropped == {"manifest", "squashfs", "jigdo"}    \* unlinked when there is none

ASSUME OutcomesAssumption == \A a \in Arches : \A o \in Outcomes[a] : o.beside \subseteq Beside

(* .iso.gz is not among the names that get checksums.                          *)
WithSums == (Kinds \ {"iso.gz"}) \cup {"bootimg", "squashfs"}
WantImage(name) == name[2] \in WithSums /\ Len(name) = 2

Here == [names |-> dirs[build], data |-> data]
Contents(n) == [name \in DOMAIN dirs[n] |-> data[<<dirs[n][name], name>>]]

(* rename(2) of new files to their names.                                      *)
Put(fs, new) ==
    [names |-> [m \in DOMAIN fs.names \cup DOMAIN new |->
                   IF m \in DOMAIN new THEN build ELSE fs.names[m]],
     data  |-> [i \in DOMAIN fs.data \cup ({build} \X DOMAIN new) |->
                   IF i[1] = build /\ i[2] \in DOMAIN new THEN new[i[2]] ELSE fs.data[i]]]

(* open(..., "wb"): writes into the file that is there, if there is one.       *)
Write(fs, name, content) ==
    IF name \in DOMAIN fs.names
    THEN [names |-> fs.names, data |-> [fs.data EXCEPT ![<<fs.names[name], name>>] = content]]
    ELSE Put(fs, [m \in {name} |-> content])

Unlink(fs, names) ==
    [names |-> Restrict(fs.names, DOMAIN fs.names \ names), data |-> fs.data]

Becomes(fs) == dirs' = [dirs EXCEPT ![build] = fs.names] /\ data' = fs.data

Goto(next) == stage' = next

(* The publication ends, or a command fails: Python raises, and set -e ends    *)
(* build-image-set.                                                            *)
End == Goto("idle") /\ published' = {} /\ entries' = <<>> /\ left' = {}
Raise == End

-----------------------------------------------------------------------------
(* build_all.sh, for the architectures that the operator or cron asks for.  It *)
(* removes what was there; that it fails does not stop build-image-set.        *)
BuildAll(wanted, made) ==
    /\ stage = "idle" /\ build < MaxBuilds
    /\ \A a \in ToSet(wanted) : made[a] \in Outcomes[a]
    /\ Goto("prepare")
    /\ build' = build + 1
    /\ arches' = wanted
    /\ scratch' = made
    /\ base' = current
    /\ UNCHANGED <<progress, checks, files, current, posted, crashes, boundedVars>>

\* Mutant: ensuredir instead of mkemptydir.
EnsureDir(old) == old

MkEmptyDir(old) == <<>>

(* The Packages file of an architecture is opened with "w" under the name of   *)
(* its processor architecture, and unlinked again if nothing was found: of     *)
(* those that share it, the last one decides.                                  *)
AddPackages(old) ==
    LET cpus == {CpuArch[a] : a \in ToSet(arches)}
        last == [c \in cpus |-> arches[Max({i \in DOMAIN arches : CpuArch[arches[i]] = c})]]
        found == {c \in cpus : Raw(last[c]) # NoImage}
    IN [c \in (DOMAIN old \ cpus) \cup found |->
           IF c \in found THEN <<last[c], build>> ELSE old[c]]

PrepareCheckInstallable ==
    /\ stage = "prepare"
    /\ packages' = AddPackages(MkEmptyDir(packages))
    /\ report' = NoReport
    /\ Fork
    /\ Goto("check")
    /\ UNCHANGED <<steady, arches, files, current, progress, posted>>

(* rptprobs.sh creates the report when it starts, and has written all of it    *)
(* when it ends by itself.                                                     *)
Rptprobs ==
    /\ stage = "check"
    /\ UNCHANGED <<stage, steady, arches, packages, files, current, progress, posted>>
    /\ \/ Spawn /\ report' = Report(FALSE, packages)
       \/ /\ ChildEnds
          /\ report' = IF child = "running" /\ report # NoReport
                       THEN Report(TRUE, packages) ELSE report
       \/ (SetAlarm \/ CallPause \/ Sleep \/ AlarmRings \/ KillGroup \/ ReapAndExit)
          /\ UNCHANGED report

CheckInstallable ==
    /\ stage = "check"
    /\ Return
    /\ Goto("link")
    /\ UNCHANGED <<steady, arches, checks, files, current, progress, posted>>

(* The report directory belongs to the project and the image type, the lock of *)
(* build-image-set to a series as well: the build of another series empties it *)
(* (check_installable.py:107) while this one checks or publishes.              *)
OtherSeriesChecks ==
    /\ stage \in {"check", "link", "binary", "report", "copy"}
    /\ report # NoReport
    /\ report' = NoReport
    /\ UNCHANGED <<stage, steady, arches, packages, files, current, progress, posted, boundedVars>>

-----------------------------------------------------------------------------
(* DailyTreePublisher.publish.                                                 *)

(* Names that begin with the series: of the images and of what belongs to them.*)
OfSeries(names) == {name \in names : name[1] \notin SumsFiles \cup {"report"}}

NewPublishDir ==
    /\ stage = "link"
    /\ Goto("binary")
    /\ dirs' = [n \in DOMAIN dirs \cup {build} |->
                   IF n # build THEN dirs[n]
                   ELSE IF current = 0 THEN <<>>
                   ELSE Restrict(dirs[current], OfSeries(DOMAIN dirs[current]))]
    /\ UNCHANGED <<steady, arches, checks, data, current, progress, posted, boundedVars>>

\* Mutant: the prefix without its dot.
OfCpuArch(a, names) == {name \in names : name[1] \in Arches /\ CpuArch[name[1]] = a}

(* out_prefix ends with a dot: amd64. is not the beginning of amd64+mac.iso    *)
OfArch(a, names) == {name \in names : name[1] = a}

(* The image and what debian-cd left beside it; what it did not leave goes.    *)
MoveImage(fs, a) ==
    LET extension == detect_image_extension(a)
        moved == [name \in {<<a, file>> : file \in {extension} \cup scratch[a].beside} |->
                     IF name[2] = extension THEN Image(a)
                     ELSE [is |-> name[2], arch |-> a, from |-> build]]
    IN Put(Unlink(fs, {<<a, file>> : file \in Dropped}), moved)

\* Mutant: the zsync file of the last build is not unlinked first.
MakeZsyncInPlace(fs, a) ==
    LET name == <<a, detect_image_extension(a)>>
    IN Write(fs, Append(name, "zsync"), Zsync(fs.data[<<fs.names[name], name>>]))

MakeZsync(fs, a) ==
    LET name == <<a, detect_image_extension(a)>>
        zsync == <<a, detect_image_extension(a), "zsync">>
    IN Write(Unlink(fs, {zsync}), zsync, Zsync(fs.data[<<fs.names[name], name>>]))

(* The mark stays if it is there: open(..., "a").                              *)
MarkOversized(fs, a) ==
    LET mark == <<a, "OVERSIZED">>
    IN IF Raw(a).size > size_limit_extension(detect_image_extension(a))
       THEN Write(fs, mark, EmptyFile) ELSE Unlink(fs, {mark})

(* One architecture.  ChecksumFileSet.remove has nothing to remove here: the   *)
(* directory is new, and checksum files are not linked.                        *)
PublishBinary ==
    /\ stage = "binary" /\ arches # <<>>
    /\ LET a == Head(arches) IN
       IF Raw(a) = NoImage
       THEN /\ Becomes(Unlink(Here, OfArch(a, DOMAIN dirs[build])))
            /\ UNCHANGED <<stage, progress>>
       ELSE \E moved \in {MoveImage(Here, a)} :
            \/ /\ \E made \in {MakeZsync(moved, a)} : Becomes(MarkOversized(made, a))
               /\ published' = published \cup {a}
               /\ UNCHANGED <<stage, entries, left>>
            \/ /\ Becomes(Unlink(moved, {<<a, detect_image_extension(a), "zsync">>}))
               /\ Raise
    /\ arches' = Tail(arches)
    /\ UNCHANGED <<steady, checks, current, posted, boundedVars>>

(* No CDs produced: publish() returns.                                         *)
AllMoved ==
    /\ stage = "binary" /\ arches = <<>>
    /\ IF published = {} THEN End ELSE Goto("report") /\ UNCHANGED progress
    /\ UNCHANGED <<steady, arches, checks, files, current, posted, boundedVars>>

(* os.path.exists, and afterwards shutil.copy2.                                *)
TestReport ==
    /\ stage = "report"
    /\ IF report # NoReport
       THEN Goto("copy") /\ UNCHANGED files
       ELSE Goto("merge") /\ Becomes(Unlink(Here, {<<"report", "html">>}))
    /\ UNCHANGED <<steady, arches, checks, current, progress, posted, boundedVars>>

CopyReport ==
    /\ stage = "copy"
    /\ IF report = NoReport
       THEN Raise /\ UNCHANGED files
       ELSE /\ Becomes(Write(Here, <<"report", "html">>, report))
            /\ Goto("merge")
            /\ UNCHANGED progress
    /\ UNCHANGED <<steady, arches, checks, current, posted, boundedVars>>

\* Mutant: s/\.[a-z]*$/.raw/
MapAnyName(name) == <<name[1], "raw">>

(* s/\.\(img\|...\|iso\|...\)$/.raw/: the image of which kind soever.          *)
MapName(name) == IF name[2] \in Kinds THEN <<name[1], "raw">> ELSE name

(* The checksum file in scratch, of an architecture whose `make imagesums' was *)
(* reached: there is one for the .raw file.  It is not older than any image.   *)
OldSums(a) ==
    [name \in IF scratch[a].summed THEN {<<a, "raw">>} ELSE {} |-> Image(a)]

(* merge, then add: taken over from scratch if it is there under the image's   *)
(* name or the mapped one, else computed from the file.                        *)
ChecksumOf(name) ==
    LET found == {a \in published : {name, MapName(name)} \cap DOMAIN OldSums(a) # {}}
    IN IF found = {} THEN Contents(build)[name]
       ELSE LET sums == OldSums(CHOOSE a \in found : TRUE)
            IN IF name \in DOMAIN sums THEN sums[name] ELSE sums[MapName(name)]

MergeAll ==
    /\ stage = "merge"
    /\ entries' = [name \in {m \in DOMAIN dirs[build] : WantImage(m)} |-> ChecksumOf(name)]
    /\ left' = SumsFiles
    /\ Goto("write")
    /\ UNCHANGED <<steady, arches, checks, files, current, published, posted, boundedVars>>

NextSums == CHOOSE f \in left : TRUE

(* AtomicFile; then the signature, which gpg writes into a file made for it.   *)
WriteSums ==
    /\ stage = "write" /\ left # {} /\ DOMAIN entries # {}
    /\ Becomes(Put(Here, [name \in {<<NextSums, "sums">>} |-> Sums(entries)]))
    /\ IF Keys THEN Goto("sign") /\ UNCHANGED left
               ELSE left' = left \ {NextSums} /\ UNCHANGED stage
    /\ UNCHANGED <<steady, arches, checks, current, published, entries, posted, boundedVars>>

(* Without entries, no file is written or signed: there shall be none.         *)
RemoveSums ==
    /\ stage = "write" /\ left # {} /\ DOMAIN entries = {}
    /\ Becomes(Unlink(Here, {<<NextSums, "sums">>}))
    /\ left' = left \ {NextSums}
    /\ UNCHANGED <<stage, steady, arches, checks, current, published, entries, posted, boundedVars>>

OpenSignature ==
    /\ stage = "sign"
    /\ Becomes(Write(Here, <<NextSums, "gpg">>, EmptyFile))
    /\ Goto("gpg")
    /\ UNCHANGED <<steady, arches, checks, current, progress, posted, boundedVars>>

\* Mutant: sign_cdimage does not unlink the file.
GpgLeavesFile(f) == Raise /\ UNCHANGED files

GpgFails(f) == Becomes(Unlink(Here, {<<f, "gpg">>})) /\ Raise

SignCdimage ==
    /\ stage = "gpg"
    /\ \/ /\ Becomes(Write(Here, <<NextSums, "gpg">>,
                          Signature(Contents(build)[<<NextSums, "sums">>])))
          /\ left' = left \ {NextSums}
          /\ Goto("write")
          /\ UNCHANGED <<published, entries>>
       \/ GpgFails(NextSums)
    /\ UNCHANGED <<steady, arches, checks, current, posted, boundedVars>>

(* make-web-indices, the symlink in two steps, the manifest under its lock,    *)
(* and the announcement; `published' holds what publish_binary has yielded.    *)
MakeWebIndices ==
    /\ stage = "write" /\ left = {}
    /\ (Goto("unlink") /\ UNCHANGED progress) \/ Raise
    /\ UNCHANGED <<steady, arches, checks, files, current, posted, boundedVars>>

UnlinkCurrent ==
    /\ stage = "unlink"
    /\ current' = 0
    /\ Goto("symlink")
    /\ UNCHANGED <<steady, arches, checks, files, progress, posted, boundedVars>>

Symlink ==
    /\ stage = "symlink"
    /\ current' = build
    /\ Goto("manifest")
    /\ UNCHANGED <<steady, arches, checks, files, progress, posted, boundedVars>>

WriteManifest ==
    /\ stage = "manifest"
    /\ (Goto("post-qa") /\ UNCHANGED progress) \/ Raise
    /\ UNCHANGED <<steady, arches, checks, files, current, posted, boundedVars>>

PostQA ==
    /\ stage = "post-qa"
    /\ posted' = posted \cup {<<build, a>> : a \in published}
    /\ End
    /\ UNCHANGED <<steady, arches, checks, files, current, boundedVars>>

(* The machine stops: whatever ran is gone, files stay as they are.            *)
Crash ==
    /\ stage # "idle" /\ crashes < MaxCrashes
    /\ crashes' = crashes + 1
    /\ End
    /\ control' = "none" /\ child' = "none" /\ pending' = {} /\ alarm' = "unset"
    /\ UNCHANGED <<build, arches, scratch, checks, files, current, base, posted>>

-----------------------------------------------------------------------------
Init ==
    /\ stage = "idle" /\ build = 0 /\ arches = <<>> /\ scratch = <<>>
    /\ packages = <<>> /\ report = NoReport
    /\ dirs = <<>> /\ data = <<>> /\ current = 0 /\ base = 0
    /\ published = {} /\ entries = <<>> /\ left = {} /\ posted = {} /\ crashes = 0
    /\ Idle

(* What runs by itself once a build has been started.                          *)
Publish ==
    \/ PrepareCheckInstallable \/ CheckInstallable
    \/ NewPublishDir \/ PublishBinary \/ AllMoved
    \/ TestReport \/ CopyReport \/ MergeAll
    \/ WriteSums \/ RemoveSums \/ OpenSignature \/ SignCdimage
    \/ MakeWebIndices \/ UnlinkCurrent \/ Symlink \/ WriteManifest \/ PostQA

Next ==
    \/ \E wanted \in Requests :
           \E made \in [ToSet(wanted) -> UNION Range(Outcomes)] : BuildAll(wanted, made)
    \/ Publish \/ Rptprobs \/ OtherSeriesChecks \/ Crash

(* The report's command may hang for ever ("on a futex") until it is killed.   *)
RptprobsRuns == Rptprobs /\ (child = "running" => child' # "zombie")

Spec == Init /\ [][Next]_vars /\ WF_vars(Publish) /\ WF_vars(RptprobsRuns)

-----------------------------------------------------------------------------
(* A build shares inodes with the ones before it, moves new files over their   *)
(* names and lets other programs write some of them; it never changes a file   *)
(* in the directory of an earlier build (publish_binary, sign_cdimage).        *)
EarlierBuildsUnchanged ==
    [][ \A n \in DOMAIN dirs \ {build'} : Contents(n)' = Contents(n) ]_<<dirs, data>>

(* A daily tree's `current' leads to a directory with all checksum files, each *)
(* listing every image, and signed if there is a key, however publications     *)
(* before it and after it failed; or to one with none of them at all, if it    *)
(* has nothing but images of a kind that gets no checksum (publish,            *)
(* checksum_directory, ChecksumFile.write).                                    *)
CurrentIsComplete ==
    current # 0 =>
        LET listed == Contents(current)
            summed == {name \in DOMAIN listed : WantImage(name)}
        IN \A f \in SumsFiles :
               /\ <<f, "sums">> \in DOMAIN listed <=> summed # {}
               /\ <<f, "gpg">> \in DOMAIN listed <=> summed # {} /\ Keys
               /\ summed # {} => DOMAIN listed[<<f, "sums">>].of = summed

(* No directory has a signature that is not one of the checksum file beside    *)
(* it, except the one that gpg is writing into, or was when the machine        *)
(* stopped (sign_cdimage).                                                     *)
SignaturesFit ==
    \A n \in DOMAIN dirs, f \in SumsFiles :
        <<f, "gpg">> \in DOMAIN dirs[n] =>
            \/ Contents(n)[<<f, "gpg">>] = Signature(Contents(n)[<<f, "sums">>])
            \/ n = build /\ stage = "gpg" /\ f = NextSums
            \/ crashes > 0 /\ n # current

(* Checksums that are taken over from scratch, under another name and without  *)
(* reading the image, are those of the image published under this name, for    *)
(* the architectures of the build and for the ones carried over, unless a      *)
(* newer image of another kind is beside it (ChecksumFile.merge).              *)
ChecksumsOfNewestTrue ==
    \A n \in DOMAIN dirs, f \in SumsFiles :
        <<f, "sums">> \in DOMAIN dirs[n] =>
            LET listed == Contents(n)
                sums == listed[<<f, "sums">>].of
                Newer(x, y) == /\ x[1] = y[1] /\ listed[x].is = "image"
                               /\ listed[x].from > listed[y].from
            IN \A name \in DOMAIN sums :
                   sums[name] = listed[name] \/ \E x \in DOMAIN listed : Newer(x, name)

(* What the documentation string of new_publish_dir says: a rebuild of some    *)
(* architectures carries over all others, every file of them as it was.        *)
OthersCarriedOver ==
    [][ current' # current /\ current' # 0 /\ base # 0 =>
            LET kept == {name \in OfSeries(DOMAIN dirs[base]) : name[1] \notin DOMAIN scratch}
            IN /\ kept \subseteq DOMAIN dirs[current']
               /\ \A name \in kept : dirs[current'][name] = dirs[base][name]
               /\ \A name \in OfSeries(DOMAIN dirs[current']) \ kept :
                      name[1] \in DOMAIN scratch ]_current

(* A published report is about this build's packages, none of an earlier one's,*)
(* although the report and its input stay on disk from build to build and the  *)
(* check may be killed (check_installable).                                    *)
ReportIsOfItsBuild ==
    \A n \in DOMAIN dirs :
        <<"report", "html">> \in DOMAIN dirs[n] =>
            \A of \in Range(Contents(n)[<<"report", "html">>].on) : of[2] = n

(* The ISO tracker hears only of images of this build that are in its          *)
(* directory and have checksums there, if of a kind that gets them (publish,   *)
(* post-qa).                                                                   *)
PostedIsThere ==
    \A p \in posted :
        \E name \in DOMAIN dirs[p[1]] :
            /\ LET image == Contents(p[1])[name]
               IN image.is = "image" /\ image.arch = p[2] /\ image.from = p[1]
            /\ WantImage(name) =>
                   \A f \in SumsFiles : name \in DOMAIN Contents(p[1])[<<f, "sums">>].of

(* An architecture in `current' is marked OVERSIZED exactly if its last image  *)
(* is too large for its kind, though marks are carried over and an image of    *)
(* another kind may still be beside it (publish_binary, size_limit_extension). *)
MarksAreRight ==
    current # 0 =>
        LET listed == Contents(current)
            names == OfSeries(DOMAIN listed)
        IN \A a \in {name[1] : name \in names} :
               LET images == {name \in names : name[1] = a /\ listed[name].is = "image"}
               IN <<a, "OVERSIZED">> \in names <=>
                      \E x \in images :
                          /\ \A y \in images : listed[x].from >= listed[y].from
                          /\ listed[x].size > size_limit_extension(x[2])

(* Whatever failed before and after: what `current' leads to and what is told  *)
(* of it is whole, no signature is wrong, and marks are of the last images.    *)
PublishedIsWhole ==
    CurrentIsComplete /\ SignaturesFit /\ PostedIsThere /\ MarksAreRight

(* A build's publication ends, even if the check of its packages hangs, unless *)
(* run_bounded has lost the signal that would have ended it.                   *)
PublicationEnds == stage # "idle" ~> stage = "idle" \/ LostWakeup
=============================================================================
