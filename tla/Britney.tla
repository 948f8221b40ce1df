-------------------------------- MODULE Britney --------------------------------
(* britney/update_out: which source packages go from unstable to testing.      *)
(* update_out.py makes a list of candidates and tries them, alone or as hinted,*)
(* on a working copy of testing that can undo its changes (SourcesNote of      *)
(* dpkg.c).  A suite maps sources to [ver, bins], bins an architecture to the  *)
(* binary packages built there.  Versions are numbers; a relation is a name    *)
(* with the versions it admits; a dependency is a set of alternatives.         *)
(* testing-proposed-updates, a second suite treated like unstable, is left out.*)
EXTENDS Naturals, FiniteSets, SequencesExt, FiniteSetsExt

CONSTANTS
    Architectures,          \* arches
    noBreakArchAll,         \* nobreakarchallarches
    Worlds                  \* what the files say when update_out.py starts

(* What the files say is finite; a binary package is with the source it names, *)
(* and in testing with no other one; an operation says what to do with a       *)
(* source, or on which architecture.                                           *)
Operations == [src : STRING, what : STRING]
Jobs == [easy : BOOLEAN, hint : Seq([op : Operations, ver : Nat])]
Names(bins) == {b.name : b \in bins}

ASSUME ArchitecturesAssumption ==
    /\ IsFiniteSet(Architectures) /\ Architectures # {}
    /\ "remove" \notin Architectures /\ "source" \notin Architectures

ASSUME WorldsAssumption ==
    \A w \in Worlds :
        /\ \A suite \in {w.testing, w.unstable} :
               /\ IsFiniteSet(DOMAIN suite)
               /\ \A src \in DOMAIN suite :
                      /\ DOMAIN suite[src].bins = Architectures
                      /\ \A arch \in Architectures :
                             /\ IsFiniteSet(suite[src].bins[arch])
                             /\ \A b \in suite[src].bins[arch] : b.source = src
        /\ \A s, t \in DOMAIN w.testing, arch \in Architectures :
               s # t => Names(w.testing[s].bins[arch]) \cap Names(w.testing[t].bins[arch]) = {}
        /\ w.easy \in Seq(Jobs) /\ w.hints \in Seq(Jobs)

VARIABLES
    world,      \* testing, unstable, their bugs, hints, sources that are too young
    phase,
    notes,      \* srcsn: source -> architecture -> binary packages
    undo,       \* what srcsn needs to undo each change, the last one first
    packages,   \* run.packages: candidates not accepted so far
    todo,       \* calls of do_all that are still to come
    hintcnt,    \* how many hints that are not easy have been used
    job,        \* the call under way
    lead,       \* operations of the hint that it has not applied, or the one it tries
    available, extra, selected, nuninst_orig, nuninst_comp,     \* as in the code
    before      \* notes when the call started (history)

run == <<lead, available, extra, selected, nuninst_orig, nuninst_comp, before>>
vars == <<world, phase, notes, undo, packages, todo, hintcnt, job, run>>

-----------------------------------------------------------------------------
(* Packages on one architecture, as sets of binary packages.                   *)

Fits(b, relation) == b.name = relation.name /\ b.ver \in relation.vers

(* The promise of dpkg.c's is_installable: some set of packages contains this  *)
(* one, satisfies all dependencies in it and has no conflict.                  *)
Installable(b, bins) ==
    \E set \in SUBSET bins :
        /\ b \in set
        /\ \A p \in set :
               /\ \A d \in p.deps : \E r \in d, q \in set : Fits(q, r)
               /\ ~ \E r \in p.conflicts, q \in set \ {p} : Fits(q, r)

On(n, arch) == UNION {n[src][arch] : src \in DOMAIN n}

(* get_nuninst, for a working copy.                                            *)
Nuninst(n) ==
    [arch \in Architectures |->
        LET bins == On(n, arch)
        IN {b \in bins : (arch \in noBreakArchAll \/ ~b.all) /\ ~Installable(b, bins)}]

(* breakarches is empty: every architecture counts.                            *)
Improved(old, new) ==
    \A arch \in Architectures : Cardinality(new[arch]) <= Cardinality(old[arch])

\* Mutant: one architecture is enough.
AsGoodSomewhere(old, new) ==
    \E arch \in Architectures : Cardinality(new[arch]) <= Cardinality(old[arch])

Total(nuninst) == Cardinality(UNION {{arch} \X nuninst[arch] : arch \in Architectures})
AsGoodGenerous(old, new) == Total(new) <= Total(old)

-----------------------------------------------------------------------------
(* Candidates.  An operation of doop_source, and the excuse of the same name.  *)
Op(src, what) == [src |-> src, what |-> what]

testing == world.testing
unstable == world.unstable
Has(suite, src) == src \in DOMAIN suite
Bins(suite, arch) == UNION {suite[src].bins[arch] : src \in DOMAIN suite}
RemoveHint(src, suite) == \E h \in world.remove : h.src = src /\ h.ver = suite[src].ver

(* should_upgrade_srcarch: binary-only uploads of the source in testing.       *)
ShouldUpgradeSrcArch(src, arch) ==
    LET old == Bins(testing, arch)
        new == {b \in unstable[src].bins[arch] : ~b.all}
        tsrcv == testing[src].ver
        Newer(b, c) == b.name = c.name /\ b.ver > c.ver
        wrong == \E b \in new : b.sver # tsrcv \/ \E c \in old : Newer(c, b)
        worth == \E b \in new : b.name \notin Names(old) \/ \E c \in old : Newer(b, c)
        removed == /\ unstable[src].ver = tsrcv
                   /\ \E c \in testing[src].bins[arch] :
                          ~c.all /\ c.name \notin Names(Bins(unstable, arch))
    IN ~RemoveHint(src, testing) /\ ~wrong /\ (worth \/ removed)

(* Bugs are counted per package or source name.  If testing has a version of   *)
(* it that is not older than unstable's, it has the same bugs, whatever the    *)
(* file says.                                                                  *)
Count(bugs, name) == IF name \in DOMAIN bugs THEN bugs[name] ELSE 0

maxver(suite, name) ==
    Max({0} \cup {suite[src].ver : src \in DOMAIN suite \cap {name}}
        \cup {b.ver : b \in {b \in UNION {Bins(suite, arch) : arch \in Architectures} :
                                  b.name = name}})

testingbugs(name) ==
    LET maxvert == maxver(testing, name)
        maxveru == maxver(unstable, name)
    IN IF maxvert = 0 THEN 0
       ELSE Count(IF maxveru # 0 /\ maxvert >= maxveru THEN world.unstablebugs
                                                      ELSE world.testingbugs, name)

MoreBugs(src) ==
    \E name \in DOMAIN world.unstablebugs
                \cap ({src} \cup Names(UNION Range(unstable[src].bins))) :
        world.unstablebugs[name] > testingbugs(name)

(* should_remove_source                                                        *)
ShouldRemoveSource(src) == ~Has(unstable, src)

(* should_upgrade_src.  `young' are the sources whose age is below mindays.    *)
SourceExcuse(src) == Has(testing, src) => unstable[src].ver # testing[src].ver

ShouldUpgradeSrc(src) ==
    LET new == UNION {unstable[src].bins[arch] : arch \in Architectures}
    IN /\ SourceExcuse(src)
       /\ Has(testing, src) => unstable[src].ver > testing[src].ver
       /\ ~(Has(testing, src) /\ RemoveHint(src, testing)) /\ ~RemoveHint(src, unstable)
       /\ src \notin world.young
       /\ \A b \in new : b.sver = unstable[src].ver
       /\ new # {}
       /\ ~MoreBugs(src)

(* excuse_unsat_deps: the sources in unstable that satisfy what testing does   *)
(* not, unless the source itself is one of them.                               *)
DepsOn(src, arch) ==
    UNION {LET from == {c.source : c \in {c \in Bins(unstable, arch) : \E r \in d : Fits(c, r)}}
           IN IF (\E c \in Bins(testing, arch), r \in d : Fits(c, r)) \/ src \in from
              THEN {} ELSE from
           : d \in UNION {b.deps : b \in {b \in unstable[src].bins[arch] :
                                             /\ b.sver = unstable[src].ver
                                             /\ ~b.all \/ arch \in noBreakArchAll}}}

ExcDeps(src) == UNION {DepsOn(src, arch) : arch \in Architectures}

Removals ==
    {Op(src, "remove") : src \in {s \in DOMAIN testing :
        ShouldRemoveSource(s) \/ RemoveHint(s, testing)}}
Upgrades == {Op(src, "source") : src \in {s \in DOMAIN unstable : ShouldUpgradeSrc(s)}}
BinaryUpgrades ==
    {op \in {Op(src, arch) : src \in DOMAIN unstable, arch \in Architectures} :
        Has(testing, op.src) /\ ShouldUpgradeSrcArch(op.src, op.what)}

(* Sources with an excuse that are no candidates themselves.                   *)
Unconsidered ==
    {src \in DOMAIN unstable : SourceExcuse(src) /\ ~ShouldUpgradeSrc(src)}

InvalidateOnce(invalid) ==
    {src \in DOMAIN unstable : SourceExcuse(src) /\ ExcDeps(src) \cap invalid # {}}

\* Mutant: what the list gets while it is gone through is not followed.
InvalidateFirst(invalid) == invalid \cup InvalidateOnce(invalid)

(* invalidate(): the sources whose excuses depend, directly or not, on invalid *)
(* ones.                                                                       *)
Invalidate(invalid) ==
    LET more[n \in 0 .. Cardinality(DOMAIN unstable)] ==
            IF n = 0 THEN invalid
            ELSE more[n - 1] \cup InvalidateOnce(more[n - 1])
    IN more[Cardinality(DOMAIN unstable)]

Consider ==
    /\ phase = "excuses"
    /\ phase' = "next"
    /\ packages' = Removals \cup BinaryUpgrades
                   \cup {op \in Upgrades : op.src \notin Invalidate(Unconsidered)}
    /\ UNCHANGED <<world, notes, undo, todo, hintcnt, job, run>>

-----------------------------------------------------------------------------
(* SourcesNote of dpkg.c: each operation saves the notes that it changes.      *)
NoNote == [arch \in {} |-> {}]
NoteOf(n, src) == IF src \in DOMAIN n THEN n[src] ELSE NoNote
NewNote == [arch \in Architectures |-> {}]

\* Mutant: the binary stays with its old owner.
TakeNothing(n, src, new) == src :> new @@ n

(* add_binaries_by_arch: a binary that another source owns is taken from it.   *)
Take(n, src, new) ==
    LET own(s) == IF s \in DOMAIN n THEN n[s] ELSE NewNote IN
    [s \in DOMAIN n \cup {src} |->
        [arch \in Architectures |->
            {b \in own(s)[arch] : b.name \notin Names(new[arch])}
            \cup (IF s = src THEN new[arch] ELSE {})]]

\* Mutant: the owners of binaries that are taken are not saved.
SavedOwn(old, new, src) == {[src |-> src, was |-> NoteOf(old, src)]}

Saved(old, new, src) ==
    {[src |-> s, was |-> NoteOf(old, s)]
        : s \in {src} \cup {s \in DOMAIN old : NoteOf(new, s) # old[s]}}

Without(n, src) == [s \in DOMAIN n \ {src} |-> n[s]]

(* doop_source: remove_source, upgrade_source, upgrade_arch.  The last one     *)
(* leaves the binaries alone that are arch: all.                               *)
Doop(n, op) ==
    LET arch == op.what
        kept == [n EXCEPT ![op.src][arch] = {b \in @ : b.all}]
        new == [a \in Architectures |->
                   IF a = arch THEN {b \in unstable[op.src].bins[arch] : ~b.all} ELSE {}]
    IN CASE op.what = "remove" -> Without(n, op.src)
         [] op.what = "source" -> Take(Without(n, op.src), op.src, unstable[op.src].bins)
         [] OTHER -> Take(kept, op.src, new)

(* undo_change.                                                                *)
Undone(n, saved) ==
    LET was == [s \in {x.src : x \in saved} |-> (CHOOSE x \in saved : x.src = s).was]
    IN [s \in {s \in DOMAIN n \cup DOMAIN was : s \in DOMAIN was => was[s] # NoNote}
           |-> IF s \in DOMAIN was THEN was[s] ELSE n[s]]

(* The assertions of the operations: what they change is there.                *)
Defined(n, op) == op.what # "source" => op.src \in DOMAIN n

-----------------------------------------------------------------------------
(* UpgradeRun.do_all, for a hint's operations or for none.                     *)

Change(op) ==
    /\ notes' = Doop(notes, op)
    /\ undo' = <<Saved(notes, notes', op.src)>> \o undo

UndoLast == notes' = Undone(notes, Head(undo)) /\ undo' = Tail(undo)

(* A hint names a version of each source in unstable.  At most six hints that  *)
(* are not easy are used, those included whose operations are no candidates.   *)
VersionsMatch(hint) ==
    \A h \in Range(hint) : h.op.what = "source" =>
        Has(unstable, h.op.src) /\ unstable[h.op.src].ver = h.ver

IsCounted(next) == ~next.easy /\ next.hint # <<>>
Used(next) == VersionsMatch(next.hint) /\ (IsCounted(next) => hintcnt <= 5)

(* do_all wants each operation to be a candidate that is still there.          *)
AllCandidates(hint) ==
    /\ \A h \in Range(hint) : h.op \in packages
    /\ IsInjective([i \in DOMAIN hint |-> hint[i].op])

TakeNext ==
    /\ phase = "next" /\ todo # <<>>
    /\ todo' = Tail(todo)
    /\ hintcnt' = IF Used(Head(todo)) /\ IsCounted(Head(todo)) THEN hintcnt + 1 ELSE hintcnt

SkipHint ==
    /\ TakeNext
    /\ ~(Used(Head(todo)) /\ AllCandidates(Head(todo).hint))
    /\ UNCHANGED <<world, phase, notes, undo, packages, job, run>>

DoAll ==
    /\ TakeNext
    /\ Used(Head(todo)) /\ AllCandidates(Head(todo).hint)
    /\ phase' = "leading"
    /\ job' = Head(todo)
    /\ lead' = [i \in DOMAIN Head(todo).hint |-> Head(todo).hint[i].op]
    /\ selected' = lead'
    /\ available' = packages \ Range(lead') /\ extra' = {}
    /\ nuninst_orig' = Nuninst(notes) /\ nuninst_comp' = <<>>
    /\ before' = notes
    /\ UNCHANGED <<world, notes, undo, packages>>

Lead ==
    /\ phase = "leading" /\ lead # <<>>
    /\ Change(Head(lead))
    /\ lead' = Tail(lead)
    /\ UNCHANGED <<world, phase, packages, todo, hintcnt, job, available, extra, selected,
                   nuninst_orig, nuninst_comp, before>>

(* do_all(0, init) goes on with the candidates, do_all("easy", init) does not. *)
StartIterEnd ==
    /\ phase = "leading" /\ lead = <<>> /\ ~job.easy
    /\ phase' = "trying"
    /\ nuninst_comp' = Nuninst(notes)
    /\ UNCHANGED <<world, notes, undo, packages, todo, hintcnt, job, available, extra, selected, lead,
                   nuninst_orig, before>>

Judge(nuninst) ==
    /\ IF AsGoodGenerous(nuninst_orig, nuninst)
       THEN /\ packages' = packages \ Range(selected)
            /\ undo' = <<>> /\ selected' = <<>>       \* commit_changes
            /\ phase' = "next"
       ELSE phase' = "undoing" /\ UNCHANGED <<packages, undo, selected>>
    /\ UNCHANGED <<world, notes, todo, hintcnt, job, lead, nuninst_orig, nuninst_comp, before>>

JudgeEasy ==
    /\ phase = "leading" /\ lead = <<>> /\ job.easy
    /\ Judge(Nuninst(notes))
    /\ available' = {} /\ UNCHANGED extra

(* iter_end's loop, for any order of the list.                                 *)
Try(x) ==
    /\ phase = "trying" /\ x \in available
    /\ phase' = "tried"
    /\ Change(x)
    /\ lead' = <<x>>
    /\ available' = available \ {x}
    /\ UNCHANGED <<world, packages, todo, hintcnt, job, extra, selected, nuninst_orig, nuninst_comp, before>>

\* Mutant: what was skipped is not tried again after a success.
AcceptOnly(x) == available' = available /\ UNCHANGED extra

(* The candidates skipped so far get another chance.                           *)
Accept(x) == available' = available \cup extra /\ extra' = {}

\* Mutant: the candidate stays in the list.
SkipForNow(x) == available' = available \cup {x} /\ UNCHANGED extra

Skip(x) == extra' = extra \cup {x} /\ UNCHANGED available

Tried ==
    /\ phase = "tried"
    /\ phase' = "trying" /\ lead' = <<>>
    /\ LET nuninst_new == Nuninst(notes) IN
       IF Improved(nuninst_comp, nuninst_new)
       THEN /\ selected' = Append(selected, Head(lead))
            /\ Accept(Head(lead))
            /\ nuninst_comp' = nuninst_new
            /\ UNCHANGED <<notes, undo>>
       ELSE /\ UndoLast
            /\ Skip(Head(lead))
            /\ UNCHANGED <<selected, nuninst_comp>>
    /\ UNCHANGED <<world, packages, todo, hintcnt, job, nuninst_orig, before>>

EndLoop ==
    /\ phase = "trying" /\ available = {}
    /\ Judge(nuninst_comp)
    /\ UNCHANGED <<available, extra>>

(* iter_end undoes what it accepted, do_all the hint.                          *)
UndoChange ==
    /\ phase = "undoing"
    /\ IF selected = <<>>
       THEN phase' = "next" /\ UNCHANGED <<notes, undo, selected>>
       ELSE UndoLast /\ selected' = Front(selected) /\ UNCHANGED phase
    /\ UNCHANGED <<world, packages, todo, hintcnt, job, available, extra, lead, nuninst_orig,
                   nuninst_comp, before>>

-----------------------------------------------------------------------------
Init ==
    /\ world \in Worlds
    /\ phase = "excuses"
    /\ notes = [src \in DOMAIN world.testing |-> world.testing[src].bins]
    /\ before = notes
    /\ undo = <<>> /\ packages = {}
    /\ todo = world.easy \o <<[easy |-> FALSE, hint |-> <<>>]>> \o world.hints
    /\ hintcnt = 0
    /\ job = [easy |-> FALSE, hint |-> <<>>]
    /\ lead = <<>> /\ available = {} /\ extra = {} /\ selected = <<>>
    /\ nuninst_orig = <<>> /\ nuninst_comp = <<>>

Next ==
    \/ Consider \/ SkipHint \/ DoAll \/ Lead \/ JudgeEasy \/ StartIterEnd
    \/ \E x \in available : Try(x)
    \/ Tried \/ EndLoop \/ UndoChange

Spec == Init /\ [][Next]_vars /\ WF_vars(Next)

-----------------------------------------------------------------------------
(* What a candidate needs of other sources in unstable is a candidate too, or  *)
(* not waiting for anything, through any number of dependencies (invalidate).  *)
InvalidatedClosed ==
    [][ phase = "excuses" =>
            \A op \in packages' : op.what = "source" =>
                \A d \in ExcDeps(op.src) : SourceExcuse(d) => Op(d, "source") \in packages' ]_vars

(* After each call of do_all, testing has no more uninstallable packages than  *)
(* when update_out.py started, whatever was tried, hinted, accepted and undone.*)
NeverWorse ==
    phase = "next" => Total(Nuninst(notes))
        <= Total(Nuninst([src \in DOMAIN testing |-> testing[src].bins]))

(* A call that fails leaves the working copy as it was, although its changes   *)
(* moved binaries between sources, and nothing to undo (undo_change, do_all).  *)
FailedRunRestores ==
    [][ phase = "undoing" /\ phase' = "next" => notes = before /\ undo = <<>> ]_vars

(* No binary belongs to two sources of the working copy, and a binary is with  *)
(* the source it names, where add_binaries_by_arch looks for it when another   *)
(* source takes it (assertion at dpkg.c:1721).                                 *)
OneOwner ==
    \A s, t \in DOMAIN notes, arch \in Architectures :
        /\ s # t => Names(notes[s][arch]) \cap Names(notes[t][arch]) = {}
        /\ \A b \in notes[s][arch] : b.source = s

(* Candidates can still be tried when their turn comes: the source of which a  *)
(* candidate replaces or removes something is there (the assertions of         *)
(* upgrade_arch and remove_source), whatever was accepted before.              *)
CandidatesDefined ==
    \A op \in packages \ (Range(selected) \cup Range(lead)) : Defined(notes, op)

(* The assertions of dpkg.c hold.                                              *)
DpkgAssertions == OneOwner /\ CandidatesDefined

(* do_all() without a hint ends when no candidate that is left would be        *)
(* accepted, not even one that was skipped before others were accepted.        *)
NothingLeftToAccept ==
    [][ phase = "trying" /\ phase' = "next" /\ job.hint = <<>> =>
            \A op \in packages' : ~Improved(Nuninst(notes'), Nuninst(Doop(notes', op))) ]_vars

(* All calls of do_all end.                                                    *)
Ends == <>[](phase = "next" /\ todo = <<>>)
=============================================================================
