------------------------------ MODULE Germinator -----------------------------
(***************************************************************************)
(* Germinate (germinate/germinate/germinator.py, run by bin/germinate):    *)
(* expands seeds into dependency-closed lists of packages, each package in *)
(* the list of the innermost seed that needs it.                           *)
(*                                                                         *)
(* The recursion of _addPackage, _addDependencyTree and _rescueIncludes is *)
(* the sequence stack: its head is the call that is running, and what is   *)
(* behind it is still to do. A call's loop goes on after the calls it made *)
(* have returned, with whatever they changed.                              *)
(*                                                                         *)
(* Names are compared only for equality; sorted and dictionary orders are  *)
(* any order; Pre-Depends and Depends, and Build-Depends and               *)
(* Build-Depends-Indep, are each one sequence of clauses. A seed line that *)
(* matches a pattern carries the names the pattern would match.            *)
(***************************************************************************)
EXTENDS SeedStructure

Clauses == Seq(Seq([name : STRING, rel : STRING, version : Nat]))
BinarySection ==
  [kind : {"deb", "udeb"}, name : STRING, version : Nat, depends : Clauses,
   recommends : Clauses, provides : Seq(STRING), source : STRING,
   metapackage : BOOLEAN, kernel : STRING]
SourceSection ==
  [kind : {"source"}, name : STRING, version : Nat, builddeps : Clauses,
   binaries : Seq(STRING)]

(* The archive's indices, and the hints: package -> the seed it goes to.   *)
ASSUME ArchiveAssumption ==
  \A w \in Worlds : /\ w.sections \in Seq(BinarySection \cup SourceSection)
                    /\ DOMAIN w.hints \subseteq STRING

VARIABLES
  sections,                               \* index sections not parsed yet
  packages, provides, sources, pruned,    \* what the archive has
  seeds,                                  \* the seeds planted, in order
  seed, seedrecommends,                   \* seed -> sequence of packages
  options,                                \* seed -> its headers and blacklist
  depends, build_depends,                 \* seed -> set of packages
  all, build, not_build,
  all_srcs, build_srcs, not_build_srcs, build_sourcepkgs,
  why,              \* list -> package -> [tree, recs], the kind of reason
  grown,            \* how many seeds grow() has taken up
  stack             \* the calls in progress

archiveVars == <<sections, packages, provides, sources>>
plantVars   == <<pruned, seeds, options>>
seedVars    == <<seed, seedrecommends>>
addedVars   == <<all, build, not_build, why>>
dependVars  == <<depends, build_depends>>
sourceVars  == <<all_srcs, build_srcs, not_build_srcs, build_sourcepkgs>>
vars == <<world, phase, structureVars, archiveVars, plantVars, seedVars,
          addedVars, dependVars, sourceVars, grown, stack>>

Extra == "extra"
supported == Last(structure.names)     \* the last seed of the STRUCTURE file
Get(f, x, default) == IF x \in DOMAIN f THEN f[x] ELSE default
Hint(pkg) == Get(world.hints, pkg, "")
Known(pkgs) == Keep(pkgs, DOMAIN packages)

-----------------------------------------------------------------------------
(* The archive. Only a newer version replaces an entry. What an older      *)
(* version provided stays, and a package joins the providers of its own    *)
(* name when that name is a virtual one too.                               *)
ProvidesWith(section) ==
  LET known == DOMAIN packages \cup {section.name}
      added[n \in 0..Len(section.provides)] ==
        IF n = 0 THEN provides
        ELSE LET d == added[n - 1]
                 v == section.provides[n]
                 had == Get(d, v, IF v \in known THEN <<v>> ELSE <<>>)
             IN Put(d, v, Append(had, section.name))
      result == added[Len(section.provides)]
  IN IF section.name \in DOMAIN result
     THEN Put(result, section.name, Append(result[section.name], section.name))
     ELSE result

Newer(index, section) ==
  section.name \in DOMAIN index => index[section.name].version < section.version

parsePackage(section) ==
  /\ section.kind \in {"deb", "udeb"}
  /\ IF Newer(packages, section)
     THEN /\ packages' = Put(packages, section.name, section)
          /\ pruned' = Put(pruned, section.name, {})
          /\ provides' = ProvidesWith(section)
     ELSE UNCHANGED <<packages, pruned, provides>>
  /\ UNCHANGED sources

parseSource(section) ==
  /\ section.kind = "source"
  /\ sources' = IF Newer(sources, section)
                THEN Put(sources, section.name, section) ELSE sources
  /\ UNCHANGED <<packages, pruned, provides>>

parseArchive ==
  /\ phase = "archive"
  /\ parsePackage(Head(sections)) \/ parseSource(Head(sections))
  /\ sections' = Tail(sections)
  /\ phase' = IF Len(sections) = 1 THEN "parse" ELSE "archive"
  /\ UNCHANGED <<world, structureVars, seeds, options, seedVars, addedVars,
                 dependVars, sourceVars, grown, stack>>

-----------------------------------------------------------------------------
(* Planting. A seed's text is read line by line into its options and the   *)
(* packages it names.                                                      *)
Filtered(line) == IF Known(line.values) = <<>> THEN <<line.name>> ELSE Known(line.values)

FromSource(line) ==
  IF line.name \in DOMAIN sources THEN Known(sources[line.name].binaries) ELSE <<>>

(* The loop over the packages a (pattern) matches assigns the variable the *)
(* pattern was in: only the last of them is looked at after it.            *)
Named(line) ==
  IF "%" \in line.marks THEN FromSource(line)
  ELSE IF "(" \in line.marks THEN <<Last(Filtered(line))>>
  ELSE Filtered(line)

Blacklist(s) == IF s \in DOMAIN options THEN options[s].blacklist ELSE {}

WrongKernel(pkg, kernels) ==      \* _isPruned
  kernels # {} /\ packages[pkg].kernel \notin kernels \cup {""}

Seeded(s) == ToSet(seed[s]) \cup ToSet(seedrecommends[s])
alreadySeeded(s, pkg) == \E t \in Inner(s) : pkg \in Seeded(t)

Running(op) == stack # <<>> /\ stack[1].op = op
call == Head(stack)
Return == stack' = Tail(stack)
Calling(calls) == stack' = calls \o Tail(stack)

_newSeed(s) ==
  /\ seeds' = Append(seeds, s)
  /\ seed' = Put(seed, s, <<>>)
  /\ seedrecommends' = Put(seedrecommends, s, <<>>)
  /\ options' = Put(options, s, [close |-> {}, kernels |-> {}, features |-> {},
                                 blacklist |-> {}, includes |-> <<>>, excludes |-> <<>>])
  /\ depends' = Put(depends, s, {})
  /\ build_depends' = Put(build_depends, s, {})
  /\ build' = Put(build, s, {})
  /\ not_build' = Put(not_build, s, {})
  /\ build_srcs' = Put(build_srcs, s, {})
  /\ not_build_srcs' = Put(not_build_srcs, s, {})
  /\ build_sourcepkgs' = Put(build_sourcepkgs, s, {})
  /\ why' = Put(why, s, <<>>)
  /\ UNCHANGED <<all, all_srcs>>

plantSeed ==
  /\ phase = "plant" /\ stack = <<>> /\ Len(seeds) < Len(names)
  /\ LET s == names[Len(seeds) + 1] IN
       IF Fetchable(s)
       THEN /\ _newSeed(s)
            /\ stack' = <<[op |-> "text", seed |-> s, lines |-> TextOf(s),
                           pkgs |-> <<>>, recs |-> {}]>>
            /\ UNCHANGED phase
       ELSE /\ phase' = "noSeed"        \* SeedError: exit 1
            /\ UNCHANGED <<seeds, options, seedVars, addedVars, dependVars, sourceVars,
                           stack>>
  /\ UNCHANGED <<world, structureVars, archiveVars, pruned, grown>>

OptionsWith(s, line) ==
  LET values == ToSet(line.values)
      rescue(f) == IF line.name \in ToSet(seeds) \cup {Extra}
                   THEN Put(f, line.name, Get(f, line.name, {}) \cup values) ELSE f
  IN CASE line.kind = "task-seeds" -> [options EXCEPT ![s].close = @ \cup values]
       [] line.kind = "kernel-version" -> [options EXCEPT ![s].kernels = @ \cup values]
       [] line.kind = "feature" -> [options EXCEPT ![s].features = @ \cup values]
       [] line.kind = "include" -> [options EXCEPT ![s].includes = rescue(@)]
       [] line.kind = "exclude" -> [options EXCEPT ![s].excludes = rescue(@)]
       [] line.kind = "entry" /\ "!" \in line.marks ->
            [options EXCEPT ![s].blacklist = @ \cup ToSet(Named(line))]
       [] OTHER -> options

readLine ==
  /\ Running("text") /\ call.lines # <<>>
  /\ LET line == call.lines[1]
         entry == line.kind = "entry"
     IN /\ options' = OptionsWith(call.seed, line)
        /\ Calling(<<[call EXCEPT
             !.lines = Tail(@),
             !.pkgs = IF entry /\ "!" \notin line.marks THEN @ \o Named(line) ELSE @,
             !.recs = IF entry /\ "(" \in line.marks THEN @ \cup ToSet(Filtered(line))
                      ELSE @]>>)
  /\ UNCHANGED <<world, phase, structureVars, archiveVars, pruned, seeds, seedVars,
                 addedVars, dependVars, sourceVars, grown>>

(* Whether a package is only recommended is asked of the name in the text. *)
Plant(s, new, named) ==
  IF named \in call.recs
  THEN seedrecommends' = [seedrecommends EXCEPT ![s] = @ \o new] /\ UNCHANGED seed
  ELSE seed' = [seed EXCEPT ![s] = @ \o new] /\ UNCHANGED seedrecommends

(* One package that the text names: not what a hint puts elsewhere, what   *)
(* is seeded already, or what is for another kernel. Of a virtual package  *)
(* every provider is planted, whatever its kernel.                         *)
plantPackage ==
  /\ Running("text") /\ call.lines = <<>> /\ call.pkgs # <<>>
  /\ LET s == call.seed
         pkg == call.pkgs[1]
         new == IF Hint(pkg) \notin {"", s} THEN <<>>
                ELSE IF pkg \in DOMAIN packages
                THEN IF WrongKernel(pkg, options[s].kernels) THEN <<>> ELSE <<pkg>>
                ELSE AppendNew(<<>>, Get(provides, pkg, <<>>))
     IN Plant(s, Keep(new, {p \in ToSet(new) : ~alreadySeeded(s, p)}), pkg)
  /\ Calling(<<[call EXCEPT !.pkgs = Tail(@)]>>)
  /\ UNCHANGED <<world, phase, structureVars, archiveVars, plantVars, addedVars,
                 dependVars, sourceVars, grown>>

plantHints ==
  /\ Running("text") /\ call.lines = <<>> /\ call.pkgs = <<>>
  /\ LET s == call.seed
         hinted == {p \in DOMAIN packages : Hint(p) = s /\ ~alreadySeeded(s, p)}
     IN IF hinted = {} THEN Return /\ UNCHANGED seedVars
        ELSE \E p \in hinted : Plant(s, <<p>>, p) /\ UNCHANGED stack
  /\ UNCHANGED <<world, phase, structureVars, archiveVars, plantVars, addedVars,
                 dependVars, sourceVars, grown>>

prune ==
  /\ phase = "plant" /\ stack = <<>> /\ Len(seeds) = Len(names)
  /\ pruned' = [p \in DOMAIN packages |->
                  {s \in ToSet(seeds) : WrongKernel(p, options[s].kernels)}]
  /\ phase' = "grow"
  /\ UNCHANGED <<world, structureVars, archiveVars, seeds, options, seedVars,
                 addedVars, dependVars, sourceVars, grown, stack>>

-----------------------------------------------------------------------------
(* The calls. Trees of no clauses are not worth a call.                    *)
PackageCall(s, pkg, second, tree, recs) ==
  [op |-> "package", seed |-> s, pkg |-> pkg, second |-> second, tree |-> tree,
   recs |-> recs]

(* A tree call looks at the alternatives of its first clause: next = 0 when *)
(* it is yet to ask if one is satisfied, then 1 .. n to promote them in     *)
(* turn, then n + 1 .. 2 * n to add them in turn.                           *)
TreeCall(s, pkg, clauses, bd, second, tree, recs) ==
  IF clauses = <<>> THEN <<>>
  ELSE <<[op |-> "tree", seed |-> s, pkg |-> pkg, clauses |-> clauses, bd |-> bd,
          second |-> second \/ tree \/ bd, tree |-> tree \/ bd, recs |-> recs,
          next |-> 0]>>

RescueCall(s, from, tree) ==
  [op |-> "rescue", seed |-> s, from |-> from, tree |-> tree, srcs |-> {}, pkgs |-> {}]

-----------------------------------------------------------------------------
(* _addPackage.                                                            *)
Admits(s, tree, pkg) ==      \* no seed it would end up in blacklists it
  \A o \in (IF tree THEN {supported} ELSE Outer(s)) : pkg \notin Blacklist(o)

Accepted(c) == c.seed \notin pruned[c.pkg] /\ Admits(c.seed, c.tree, c.pkg)

\* Mutant: the first reason stays.
firstWhy(list, c) ==
  IF c.pkg \in DOMAIN why[list] THEN why[list]
  ELSE Put(why[list], c.pkg, [tree |-> c.tree, recs |-> c.recs])

rememberWhy(list, c) ==
  LET old == Get(why[list], c.pkg, [tree |-> TRUE, recs |-> TRUE])
      keep == \/ ~old.tree /\ c.tree
              \/ old.tree = c.tree /\ (~old.recs \/ c.recs)
  IN IF c.pkg \in DOMAIN why[list] /\ keep THEN why[list]
     ELSE Put(why[list], c.pkg, [tree |-> c.tree, recs |-> c.recs])

AddIfNew(f, s, x) ==         \* unless an inner seed has it already
  IF \E t \in Inner(s) : x \in f[t] THEN f ELSE [f EXCEPT ![s] = @ \cup {x}]

\* Mutant: only the seed's own list of build dependencies is looked at.
BuildDependsHere(c) ==
  IF c.pkg \in all /\ ~c.tree THEN [build_depends EXCEPT ![c.seed] = @ \ {c.pkg}]
  ELSE build_depends

\* A package that was only a build dependency of inner seeds is no longer.
BuildDependsWithout(c) ==
  IF c.pkg \in all /\ ~c.tree
  THEN [s \in DOMAIN build_depends |->
          IF s \in Inner(c.seed) THEN build_depends[s] \ {c.pkg} ELSE build_depends[s]]
  ELSE build_depends

followRecommends(s) ==
  \/ "follow-recommends" \in options[s].features
  \/ /\ "no-follow-recommends" \notin options[s].features
     /\ "follow-recommends" \in structure.features

refusePackage ==
  /\ Running("package") /\ ~Accepted(call)
  /\ Return
  /\ UNCHANGED <<world, phase, structureVars, archiveVars, plantVars, seedVars,
                 addedVars, dependVars, sourceVars, grown>>

(* The package joins the lists. Then its dependencies, its recommendations *)
(* where they are followed, and its source are added.                      *)
addPackage ==
  /\ Running("package") /\ Accepted(call)
  /\ LET c == call
         p == packages[c.pkg]
     IN /\ all' = all \cup {c.pkg}
        /\ build_depends' = BuildDependsWithout(c)
        /\ build' = AddIfNew(build, c.seed, c.pkg)
        /\ not_build' = IF c.tree THEN not_build ELSE AddIfNew(not_build, c.seed, c.pkg)
        /\ why' = [why EXCEPT ![c.seed] = rememberWhy(c.seed, c),
                              !["all"] = rememberWhy("all", c)]
        /\ Calling(TreeCall(c.seed, c.pkg, p.depends, FALSE, c.second, c.tree, FALSE)
                   \o (IF followRecommends(c.seed) \/ p.metapackage
                       THEN TreeCall(c.seed, c.pkg, p.recommends, FALSE, c.second,
                                     c.tree, TRUE)
                       ELSE <<>>)
                   \o <<[c EXCEPT !.op = "source"]>>)
  /\ UNCHANGED <<world, phase, structureVars, archiveVars, plantVars, seedVars,
                 depends, sourceVars, grown>>

\* Mutant: the build dependencies of a source are looked at once.
SourceTreeOnce(c, src) ==
  IF src \in all_srcs THEN <<>>
  ELSE TreeCall(c.seed, c.pkg, sources[src].builddeps, TRUE, FALSE, FALSE, FALSE)

SourceTree(c, src) ==
  TreeCall(c.seed, c.pkg, sources[src].builddeps, TRUE, FALSE, FALSE, FALSE)

(* The rest of _addPackage: the package's source. A source that is needed  *)
(* at run time leaves every list of build sources.                         *)
addSource ==
  /\ Running("source")
  /\ LET c == call
         src == packages[c.pkg].source
         had == IF c.second \/ c.tree THEN build_srcs ELSE not_build_srcs
     IN IF src \notin DOMAIN sources \/ \E s \in Inner(c.seed) : src \in had[s]
        THEN Return /\ UNCHANGED sourceVars
        ELSE /\ all_srcs' = all_srcs \cup {src}
             /\ build_srcs' = [build_srcs EXCEPT ![c.seed] = @ \cup {src}]
             /\ IF c.tree
                THEN /\ build_sourcepkgs' =
                          [build_sourcepkgs EXCEPT ![c.seed] = @ \cup {src}]
                     /\ UNCHANGED not_build_srcs
                ELSE /\ build_sourcepkgs' = IF src \in all_srcs
                          THEN [s \in DOMAIN build_sourcepkgs |->
                                  build_sourcepkgs[s] \ {src}]
                          ELSE build_sourcepkgs
                     /\ not_build_srcs' = [not_build_srcs EXCEPT ![c.seed] = @ \cup {src}]
             /\ Calling(SourceTree(c, src))
  /\ UNCHANGED <<world, phase, structureVars, archiveVars, plantVars, seedVars,
                 addedVars, dependVars, grown>>

-----------------------------------------------------------------------------
(* _addDependencyTree.                                                     *)
Compare(version, rel, wanted) ==
  CASE rel = "" -> TRUE
    [] rel = "<=" -> version <= wanted
    [] rel = ">=" -> version >= wanted
    [] rel = "<" -> version < wanted
    [] rel = ">" -> version > wanted
    [] rel = "=" -> version = wanted
    [] rel = "!=" -> version # wanted
    [] OTHER -> FALSE          \* an unknown comparator

allowedDependency(c, p) ==
  /\ p \in DOMAIN packages /\ c.seed \notin pruned[p]
  /\ packages[p].kind = IF c.bd THEN "deb" ELSE packages[c.pkg].kind

checkVersionedDependency(dep) ==
  dep.name \in DOMAIN packages /\ Compare(packages[dep.name].version, dep.rel, dep.version)

AsReal(c, dep) == checkVersionedDependency(dep) /\ allowedDependency(c, dep.name)
AsVirtual(c, dep) ==
  (packages[c.pkg].kind = "udeb" \/ dep.rel = "") /\ dep.name \in DOMAIN provides
Providers(c, dep) ==
  Keep(provides[dep.name], {p \in ToSet(provides[dep.name]) : allowedDependency(c, p)})

(* What may satisfy a dependency: the question if it is satisfied looks at *)
(* the providers of a virtual package first, the others at a real package. *)
VirtualFirst(c, dep) == CASE AsVirtual(c, dep) -> Providers(c, dep)
                          [] ~AsVirtual(c, dep) /\ AsReal(c, dep) -> <<dep.name>>
                          [] OTHER -> <<>>
RealFirst(c, dep) == CASE AsReal(c, dep) -> <<dep.name>>
                       [] ~AsReal(c, dep) /\ AsVirtual(c, dep) -> Providers(c, dep)
                       [] OTHER -> <<>>

alreadySatisfied(c, dep) ==
  \E p \in ToSet(VirtualFirst(c, dep)) :
    \/ \E s \in Inner(c.seed) : p \in IF c.second THEN build[s] ELSE not_build[s]
    \/ p \in Seeded(c.seed)

NextClause(c) == IF Len(c.clauses) = 1 THEN <<>>
                 ELSE <<[c EXCEPT !.clauses = Tail(@), !.next = 0]>>
Alternatives(c) == Len(c.clauses[1])

NextAlternative(c) == IF c.next = 2 * Alternatives(c) THEN NextClause(c)
                      ELSE <<[c EXCEPT !.next = @ + 1]>>

checkSatisfied ==
  /\ Running("tree") /\ call.next = 0
  /\ Calling(IF \E i \in 1..Alternatives(call) : alreadySatisfied(call, call.clauses[1][i])
             THEN NextClause(call) ELSE NextAlternative(call))
  /\ UNCHANGED <<world, phase, structureVars, archiveVars, plantVars, seedVars,
                 addedVars, dependVars, sourceVars, grown>>

(* _addDependency: the packages no seed blacklists are listed and added.   *)
(* It hands build_tree and second_class over in the other's place.         *)
addDependency(c, pkgs) ==
  LET white == Keep(pkgs, {p \in ToSet(pkgs) : Admits(c.seed, c.tree, p)})
      add(f) == [f EXCEPT ![c.seed] = @ \cup ToSet(white)]
  IN IF white = <<>>
     THEN Calling(NextAlternative(c)) /\ UNCHANGED dependVars
     ELSE /\ IF c.tree
             THEN build_depends' = add(build_depends) /\ UNCHANGED depends
             ELSE depends' = add(depends) /\ UNCHANGED build_depends
          /\ Calling([i \in DOMAIN white |->
                        PackageCall(c.seed, white[i], c.tree, c.second, c.recs)]
                     \o NextClause(c))

(* _promoteDependency: a package that satisfies the dependency and is in a *)
(* lesser seed is taken from there; for all but the first alternative only *)
(* from seeds that generate the same task. Nothing is taken for a build    *)
(* dependency. A package that then turns out blacklisted stays removed.    *)
LesserSeeds(c) ==
  {l \in StrictlyOuter(c.seed) : c.next = 1 \/ c.seed \in options[l].close}

promoteDependency ==
  /\ Running("tree") /\ call.next \in 1..Alternatives(call)
  /\ LET c == call
         satisfying == RealFirst(c, c.clauses[1][c.next])
         found == ToSet(satisfying) \cap UNION {Seeded(l) : l \in LesserSeeds(c)}
     IN IF found = {}
        THEN Calling(NextAlternative(c)) /\ UNCHANGED <<seedVars, dependVars>>
        ELSE LET p == First(satisfying, found)
                 from == First(names, {l \in LesserSeeds(c) : p \in Seeded(l)})
             IN /\ IF c.second THEN UNCHANGED seedVars
                   ELSE /\ seed' = [seed EXCEPT ![from] = RemoveFirst(@, p)]
                        /\ seedrecommends' =
                             [seedrecommends EXCEPT ![from] = RemoveFirst(@, p)]
                /\ addDependency(c, <<p>>)
  /\ UNCHANGED <<world, phase, structureVars, archiveVars, plantVars, addedVars,
                 sourceVars, grown>>

(* _newDependency: a real package, or the first provider of a virtual one; *)
(* when that one is a kernel module, those for all kernels of the seed.    *)
Chosen(c, dep) ==
  LET found == RealFirst(c, dep)
      kernels == options[c.seed].kernels
  IN IF found = <<>> \/ AsReal(c, dep) THEN found
     ELSE IF packages[found[1]].kernel = "" THEN <<found[1]>>
     ELSE Keep(found, {p \in ToSet(found) : kernels = {} \/ packages[p].kernel \in kernels})

newDependency ==
  /\ Running("tree") /\ call.next > Alternatives(call)
  /\ \E pkgs \in {Chosen(call, call.clauses[1][call.next - Alternatives(call)])} :
       addDependency(call, pkgs)
  /\ UNCHANGED <<world, phase, structureVars, archiveVars, plantVars, seedVars,
                 addedVars, sourceVars, grown>>

-----------------------------------------------------------------------------
(* _rescueIncludes: binaries of the sources of another seed that match the *)
(* include patterns are added, unless they are already somewhere.          *)
Patterns(f, s, from) == IF s \in DOMAIN options THEN Get(options[s][f], from, {}) ELSE {}

startRescue ==
  /\ Running("rescue")
  /\ LET c == call
         from == IF c.from = Extra THEN Inner(c.seed) ELSE {c.from}
         srcs == UNION {IF c.tree THEN build_srcs[s] ELSE not_build_srcs[s] : s \in from}
     IN Calling(<<[c EXCEPT !.op = "rescuing", !.srcs = srcs]>>)
  /\ UNCHANGED <<world, phase, structureVars, archiveVars, plantVars, seedVars,
                 addedVars, dependVars, sourceVars, grown>>

rescueSource ==
  /\ Running("rescuing") /\ call.pkgs = {}
  /\ IF call.srcs = {} THEN Return
     ELSE \E src \in call.srcs :
            LET included == {p \in ToSet(Known(sources[src].binaries)) :
                   /\ p \in Patterns("includes", call.seed, call.from)
                   /\ p \notin Patterns("excludes", call.seed, call.from)}
            IN Calling(<<[call EXCEPT !.srcs = @ \ {src}, !.pkgs = included]>>)
  /\ UNCHANGED <<world, phase, structureVars, archiveVars, plantVars, seedVars,
                 addedVars, dependVars, sourceVars, grown>>

(* The package is listed before _addPackage gets to refuse it.             *)
rescuePackage ==
  /\ Running("rescuing")
  /\ \E p \in call.pkgs :
       LET rest == [call EXCEPT !.pkgs = @ \ {p}]
           s == call.seed
           lesser == {l \in StrictlyOuter(s) : Contains(seed[l], p)}
           add(f) == [f EXCEPT ![s] = @ \cup {p}]
       IN IF p \in all
          THEN Calling(<<rest>>) /\ UNCHANGED <<seed, dependVars>>
          ELSE /\ seed' = IF lesser = {} THEN seed
                          ELSE [seed EXCEPT ![First(names, lesser)] = RemoveFirst(@, p)]
               /\ IF call.tree
                  THEN build_depends' = add(build_depends) /\ UNCHANGED depends
                  ELSE depends' = add(depends) /\ UNCHANGED build_depends
               /\ Calling(<<PackageCall(s, p, FALSE, call.tree, FALSE), rest>>)
  /\ UNCHANGED <<world, phase, structureVars, archiveVars, plantVars,
                 seedrecommends, addedVars, sourceVars, grown>>

-----------------------------------------------------------------------------
(* grow: weeds a seed's lists, adds its packages, and rescues from the     *)
(* seeds grown so far and for "extra". A rescue without include patterns   *)
(* changes nothing and is left out.                                        *)
Weed(s, pkgs) == Keep(pkgs, {p \in ToSet(pkgs) : Admits(s, FALSE, p)})

growSeed ==
  /\ phase = "grow" /\ stack = <<>> /\ grown < Len(seeds)
  /\ grown' = grown + 1
  /\ LET s == seeds[grown + 1]
         froms == Keep(Append(SubSeq(seeds, 1, grown + 1), Extra),
                       {f \in ToSet(seeds) \cup {Extra} : Patterns("includes", s, f) # {}})
         lists == Weed(s, seed[s]) \o Weed(s, seedrecommends[s])
     IN /\ seed' = [seed EXCEPT ![s] = Weed(s, @)]
        /\ seedrecommends' = [seedrecommends EXCEPT ![s] = Weed(s, @)]
        /\ stack' = [i \in DOMAIN lists |-> PackageCall(s, lists[i], FALSE, FALSE, FALSE)]
                    \o [i \in DOMAIN froms |-> RescueCall(s, froms[i], FALSE)]
  /\ UNCHANGED <<world, phase, structureVars, archiveVars, plantVars, addedVars,
                 dependVars, sourceVars>>

rescueForBuild ==
  /\ phase = "grow" /\ stack = <<>> /\ grown = Len(seeds)
  /\ stack' = <<RescueCall(supported, Extra, TRUE)>>
  /\ phase' = "grown"
  /\ UNCHANGED <<world, structureVars, archiveVars, plantVars, seedVars, addedVars,
                 dependVars, sourceVars, grown>>

(* addExtras: every binary of a source in use that nothing needs goes to   *)
(* the "extra" seed, in passes over the sources until one finds none.      *)
PassCall(found) == [op |-> "pass", srcs |-> all_srcs, found |-> found]

(* addExtra appends the seed to names before it makes it inherit them all, *)
(* itself included.                                                        *)
InheritedByExtra == Append(names, Extra)

addExtras ==
  /\ phase = "grown" /\ stack = <<>>
  /\ phase' = "extras"
  /\ names' = Append(names, Extra)
  /\ inherit' = Put(inherit, Extra, InheritedByExtra)
  /\ _newSeed(Extra)
  /\ stack' = <<PassCall(FALSE)>>
  /\ UNCHANGED <<world, parseVars, sortVars, unexpanded, adding, archiveVars, pruned,
                 grown>>

extraPass ==
  /\ Running("pass")
  /\ IF call.srcs = {}
     THEN IF call.found THEN stack' = <<PassCall(FALSE)>> ELSE Return
     ELSE \E src \in call.srcs :
            Calling(<<[op |-> "binaries", src |-> src, left |-> sources[src].binaries],
                      [call EXCEPT !.srcs = @ \ {src}]>>)
  /\ UNCHANGED <<world, phase, structureVars, archiveVars, plantVars, seedVars,
                 addedVars, dependVars, sourceVars, grown>>

IsExtra(src, p) ==
  /\ p \in DOMAIN packages /\ packages[p].source = src
  /\ p \notin all /\ Hint(p) \in {"", Extra}

extraBinary ==
  /\ Running("binaries")
  /\ LET c == call
         pass == stack[2]
         p == c.left[1]
         rest == <<[c EXCEPT !.left = Tail(@)]>>
     IN IF c.left = <<>> THEN Return /\ UNCHANGED seed
        ELSE IF ~IsExtra(c.src, p) THEN Calling(rest) /\ UNCHANGED seed
        ELSE /\ seed' = [seed EXCEPT ![Extra] = Append(@, p)]
             /\ stack' = <<PackageCall(Extra, p, TRUE, FALSE, FALSE)>> \o rest
                         \o <<[pass EXCEPT !.found = TRUE]>>
  /\ UNCHANGED <<world, phase, structureVars, archiveVars, plantVars,
                 seedrecommends, addedVars, dependVars, sourceVars, grown>>

(* No source has a binary left to add: the seeds have grown.               *)
finish ==
  /\ phase = "extras" /\ stack = <<>>
  /\ phase' = "done"
  /\ UNCHANGED <<world, structureVars, archiveVars, plantVars, seedVars, addedVars,
                 dependVars, sourceVars, grown, stack>>

-----------------------------------------------------------------------------
Init ==
  /\ world \in Worlds
  /\ phase = IF world.sections = <<>> THEN "parse" ELSE "archive"
  /\ StructureInit
  /\ sections = world.sections
  /\ packages = <<>> /\ provides = <<>> /\ sources = <<>> /\ pruned = <<>>
  /\ seeds = <<>> /\ seed = <<>> /\ seedrecommends = <<>> /\ options = <<>>
  /\ depends = <<>> /\ build_depends = <<>>
  /\ all = {} /\ build = <<>> /\ not_build = <<>>
  /\ all_srcs = {} /\ build_srcs = <<>> /\ not_build_srcs = <<>>
  /\ build_sourcepkgs = <<>>
  /\ why = [list \in {"all"} |-> <<>>]
  /\ grown = 0 /\ stack = <<>>

sortStructure ==
  StructureNext /\ UNCHANGED <<archiveVars, plantVars, seedVars, addedVars,
                               dependVars, sourceVars, grown, stack>>

Next ==
  \/ parseArchive \/ sortStructure
  \/ plantSeed \/ readLine \/ plantPackage \/ plantHints \/ prune
  \/ growSeed \/ rescueForBuild
  \/ refusePackage \/ addPackage \/ addSource
  \/ checkSatisfied \/ promoteDependency \/ newDependency
  \/ startRescue \/ rescueSource \/ rescuePackage
  \/ addExtras \/ extraPass \/ extraBinary \/ finish

Spec == Init /\ [][Next]_vars /\ WF_vars(Next)

-----------------------------------------------------------------------------
(* Properties.                                                             *)
Listed(s) == Seeded(s) \cup depends[s]       \* what writeList puts in the list of s
InnerOf(f, s) == UNION {f[t] : t \in Inner(s)}

(* What could satisfy a dependency of a package in seed s, and would be    *)
(* accepted there: what _newDependency would choose.                       *)
Acceptable(c, dep) ==
  {p \in ToSet(Chosen(c, dep)) : Admits(c.seed, c.tree, p)}

SatisfiedIn(have, c, clauses) ==
  \A i \in DOMAIN clauses :
    LET alternatives == ToSet(clauses[i]) IN
    \/ \E dep \in alternatives : ToSet(VirtualFirst(c, dep)) \cap have # {}
    \/ \A dep \in alternatives : Acceptable(c, dep) = {}

(* "Expand seeds into dependency-closed lists of packages": when the lists *)
(* are written, every clause of every package in a seed is satisfied in    *)
(* that seed or one it inherits from, unless nothing acceptable could.     *)
DependencyClosed ==
  phase = "done" =>
    \A s \in ToSet(seeds) \ {Extra} : \A p \in not_build[s] :
      LET c == [seed |-> s, pkg |-> p, bd |-> FALSE, tree |-> FALSE] IN
      SatisfiedIn(InnerOf(not_build, s), c,
                  packages[p].depends \o (IF followRecommends(s) \/ packages[p].metapackage
                                          THEN packages[p].recommends ELSE <<>>))

(* The same of the build dependencies of the sources: each is satisfied by *)
(* a package among the lists and build-depends of the seed that needs the  *)
(* source, or of one it inherits from. What can satisfy them is asked for  *)
(* one binary of the source only, the one that brought it in: for a udeb a *)
(* versioned dependency on a virtual package counts, for a deb it does not.*)
BuildClosed ==
  phase = "done" =>
    \A s \in ToSet(seeds) : \A src \in build_srcs[s] : \E p \in InnerOf(build, s) :
      /\ packages[p].source = src
      /\ SatisfiedIn(InnerOf(build, s),
                     [seed |-> s, pkg |-> p, bd |-> TRUE, tree |-> TRUE],
                     sources[src].builddeps)

(* Both kinds of lists are closed, whatever was promoted, refused and      *)
(* rescued in between.                                                     *)
ListsClosed == DependencyClosed /\ BuildClosed

(* A package or a source is in the output of a seed only when no seed it   *)
(* inherits from has it (README: each in the list of the highest priority).*)
(* The last seed of the STRUCTURE file is the exception, if any inherits   *)
(* from it: what is rescued to build with comes to it when they have grown,*)
(* and brings what it depends on, whether they have that or not.           *)
InnermostOnly ==
  \A s \in ToSet(seeds) \ {Extra} : \A t \in ToSet(inherit[s]) :
    /\ not_build[s] \cap not_build[t] = {}
    /\ t # supported => build[s] \cap build[t] = {}
    /\ not_build_srcs[s] \cap not_build_srcs[t] = {}

(* "If a package needed in the desktop seed or dependency list is in the   *)
(* base build-dependency list it will be moved out of it" (README:59-61),  *)
(* and likewise for sources. With the same exception.                      *)
BuildDependsAreOnlyThat ==
  \A s \in ToSet(seeds) \ {Extra} : \A t \in Inner(s) : t = s \/ t # supported =>
    /\ not_build[s] \cap build_depends[t] = {}
    /\ not_build_srcs[s] \cap build_sourcepkgs[t] = {}

(* "A package won't be added to the extra dependency or build-dependency   *)
(* lists if they are already in any other" (README:108-110): nothing that  *)
(* any other seed has taken, for whatever reason, is taken for extra.      *)
ExtraIsLowest ==
  Extra \in ToSet(seeds) =>
    \A s \in ToSet(seeds) \ {Extra} :
      build[Extra] \cap (build[s] \cup DOMAIN why[s]) = {}

(* Each package is in the one list of highest priority that it belongs in. *)
InnermostList == InnermostOnly /\ BuildDependsAreOnlyThat /\ ExtraIsLowest

(* A reason from the dependency tree beats one from the build dependency   *)
(* tree: the list says of a package why it is in the seed, not what else   *)
(* builds with it (_rememberWhy), in whatever order the reasons came.      *)
ReasonFitsList ==
  \A s \in ToSet(seeds) :
    /\ \A p \in not_build[s] : p \in DOMAIN why[s] /\ ~why[s][p].tree
    /\ \A p \in DOMAIN why["all"] :
         why["all"][p].tree <=> \A t \in ToSet(seeds) : p \notin not_build[t]
=============================================================================
