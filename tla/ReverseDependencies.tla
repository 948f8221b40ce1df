-------------------------- MODULE ReverseDependencies --------------------------
(***************************************************************************)
(* Germinate's output (germinator.py, bin/germinate): once the seeds have  *)
(* grown, reverseDepends notes at each package in use who depends on it.   *)
(* writeList then writes the lists, with the reason why each package is    *)
(* there, and writeRdependList one file under rdepends/ for each package:  *)
(* who depends on it, who depends on those, and so on, until it finds      *)
(* itself above ("loop") or in the file already ("skipped").               *)
(*                                                                         *)
(* The files do not depend on one another: one, of any package, is         *)
(* written here. Entries come in sorted order, which is any order here;    *)
(* Pre-Depends and Depends are one field. What builds with a package has a *)
(* line and no entry; those lines are left out.                            *)
(***************************************************************************)
EXTENDS Germinator

VARIABLES
  reverse,      \* Reverse-Depends: package -> field -> who
  report,       \* the package whose file is written
  reading,      \* calls of _writeRdependList in progress, the last one first
  done,         \* packages whose entries have been begun
  file          \* lines of the file: above whom, about whom, and what is said

rdependVars == <<reverse, report, reading, done, file>>
rdependsAllVars == <<vars, rdependVars>>

-----------------------------------------------------------------------------
(* reverseDepends.                                                         *)
NamedIn(clauses, p) ==
  \E i \in DOMAIN clauses : \E dep \in ToSet(clauses[i]) : dep.name = p

\* _followRecommends without a seed: what single seeds say does not count.
RecommendsCount(q) == "follow-recommends" \in structure.features \/ packages[q].metapackage

(* A real package, of the same kind or, for building, no udeb.             *)
ReverseOf(p) ==
  LET likewise == {q \in all : packages[q].kind = packages[p].kind} IN
  [Depends |-> {q \in likewise : NamedIn(packages[q].depends, p)},
   Recommends |-> {q \in likewise : RecommendsCount(q) /\ NamedIn(packages[q].recommends, p)},
   BuildDepends |-> {src \in all_srcs : /\ packages[p].kind = "deb"
                                        /\ NamedIn(sources[src].builddeps, p)}]

reverseDepends ==
  /\ phase = "done"
  /\ phase' = "rdepends"
  /\ reverse' = [p \in all |-> ReverseOf(p)]
  /\ UNCHANGED <<world, structureVars, archiveVars, plantVars, seedVars, addedVars,
                 dependVars, sourceVars, grown, stack, report, reading, done, file>>

-----------------------------------------------------------------------------
(* writeList looks up the reason of every package it lists. One that was   *)
(* listed and then refused (_addPackage) has none: that is a KeyError, and *)
(* nothing under rdepends/ is written. What has a reason in the list of a  *)
(* seed has one in "all", so the lists that main writes of all the seeds   *)
(* add nothing to this.                                                    *)
WrittenIn(s) == Listed(s) \cup build_depends[s]

Reasonless(s) == WrittenIn(s) \ DOMAIN why[s]

writeLists ==
  /\ phase = "rdepends"
  /\ phase' = IF \A s \in ToSet(names) : Reasonless(s) = {} THEN "written" ELSE "noReason"
  /\ UNCHANGED <<world, structureVars, archiveVars, plantVars, seedVars, addedVars,
                 dependVars, sourceVars, grown, stack, rdependVars>>

-----------------------------------------------------------------------------
(* writeRdependList.                                                       *)
Above(p) == reverse[p].Depends \cup reverse[p].Recommends

Entry(p, path) == [pkg |-> p, left |-> Above(p), path |-> path \cup {p}]

writeRdependList ==
  /\ phase = "written" /\ done = {}
  /\ \E p \in all :
       /\ report' = p
       /\ reading' = <<Entry(p, {})>>
       /\ done' = {p}
  /\ UNCHANGED <<vars, reverse, file>>

\* Mutant: one who is in the file already is a loop.
SaysDone(p, path) == IF p \in done THEN "loop" ELSE "entry"

Says(p, path) ==
  IF p \in path THEN "loop" ELSE IF p \in done THEN "skipped" ELSE "entry"

(* One reverse dependency: its line, and its own entry below it.           *)
_writeRdependList ==
  /\ reading # <<>>
  /\ LET c == Head(reading) IN
       IF c.left = {} THEN reading' = Tail(reading) /\ UNCHANGED <<done, file>>
       ELSE \E p \in c.left :
              LET says == Says(p, c.path)
                  rest == <<[c EXCEPT !.left = @ \ {p}]>> \o Tail(reading)
              IN /\ file' = file \cup {<<p, c.pkg, says>>}
                 /\ IF says = "entry"
                    THEN reading' = <<Entry(p, c.path)>> \o rest /\ done' = done \cup {p}
                    ELSE reading' = rest /\ UNCHANGED done
  /\ UNCHANGED <<vars, reverse, report>>

-----------------------------------------------------------------------------
RdependsInit ==
  /\ Init
  /\ reverse = <<>> /\ report = "" /\ reading = <<>> /\ done = {} /\ file = {}

RdependsNext ==
  \/ Next /\ UNCHANGED rdependVars
  \/ reverseDepends \/ writeLists \/ writeRdependList \/ _writeRdependList

RdependsSpec ==
  RdependsInit /\ [][RdependsNext]_rdependsAllVars /\ WF_rdependsAllVars(RdependsNext)

-----------------------------------------------------------------------------
Written == done # {} /\ reading = <<>>

(* All who depend on the packages, directly or through others.             *)
Closure(p) == Reached({p}, [q \in all |-> Above(q)])

(* The file of a package has an entry for everyone who depends on it,      *)
(* through whatever others, and says "loop" exactly when somebody among    *)
(* them depends on itself that way, in whatever order it was written.      *)
FileIsComplete ==
  Written =>
    /\ done = Closure(report)
    /\ \A p \in done \ {report} : \E q \in done : <<p, q, "entry">> \in file
    /\ (\E p, q \in done : <<p, q, "loop">> \in file)
       <=> \E p \in done : \E q \in Above(p) : p \in Closure(q)

(* Nobody is in a dependency list for a reason that rdepends/ cannot show, *)
(* but for what it does not follow: virtual packages, the Recommends of    *)
(* single seeds, and rescued packages.                                     *)
CauseIsShown ==
  phase = "rdepends" /\ done = {} =>
    \A s \in ToSet(seeds) \ {Extra} : \A p \in depends[s] \cup build_depends[s] :
      \/ p \in DOMAIN reverse /\ UNION {reverse[p][f] : f \in DOMAIN reverse[p]} # {}
      \/ p \in UNION {ToSet(provides[v]) : v \in DOMAIN provides}
      \/ \E q \in all : NamedIn(packages[q].recommends, p)
      \/ \E t \in ToSet(seeds), from \in ToSet(seeds) : p \in Patterns("includes", t, from)

(* What rdepends/ tells of a package is everything it is there for.        *)
RdependsTell == FileIsComplete /\ CauseIsShown

(* A package was listed and then refused: it is for another kernel than    *)
(* its seed, or blacklisted in a seed on top of it or in the last one.     *)
Unwanted(s, p) ==
  s \in pruned[p] \/ \E o \in Outer(s) \cup {supported} : p \in Blacklist(o)

(* Whatever the dependencies among the packages, cycles included, seeds    *)
(* end growing, and the file ends too, unless writeList finds no reason    *)
(* for a package: it has one for each but those that were refused.         *)
Terminates ==
  <>(\/ phase \in {"cycle", "unknownParent", "noSeed"}
     \/ phase = "noReason" /\ \A s \in ToSet(seeds) : \A p \in Reasonless(s) : Unwanted(s, p)
     \/ Written
     \/ phase = "written" /\ all = {})
=============================================================================
