---------------------------- MODULE SeedStructure ----------------------------
(***************************************************************************)
(* The structure of a collection of seeds (germinate/germinate/seeds.py)   *)
(* and the lazy topological sort it is put in order with (tsort.py).       *)
(*                                                                         *)
(* A collection has branches. A branch has a STRUCTURE file, a sequence of *)
(* lines that name a seed and the seeds it inherits from, include other    *)
(* branches or set features, and the text files of some seeds. The         *)
(* downloads are external; a branch that is included exists.               *)
(***************************************************************************)
EXTENDS Naturals, Sequences, FiniteSets, SequencesExt, Functions

CONSTANT Worlds     \* what a run may be given: the collections (and archives)

Text == Seq([kind : STRING, marks : SUBSET STRING, name : STRING, values : Seq(STRING)])

(* A branch that is included exists. "extra" is germinate's own seed, and  *)
(* "all" its own list; --seed-packages add seeds that are not there yet.   *)
ASSUME CollectionsAssumption ==
  \A w \in Worlds :
    /\ DOMAIN w.branches \subseteq STRING /\ w.top \in DOMAIN w.branches
    /\ \A b \in DOMAIN w.branches :
         /\ w.branches[b].structure \in Text
         /\ \A line \in ToSet(w.branches[b].structure) :
              /\ line.kind = "include" => ToSet(line.values) \subseteq DOMAIN w.branches
              /\ line.name \notin {"extra", "all"}
         /\ \A s \in DOMAIN w.branches[b].texts : w.branches[b].texts[s] \in Text
    /\ w.seed_packages \in Seq([parent : STRING, pkg : STRING])
    /\ \A i \in DOMAIN w.seed_packages :
         LET added == w.seed_packages[i].pkg IN
         /\ added \notin {"extra", "all"}
         /\ \A b \in DOMAIN w.branches : \A line \in ToSet(w.branches[b].structure) :
              line.kind = "seed" => line.name # added
         /\ \A j \in DOMAIN w.seed_packages : i # j => w.seed_packages[j].pkg # added

VARIABLES
  world,            \* the input of this run
  phase,            \* what the program is busy with
  parsing,          \* the calls of _parse in progress, the innermost first
  got_branches,     \* the branches that were fetched, for all of these calls
  structure,        \* what _parse returned, and the features it collected
  names,            \* structure.names, the seeds in topological order
  inherit,          \* structure.inherit: seed -> sequence of seeds
  graph,            \* TopoSorter._graph, the nodes not yet visited
  nodeStack,        \* TopoSorter._node_name_stack
  pendingParents,   \* TopoSorter._pending_parents_stack
  unexpanded,       \* the seeds _expandInheritance has yet to look at
  adding            \* the --seed-packages that are yet to be added

parseVars == <<parsing, got_branches, structure>>
sortVars  == <<graph, nodeStack, pendingParents>>
structureVars == <<parseVars, names, inherit, sortVars, unexpanded, adding>>

Branches == DOMAIN world.branches

-----------------------------------------------------------------------------
(* Python's lists and dictionaries.                                        *)
Put(f, x, value) ==
  [y \in DOMAIN f \cup {x} |-> IF y = x THEN value ELSE f[y]]

Update(f, g) ==
  [y \in DOMAIN f \cup DOMAIN g |-> IF y \in DOMAIN g THEN g[y] ELSE f[y]]

Keep(seq, set) ==        \* the elements of seq that are in the set, in order
  LET upTo[n \in 0..Len(seq)] ==
        IF n = 0 THEN <<>>
        ELSE IF seq[n] \in set THEN Append(upTo[n - 1], seq[n]) ELSE upTo[n - 1]
  IN upTo[Len(seq)]

First(seq, set) == seq[Min({i \in DOMAIN seq : seq[i] \in set})]

AppendNew(seq, more) ==  \* with the elements of more that seq does not have
  LET upTo[n \in 0..Len(more)] ==
        IF n = 0 THEN seq
        ELSE LET before == upTo[n - 1]
             IN IF Contains(before, more[n]) THEN before ELSE Append(before, more[n])
  IN upTo[Len(more)]

-----------------------------------------------------------------------------
(* SingleSeedStructure: the lines of one STRUCTURE file.                   *)
LinesOf(branch, kind) ==
  LET lines == world.branches[branch].structure IN
  Keep(lines, {line \in ToSet(lines) : line.kind = kind})

OwnNames(branch) ==
  LET lines == LinesOf(branch, "seed") IN [i \in DOMAIN lines |-> lines[i].name]

OwnInherit(branch) ==        \* a dictionary: the last line of a seed counts
  LET lines == LinesOf(branch, "seed") IN
  [name \in ToSet(OwnNames(branch)) |->
     lines[Max({i \in DOMAIN lines : lines[i].name = name})].values]

OwnBranches(branch) ==
  LET lines == LinesOf(branch, "include")
      upTo[n \in 0..Len(lines)] ==
        IF n = 0 THEN <<branch>> ELSE upTo[n - 1] \o lines[n].values
  IN upTo[Len(lines)]

OwnFeatures(branch) ==
  UNION {ToSet(line.values) : line \in ToSet(LinesOf(branch, "feature"))}

(* --seed-packages: seeds of one package each, that inherit from a parent.  *)
AddedText(pkg) == <<[kind |-> "entry", marks |-> {}, name |-> pkg, values |-> <<pkg>>]>>

(* The text of a seed is that of the first branch that has the file: fetch, *)
(* unless it was added.                                                    *)
BranchesWith(seed) ==
  Keep(structure.branches, {b \in Branches : seed \in DOMAIN world.branches[b].texts})
IsAdded(seed) == \E x \in ToSet(world.seed_packages) : x.pkg = seed
Fetchable(seed) == IsAdded(seed) \/ BranchesWith(seed) # <<>>
TextOf(seed) ==
  IF IsAdded(seed) THEN AddedText(seed)
  ELSE world.branches[BranchesWith(seed)[1]].texts[seed]

innerSeeds(seed) == Append(inherit[seed], seed)
Inner(seed) == ToSet(innerSeeds(seed))
StrictlyOuter(seed) == {s \in ToSet(names) : Contains(inherit[s], seed)}
Outer(seed) == {seed} \cup StrictlyOuter(seed)

-----------------------------------------------------------------------------
(* The sorter is lazy: it starts with the whole graph, nothing on its      *)
(* stacks, and nothing completed. What it has completed is in names.       *)
SorterInit ==
  /\ graph = DOMAIN inherit
  /\ nodeStack = <<>> /\ pendingParents = <<>> /\ names = <<>>

(* _parse: the included branches first, then the branch's own data. The    *)
(* set of fetched branches is shared by the whole recursion, and the list  *)
(* of branches is reversed at every level of it.                           *)
ParseCall(branch) ==
  [branch |-> branch, left |-> OwnBranches(branch), names |-> <<>>,
   inherit |-> <<>>, branches |-> <<>>]

StructureInit ==
  /\ parsing = <<ParseCall(world.top)>> /\ got_branches = {world.top}
  /\ structure = [names |-> <<>>, inherit |-> <<>>, branches |-> <<>>, features |-> {}]
  /\ inherit = <<>>
  /\ unexpanded = <<>> /\ adding = world.seed_packages
  /\ SorterInit

IncludeBranch ==
  /\ phase = "parse" /\ parsing[1].left # <<>>
  /\ LET child == Head(parsing[1].left)
         rest == <<[parsing[1] EXCEPT !.left = Tail(@)]>> \o Tail(parsing)
     IN IF child \in got_branches
        THEN parsing' = rest /\ UNCHANGED got_branches
        ELSE /\ parsing' = <<ParseCall(child)>> \o rest
             /\ got_branches' = got_branches \cup {child}
  /\ UNCHANGED <<phase, structure, names, inherit, sortVars>>

(* The branch's own data is attached to the end, and the call returns.     *)
Parsed(c) ==
  [names    |-> c.names \o OwnNames(c.branch),
   inherit  |-> Update(c.inherit, OwnInherit(c.branch)),
   branches |-> Reverse(AppendNew(c.branches, OwnBranches(c.branch))),
   features |-> structure.features \cup OwnFeatures(c.branch)]

With(c, child) ==
  [c EXCEPT !.names = @ \o child.names, !.inherit = Update(@, child.inherit),
            !.branches = AppendNew(@, child.branches)]

FinishBranch ==
  /\ phase = "parse" /\ parsing[1].left = <<>>
  /\ \E parsed \in {Parsed(parsing[1])} :
     IF Len(parsing) = 1
     THEN /\ structure' = parsed
          /\ parsing' = <<>> /\ phase' = "sort"
          /\ inherit' = parsed.inherit /\ graph' = DOMAIN parsed.inherit
     ELSE /\ structure' = [structure EXCEPT !.features = parsed.features]
          /\ parsing' = <<With(parsing[2], parsed)>> \o Tail(Tail(parsing))
          /\ UNCHANGED <<phase, inherit, graph>>
  /\ UNCHANGED <<got_branches, names, nodeStack, pendingParents>>

PushNode(node) ==
  /\ nodeStack' = Append(nodeStack, node)
  /\ graph' = graph \ {node}

(* self._graph.popitem() takes any node of the dictionary.                 *)
PopItem ==
  /\ phase = "sort" /\ nodeStack = <<>>
  /\ \E node \in graph :
       PushNode(node) /\ pendingParents' = <<inherit[node]>>
  /\ UNCHANGED <<phase, names, inherit>>

\* Mutant: the next parent is looked at, and not taken off.
StillPending == pendingParents

\* The next parent of the top node is taken off the pending ones.
Popped == Append(Front(pendingParents), Front(Last(pendingParents)))

\* Mutant: a parent that is on the stack is taken for completed.
VisitAnyParent ==
  /\ phase = "sort" /\ nodeStack # <<>> /\ Last(pendingParents) # <<>>
  /\ LET parent == Last(Last(pendingParents)) IN
     IF parent \in graph
     THEN PushNode(parent) /\ pendingParents' = Append(Popped, inherit[parent])
     ELSE pendingParents' = Popped /\ UNCHANGED <<graph, nodeStack>>
  /\ UNCHANGED <<phase, names, inherit>>

(* The last pending parent of the top node: skipped when it was completed  *)
(* or is no node, pushed when it was not visited, else it is on the stack: *)
(* GraphCycleError.                                                        *)
VisitParent ==
  /\ phase = "sort" /\ nodeStack # <<>> /\ Last(pendingParents) # <<>>
  /\ LET parent == Last(Last(pendingParents)) IN
        \/ /\ Contains(names, parent) \/ parent \notin DOMAIN inherit
           /\ pendingParents' = Popped
           /\ UNCHANGED <<phase, graph, nodeStack>>
        \/ /\ parent \in graph
           /\ PushNode(parent)
           /\ pendingParents' = Append(Popped, inherit[parent])
           /\ UNCHANGED phase
        \/ /\ parent \in DOMAIN inherit \ graph /\ ~Contains(names, parent)
           /\ phase' = "cycle"
           /\ pendingParents' = Popped
           /\ UNCHANGED <<graph, nodeStack>>
  /\ UNCHANGED <<names, inherit>>

PopNode ==
  /\ phase = "sort" /\ nodeStack # <<>> /\ Last(pendingParents) = <<>>
  /\ names' = Append(names, Last(nodeStack))
  /\ nodeStack' = Front(nodeStack)
  /\ pendingParents' = Front(pendingParents)
  /\ UNCHANGED <<phase, inherit, graph>>

StartExpanding ==
  /\ phase = "sort" /\ nodeStack = <<>> /\ graph = {}
  /\ phase' = "expand" /\ unexpanded' = names
  /\ UNCHANGED <<names, inherit, sortVars, adding>>

(* What the parents of a seed inherit, each followed by the parent.        *)
WithAncestors(name) ==
  LET parents == inherit[name]
      upTo[n \in 0..Len(parents)] ==
        IF n = 0 THEN <<>>
        ELSE AppendNew(AppendNew(upTo[n - 1], inherit[parents[n]]), <<parents[n]>>)
  IN upTo[Len(parents)]

(* _expandInheritance: names is in topological order, so one pass will do. *)
(* A parent that no STRUCTURE file defines is a KeyError.                  *)
ExpandInheritance ==
  /\ phase = "expand" /\ unexpanded # <<>>
  /\ LET name == Head(unexpanded) IN
     IF ToSet(inherit[name]) \subseteq DOMAIN inherit
     THEN /\ inherit' = [inherit EXCEPT ![name] = WithAncestors(name)]
          /\ unexpanded' = Tail(unexpanded)
          /\ UNCHANGED phase
     ELSE phase' = "unknownParent" /\ UNCHANGED <<inherit, unexpanded>>
  /\ UNCHANGED <<names, sortVars, adding>>

(* add, for each of --seed-packages: after the sort, at the end of names.  *)
(* A parent may be a seed that was added before.                           *)
addSeedPackage ==
  /\ phase = "expand" /\ unexpanded = <<>> /\ adding # <<>>
  /\ LET x == Head(adding) IN
     IF x.parent \in DOMAIN inherit
     THEN /\ names' = Append(names, x.pkg)
          /\ inherit' = Put(inherit, x.pkg, Append(inherit[x.parent], x.parent))
          /\ adding' = Tail(adding)
          /\ UNCHANGED phase
     ELSE phase' = "unknownParent" /\ UNCHANGED <<names, inherit, adding>>
  /\ UNCHANGED <<sortVars, unexpanded>>

(* plantSeeds looks for the last of the names first: of none, IndexError.  *)
StartPlanting ==
  /\ phase = "expand" /\ unexpanded = <<>> /\ adding = <<>>
  /\ phase' = IF structure.names = <<>> THEN "noSeed" ELSE "plant"
  /\ UNCHANGED <<names, inherit, sortVars, unexpanded, adding>>

StructureNext ==
  /\ \/ (IncludeBranch \/ FinishBranch) /\ UNCHANGED <<unexpanded, adding>>
     \/ /\ \/ (PopItem \/ VisitParent \/ PopNode) /\ UNCHANGED <<unexpanded, adding>>
           \/ StartExpanding \/ ExpandInheritance \/ addSeedPackage \/ StartPlanting
        /\ UNCHANGED parseVars
  /\ UNCHANGED world

-----------------------------------------------------------------------------
(* What is reached from the elements of a set by following next.           *)
Reached(start, next) ==
  LET more[n \in 0 .. Cardinality(DOMAIN next)] ==
        IF n = 0 THEN start
        ELSE LET near == more[n - 1] IN near \cup UNION {next[x] : x \in near}
  IN more[Cardinality(DOMAIN next)]

(* The ancestors of a seed in the STRUCTURE files, or of an added one, by  *)
(* definition: what is reached by following parents.                       *)
AddedSeeds == {x.pkg : x \in ToSet(world.seed_packages)}
GivenSeeds == DOMAIN structure.inherit \cup AddedSeeds
GivenParents ==
  [s \in GivenSeeds |->
     GivenSeeds \cap (IF IsAdded(s)
                      THEN {x.parent : x \in {y \in ToSet(world.seed_packages) : y.pkg = s}}
                      ELSE ToSet(structure.inherit[s]))]
Ancestors(seed) == Reached(GivenParents[seed], GivenParents)

(* The sort ends with every seed after all it inherits from, whatever the  *)
(* order popitem takes the nodes in, and then each seed inherits exactly   *)
(* its ancestors, each once (topo_sort, _expandInheritance, add).          *)
SortedAndClosed ==
  phase \in {"plant", "done"} =>
    \A i \in DOMAIN names : names[i] # "extra" =>
      /\ ToSet(inherit[names[i]]) = Ancestors(names[i])
      /\ Len(inherit[names[i]]) = Cardinality(Ancestors(names[i]))
      /\ ToSet(inherit[names[i]]) \subseteq {names[j] : j \in 1..(i - 1)}

(* GraphCycleError is raised only for a seed that is its own ancestor, and *)
(* no collection that has one gets as far as planting. (The sort does not  *)
(* know the seeds that are added after it: a seed with one of them for a   *)
(* parent is refused later, as one with an unknown parent.)                *)
CycleIsReported ==
  /\ phase = "cycle" => \E s \in DOMAIN structure.inherit : s \in Ancestors(s)
  /\ phase = "plant" => \A s \in DOMAIN structure.inherit : s \notin Ancestors(s)

(* "Seed names will be resolved in included branches if they cannot be     *)
(* found in the current branch" (seeds.py:175), and "later branches can    *)
(* override seeds from earlier branches" (280): unless an included branch  *)
(* includes others itself, both the text of a seed and its inheritance     *)
(* come from the last branch that has them, though parse puts together the *)
(* one in reverse and the other by overwriting. (A branch that is included *)
(* twice counts where it was first, and the top one always last.)          *)
Ascending == Append(Tail(AppendNew(<<>>, OwnBranches(world.top))), world.top)
Nested == \E b \in ToSet(Ascending) \ {world.top} : Len(OwnBranches(b)) > 1
Latest(branches) == Ascending[Max({i \in DOMAIN Ascending : Ascending[i] \in branches})]

LaterBranchesOverride ==
  phase = "plant" /\ ~Nested =>
    \A s \in ToSet(names) :
      LET texts == {b \in ToSet(Ascending) : s \in DOMAIN world.branches[b].texts}
          lines == {b \in ToSet(Ascending) : s \in DOMAIN OwnInherit(b)}
      IN /\ texts # {} => BranchesWith(s)[1] = Latest(texts)
         /\ lines # {} => structure.inherit[s] = OwnInherit(Latest(lines))[s]

(* The structure that germinate works with is the one that the STRUCTURE   *)
(* files of all branches describe.                                         *)
StructureInOrder == SortedAndClosed /\ CycleIsReported /\ LaterBranchesOverride
=============================================================================
