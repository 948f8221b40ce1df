-------------------------- MODULE GerminatorProofs --------------------------
(***************************************************************************)
(* Theorems about germinate's lists and the files under rdepends/, for     *)
(* every collection of seeds and every archive: each package is in the     *)
(* list of the innermost seed that needs it, for the right reason, the     *)
(* lists are closed under dependencies, and the files tell it all.         *)
(*                                                                         *)
(* The recursion is a stack of calls: what holds of the lists once they    *)
(* are written holds until then up to the calls that are still to come.    *)
(***************************************************************************)
EXTENDS SeedStructureProofs

-----------------------------------------------------------------------------
(* The calls that take the place of the innermost one.                     *)
LEMMA Replaced ==
  ASSUME NEW T, NEW s \in Seq(T), s # <<>>, NEW calls \in Seq(T), NEW r, r = calls \o Tail(s)
  PROVE  /\ r \in Seq(T) /\ Len(r) = Len(calls) + Len(s) - 1
         /\ Len(s) \in Nat \ {0} /\ Len(calls) \in Nat /\ Len(r) \in Nat
         /\ \A i \in 1..Len(calls) : i \in 1..Len(r) /\ r[i] = calls[i]
         /\ \A i \in Len(calls) + 1 .. Len(r) :
              i - Len(calls) + 1 \in 2..Len(s) /\ r[i] = s[i - Len(calls) + 1]
         /\ \A i \in 2..Len(s) :
              i + Len(calls) - 1 \in Len(calls) + 1 .. Len(r) /\ r[i + Len(calls) - 1] = s[i]
<1>1. Tail(s) \in Seq(T) /\ Len(Tail(s)) = Len(s) - 1 /\ Len(s) \in Nat \ {0}
      /\ \A i \in 1 .. Len(s) - 1 : Tail(s)[i] = s[i + 1]
  BY InnermostCall
<1>2. PICK t \in Seq(T) : t = Tail(s)
  BY <1>1
<1>3. /\ calls \o t \in Seq(T) /\ Len(calls \o t) = Len(calls) + Len(t)
      /\ \A i \in 1 .. Len(calls) + Len(t) :
           (calls \o t)[i] = IF i <= Len(calls) THEN calls[i] ELSE t[i - Len(calls)]
  BY ConcatProperties
<1>4. Len(calls) \in Nat /\ Len(t) = Len(s) - 1
  BY <1>1, <1>2
<1>5. /\ r \in Seq(T) /\ Len(r) = Len(calls) + Len(s) - 1
      /\ \A i \in 1 .. Len(r) : r[i] = IF i <= Len(calls) THEN calls[i] ELSE t[i - Len(calls)]
  BY <1>2, <1>3, <1>4
<1>6. \A i \in 1 .. Len(s) - 1 : t[i] = s[i + 1]
  BY <1>1, <1>2
<1>7. Len(r) \in Nat
  BY <1>1, <1>4, <1>5
<1>8. \A i \in 1..Len(calls) : i \in 1..Len(r) /\ r[i] = calls[i]
  BY <1>1, <1>4, <1>5
<1>9. \A i \in Len(calls) + 1 .. Len(r) :
        i - Len(calls) + 1 \in 2..Len(s) /\ r[i] = s[i - Len(calls) + 1]
  BY <1>1, <1>4, <1>5, <1>6
<1>10. \A i \in 2..Len(s) :
        i + Len(calls) - 1 \in Len(calls) + 1 .. Len(r) /\ r[i + Len(calls) - 1] = s[i]
  BY <1>1, <1>4, <1>5, <1>6
<1>. QED
  BY <1>1, <1>4, <1>5, <1>7, <1>8, <1>9, <1>10

LEMMA Single ==
  ASSUME NEW T, NEW x \in T
  PROVE  <<x>> \in Seq(T) /\ Len(<<x>>) = 1 /\ <<x>>[1] = x /\ <<x>> # <<>> /\ ToSet(<<x>>) = {x}
  BY ToSetProperties

(* list.remove.                                                            *)
LEMMA RemoveFirstTyped ==
  ASSUME NEW T, NEW s \in Seq(T), NEW e
  PROVE  RemoveFirst(s, e) \in Seq(T) /\ ToSet(RemoveFirst(s, e)) \subseteq ToSet(s)
<1>1. CASE \E i \in 1..Len(s) : s[i] = e
  <2>. DEFINE k == Min({i \in 1..Len(s) : s[i] = e})
  <2>1. RemoveFirst(s, e) = SubSeq(s, 1, k - 1) \o SubSeq(s, k + 1, Len(s))
    BY <1>1 DEF RemoveFirst, RemoveAt, SelectInSeq
  <2>2. k \in 1..Len(s) /\ Len(s) \in Nat
    <3>. DEFINE S == {i \in 1..Len(s) : s[i] = e}
    <3>1. S \in SUBSET Nat /\ S # {} /\ S \subseteq 1..Len(s)
      BY <1>1
    <3>. HIDE DEF S
    <3>2. Min(S) \in S
      BY <3>1, LeastPosition
    <3>. QED
      BY <3>1, <3>2 DEF S
  <2>. HIDE DEF k
  <2>3. PICK a \in Seq(T) : a = SubSeq(s, 1, k - 1) /\ ToSet(a) \subseteq ToSet(s)
    <3>. DEFINE m == k - 1
    <3>1. m \in 0..Len(s)
      BY <2>2
    <3>. HIDE DEF m
    <3>2. SubSeq(s, 1, m) \in Seq(T) /\ Len(SubSeq(s, 1, m)) = m
          /\ \A i \in 1..m : SubSeq(s, 1, m)[i] = s[i]
      BY <3>1, SubSeqProperties
    <3>3. PICK a \in Seq(T) : a = SubSeq(s, 1, m)
      BY <3>2
    <3>4. ToSet(a) \subseteq ToSet(s)
      BY <3>1, <3>2, <3>3 DEF ToSet
    <3>. QED
      BY <3>3, <3>4 DEF m
  <2>4. PICK b \in Seq(T) : b = SubSeq(s, k + 1, Len(s)) /\ ToSet(b) \subseteq ToSet(s)
    <3>. DEFINE m == k + 1
                L == Len(s)
    <3>1. m \in 1 .. L + 1 /\ L \in Nat /\ L = Len(s)
      BY <2>2
    <3>. HIDE DEF m, L
    <3>2. SubSeq(s, m, L) \in Seq(T) /\ Len(SubSeq(s, m, L)) = L - m + 1
          /\ \A i \in 1 .. L - m + 1 : SubSeq(s, m, L)[i] = s[m + i - 1]
      BY <3>1, SubSeqProperties
    <3>3. PICK b \in Seq(T) : b = SubSeq(s, m, L)
      BY <3>2
    <3>4. ToSet(b) \subseteq ToSet(s)
      BY <3>1, <3>2, <3>3 DEF ToSet
    <3>. QED
      BY <3>3, <3>4 DEF m, L
  <2>5. a \o b \in Seq(T) /\ ToSet(a \o b) = ToSet(a) \cup ToSet(b)
    BY ToSetConcat, ConcatProperties
  <2>. QED
    BY <2>1, <2>3, <2>4, <2>5
<1>2. CASE ~\E i \in 1..Len(s) : s[i] = e
  BY <1>2 DEF RemoveFirst
<1>. QED
  BY <1>1, <1>2

-----------------------------------------------------------------------------
(* The archive: every section is one of a package or one of a source, and  *)
(* the providers of a name are packages, the one of that name among them.  *)
LEMMA Sections ==
  /\ \A x \in BinarySection :
       /\ x.kind \in {"deb", "udeb"} /\ x.name \in STRING /\ x.version \in Nat
       /\ x.depends \in Clauses /\ x.recommends \in Clauses /\ x.provides \in Seq(STRING)
       /\ x.source \in STRING /\ x.metapackage \in BOOLEAN
  /\ \A x \in SourceSection :
       /\ x.kind = "source" /\ x.name \in STRING /\ x.version \in Nat
       /\ x.builddeps \in Clauses /\ x.binaries \in Seq(STRING)
<1>. DEFINE C == Clauses
<1>1. ASSUME NEW x \in BinarySection
      PROVE  /\ x.kind \in {"deb", "udeb"} /\ x.name \in STRING /\ x.version \in Nat
             /\ x.depends \in C /\ x.recommends \in C /\ x.provides \in Seq(STRING)
             /\ x.source \in STRING /\ x.metapackage \in BOOLEAN
  <2>1. x \in [kind : {"deb", "udeb"}, name : STRING, version : Nat, depends : C,
               recommends : C, provides : Seq(STRING), source : STRING,
               metapackage : BOOLEAN, kernel : STRING]
    BY <1>1 DEF BinarySection
  <2>. HIDE DEF C
  <2>. QED
    BY <2>1
<1>2. ASSUME NEW x \in SourceSection
      PROVE  /\ x.kind = "source" /\ x.name \in STRING /\ x.version \in Nat
             /\ x.builddeps \in C /\ x.binaries \in Seq(STRING)
  <2>1. x \in [kind : {"source"}, name : STRING, version : Nat, builddeps : C,
               binaries : Seq(STRING)]
    BY <1>2 DEF SourceSection
  <2>. HIDE DEF C
  <2>. QED
    BY <2>1
<1>. QED
  BY <1>1, <1>2

ProvidersOf(K, N) ==
  {d \in UNION {[D -> Seq(K)] : D \in SUBSET STRING} :
     \A v \in DOMAIN d \cap N : v \in ToSet(d[v])}

LEMMA ProvidersMore ==
  ASSUME NEW K, NEW N, N \subseteq K, NEW d \in ProvidersOf(K, N), NEW v \in STRING,
         NEW had \in Seq(K), NEW p \in K,
         v \in N => v \in ToSet(Append(had, p))
  PROVE  Put(d, v, Append(had, p)) \in ProvidersOf(K, N)
<1>. DEFINE e == Put(d, v, Append(had, p))
            D == DOMAIN d \cup {v}
<1>1. DOMAIN d \in SUBSET STRING /\ \A y \in DOMAIN d : d[y] \in Seq(K)
  BY DEF ProvidersOf
<1>2. /\ e = [y \in D |-> IF y = v THEN Append(had, p) ELSE d[y]]
      /\ D \in SUBSET STRING /\ Append(had, p) \in Seq(K)
  BY <1>1, AppendParts DEF Put
<1>3. e \in [D -> Seq(K)]
  BY <1>1, <1>2
<1>4. \A y \in DOMAIN e \cap N : y \in ToSet(e[y])
  BY <1>2 DEF ProvidersOf
<1>. HIDE DEF e, D
<1>5. e \in UNION {[F -> Seq(K)] : F \in SUBSET STRING}
  BY <1>2, <1>3
<1>. QED
  BY <1>4, <1>5 DEF ProvidersOf, e

Providing(d, v, p, K) == Put(d, v, Append(Get(d, v, IF v \in K THEN <<v>> ELSE <<>>), p))

LEMMA ProvidersNext ==
  ASSUME NEW K, NEW N, N \subseteq K, NEW d \in ProvidersOf(K, N), NEW v \in STRING, NEW p \in K
  PROVE  Providing(d, v, p, K) \in ProvidersOf(K, N)
<1>. DEFINE had == Get(d, v, IF v \in K THEN <<v>> ELSE <<>>)
<1>1. had \in Seq(K) /\ (v \in N => v \in ToSet(had))
  <2>1. CASE v \in DOMAIN d
    BY <2>1 DEF Get, ProvidersOf
  <2>2. CASE v \notin DOMAIN d /\ v \in K
    <3>1. had = <<v>>
      BY <2>2 DEF Get
    <3>2. <<v>> \in Seq(K) /\ ToSet(<<v>>) = {v}
      BY <2>2, Single
    <3>. QED
      BY <3>1, <3>2
  <2>3. CASE v \notin DOMAIN d /\ v \notin K
    BY <2>3, EmptySeq DEF Get
  <2>. QED
    BY <2>1, <2>2, <2>3
<1>. HIDE DEF had
<1>2. ToSet(Append(had, p)) = ToSet(had) \cup {p}
  BY <1>1, AppendParts
<1>. QED
  BY <1>1, <1>2, ProvidersMore DEF had, Providing

LEMMA ProvidesTyped ==
  ASSUME NEW N, NEW K, N = DOMAIN packages, provides \in ProvidersOf(N, N),
         NEW section \in BinarySection, K = N \cup {section.name}
  PROVE  ProvidesWith(section) \in ProvidersOf(K, K)
<1>. DEFINE p == section.name
     more == section.provides
     L == Len(more)
     V == ProvidersOf(K, N)
     Next1(d, v) == Providing(d, v, p, K)
     Is(g) == g = [n \in 0..L |-> IF n = 0 THEN provides ELSE Next1(g[n - 1], more[n])]
     step == [x \in V \X (1..L) |-> Next1(x[1], more[x[2]])]
<1>1. p \in K /\ N \subseteq K /\ L \in Nat /\ \A i \in 1..L : more[i] \in STRING
  BY Sections
<1>2. ASSUME NEW d \in V, NEW v \in STRING PROVE Next1(d, v) \in V
  BY <1>1, ProvidersNext
<1>3. provides \in V
  BY <1>1, SeqOfMore DEF ProvidersOf
<1>. HIDE DEF V, Next1, more
<1>5. StepsIn(step, L, V)
  BY <1>1, <1>2 DEF StepsIn
<1>6. PICK g : Recursive(g, step, provides, L, V)
  <2>. HIDE DEF step, L
  <2>. QED
    BY <1>1, <1>3, <1>5, Recursion
<1>. HIDE DEF L
<1>7. ASSUME NEW n \in 0..L, n # 0 PROVE g[n] = Next1(g[n - 1], more[n])
  <2>1. n - 1 \in 0..L /\ n \in 1..L
    BY <1>1, <1>7
  <2>2. <<g[n - 1], n>> \in V \X (1..L) /\ g[n] = step[<<g[n - 1], n>>]
    BY <1>6, <2>1 DEF Recursive
  <2>. QED
    BY <2>2
<1>8. Is(g)
  <2>. HIDE DEF step
  <2>. QED
    BY <1>6, <1>7 DEF Recursive
<1>. DEFINE h == CHOOSE f : Is(f)
<1>9. Is(h)
  <2>. HIDE DEF Is
  <2>. QED
    BY <1>8
<1>10. ProvidesWith(section) =
         IF p \in DOMAIN h[L] THEN Put(h[L], p, Append(h[L][p], p)) ELSE h[L]
  BY DEF ProvidesWith, Next1, Providing, more, L
<1>. HIDE DEF h
<1>11. \A n \in 0..L : h[n] = IF n = 0 THEN provides ELSE Next1(h[n - 1], more[n])
  BY <1>9, Zenon
<1>12. \A n \in 0..L : h[n] \in V
  <2>. DEFINE good == {n \in 0..L : h[n] \in V}
  <2>1. 0 \in good
    <3>1. 0 \in 0..L
      BY <1>1
    <3>2. h[0] = provides
      BY <1>11, <3>1, Zenon
    <3>. QED
      BY <1>3, <3>1, <3>2
  <2>2. ASSUME NEW n \in Nat, n < L, n \in good PROVE n + 1 \in good
    <3>1. n + 1 \in 0..L /\ n + 1 \in 1..L /\ (n + 1) - 1 = n /\ n + 1 # 0 /\ h[n] \in V
      BY <1>1, <2>2
    <3>2. h[n + 1] = Next1(h[n], more[n + 1])
      BY <1>11, <3>1
    <3>3. h[n + 1] \in V
      BY <1>1, <1>2, <3>1, <3>2
    <3>. QED
      BY <3>1, <3>3
  <2>3. \A n \in 0..L : n \in good
    <3>. HIDE DEF good
    <3>. QED
      BY <1>1, <2>1, <2>2, InductUpTo
  <2>. QED
    BY <2>3
<1>13. PICK d \in V : d = h[L] /\ ProvidesWith(section)
                                   = IF p \in DOMAIN d THEN Put(d, p, Append(d[p], p)) ELSE d
  BY <1>1, <1>10, <1>12
<1>14. CASE p \in DOMAIN d
  <2>1. d[p] \in Seq(K) /\ p \in STRING
    <3>1. d \in UNION {[D -> Seq(K)] : D \in SUBSET STRING}
      BY DEF V, ProvidersOf
    <3>2. p \in STRING
      BY Sections
    <3>. QED
      BY <1>14, <3>1, <3>2
  <2>2. Put(d, p, Append(d[p], p)) \in V
    <3>1. ToSet(Append(d[p], p)) = ToSet(d[p]) \cup {p}
      BY <1>1, <2>1, AppendParts
    <3>. QED
      BY <1>1, <2>1, <3>1, ProvidersMore DEF V
  <2>3. p \in ToSet(Append(d[p], p)) /\ Put(d, p, Append(d[p], p))[p] = Append(d[p], p)
    BY <1>1, <2>1, AppendParts DEF Put
  <2>. QED
    BY <1>13, <1>14, <2>2, <2>3 DEF V, ProvidersOf
<1>15. CASE p \notin DOMAIN d
  BY <1>13, <1>15 DEF V, ProvidersOf
<1>. QED
  BY <1>14, <1>15

ArchiveInv ==
  /\ sections \in Seq(BinarySection \cup SourceSection)
  /\ phase = "archive" => sections # <<>>
  /\ \A p \in DOMAIN packages : packages[p] \in BinarySection
  /\ \A src \in DOMAIN sources : sources[src] \in SourceSection
  /\ provides \in ProvidersOf(DOMAIN packages, DOMAIN packages)
  /\ DOMAIN pruned = DOMAIN packages /\ \A p \in DOMAIN packages : Extra \notin pruned[p]

-----------------------------------------------------------------------------
(* The seeds: planted one by one in the order of names, which addExtras    *)
(* makes one longer, and grown in that order.                              *)
Before == {"archive", "parse", "sort", "expand"}

SeedDomains(S) ==
  /\ DOMAIN seed = S /\ DOMAIN seedrecommends = S /\ DOMAIN options = S
  /\ DOMAIN depends = S /\ DOMAIN build_depends = S
  /\ DOMAIN build = S /\ DOMAIN not_build = S
  /\ DOMAIN build_srcs = S /\ DOMAIN not_build_srcs = S /\ DOMAIN build_sourcepkgs = S
  /\ DOMAIN why = S \cup {"all"}

SeedsInv ==
  /\ seeds \in Seq(SeedName) /\ grown \in 0..Len(seeds)
  /\ phase \in Before => seeds = <<>>
  /\ phase \in Before \cup {"plant"} => grown = 0
  /\ phase \in Early \cup Late =>
       /\ Len(seeds) <= Len(names) /\ \A i \in 1..Len(seeds) : seeds[i] = names[i]
       /\ phase # "plant" => Len(seeds) = Len(names)
  /\ phase \in Late \cup {"grown"} =>
       \A i \in 1..Len(seeds) : i <= grown \/ seeds[i] = Extra
  /\ SeedDomains(ToSet(seeds))

NewSeed(s) ==
  /\ seeds' = Append(seeds, s)
  /\ \A t \in ToSet(seeds) : t # s =>
       /\ seed'[t] = seed[t] /\ seedrecommends'[t] = seedrecommends[t]
       /\ options'[t] = options[t] /\ depends'[t] = depends[t]
       /\ build_depends'[t] = build_depends[t] /\ build'[t] = build[t]
       /\ not_build'[t] = not_build[t] /\ build_srcs'[t] = build_srcs[t]
       /\ not_build_srcs'[t] = not_build_srcs[t]
       /\ build_sourcepkgs'[t] = build_sourcepkgs[t] /\ why'[t] = why[t]
  /\ s # "all" => why'["all"] = why["all"]
  /\ seed'[s] = <<>> /\ seedrecommends'[s] = <<>> /\ depends'[s] = {}
  /\ options'[s].blacklist = {} /\ build_depends'[s] = {} /\ build'[s] = {}
  /\ not_build'[s] = {} /\ build_srcs'[s] = {} /\ not_build_srcs'[s] = {}
  /\ build_sourcepkgs'[s] = {} /\ why'[s] = <<>>
  /\ UNCHANGED <<all, all_srcs>>

LEMMA NewSeedIs ==
  ASSUME SeedsInv, NEW s, _newSeed(s)
  PROVE  NewSeed(s) /\ SeedDomains(ToSet(seeds))'
<1>1. PICK S : S = ToSet(seeds)
  OBVIOUS
<1>2. SeedDomains(S) /\ ToSet(seeds)' = S \cup {s} /\ seeds' = Append(seeds, s)
  BY <1>1, ToSetAppend DEF SeedsInv, _newSeed
<1>3. PICK none : options' = Put(options, s, none) /\ none.blacklist = {}
  BY DEF _newSeed
<1>4. /\ DOMAIN options' = S \cup {s} /\ options'[s].blacklist = {}
      /\ \A t \in S : t # s => options'[t] = options[t]
  BY <1>2, <1>3 DEF SeedDomains, Put
<1>5. /\ DOMAIN seed' = S \cup {s} /\ seed'[s] = <<>>
      /\ \A t \in S : t # s => seed'[t] = seed[t]
  <2>1. seed' = Put(seed, s, <<>>) /\ DOMAIN seed = S
    BY <1>2 DEF _newSeed, SeedDomains
  <2>. QED
    BY <2>1 DEF Put
<1>6. /\ DOMAIN seedrecommends' = S \cup {s} /\ seedrecommends'[s] = <<>>
      /\ \A t \in S : t # s => seedrecommends'[t] = seedrecommends[t]
  <2>1. seedrecommends' = Put(seedrecommends, s, <<>>) /\ DOMAIN seedrecommends = S
    BY <1>2 DEF _newSeed, SeedDomains
  <2>. QED
    BY <2>1 DEF Put
<1>7. /\ DOMAIN depends' = S \cup {s} /\ depends'[s] = {}
      /\ \A t \in S : t # s => depends'[t] = depends[t]
  <2>1. depends' = Put(depends, s, {}) /\ DOMAIN depends = S
    BY <1>2 DEF _newSeed, SeedDomains
  <2>. QED
    BY <2>1 DEF Put
<1>8. /\ DOMAIN build_depends' = S \cup {s} /\ build_depends'[s] = {}
      /\ \A t \in S : t # s => build_depends'[t] = build_depends[t]
  <2>1. build_depends' = Put(build_depends, s, {}) /\ DOMAIN build_depends = S
    BY <1>2 DEF _newSeed, SeedDomains
  <2>. QED
    BY <2>1 DEF Put
<1>9. /\ DOMAIN build' = S \cup {s} /\ build'[s] = {}
      /\ \A t \in S : t # s => build'[t] = build[t]
  <2>1. build' = Put(build, s, {}) /\ DOMAIN build = S
    BY <1>2 DEF _newSeed, SeedDomains
  <2>. QED
    BY <2>1 DEF Put
<1>10. /\ DOMAIN not_build' = S \cup {s} /\ not_build'[s] = {}
      /\ \A t \in S : t # s => not_build'[t] = not_build[t]
  <2>1. not_build' = Put(not_build, s, {}) /\ DOMAIN not_build = S
    BY <1>2 DEF _newSeed, SeedDomains
  <2>. QED
    BY <2>1 DEF Put
<1>11. /\ DOMAIN build_srcs' = S \cup {s} /\ build_srcs'[s] = {}
      /\ \A t \in S : t # s => build_srcs'[t] = build_srcs[t]
  <2>1. build_srcs' = Put(build_srcs, s, {}) /\ DOMAIN build_srcs = S
    BY <1>2 DEF _newSeed, SeedDomains
  <2>. QED
    BY <2>1 DEF Put
<1>12. /\ DOMAIN not_build_srcs' = S \cup {s} /\ not_build_srcs'[s] = {}
      /\ \A t \in S : t # s => not_build_srcs'[t] = not_build_srcs[t]
  <2>1. not_build_srcs' = Put(not_build_srcs, s, {}) /\ DOMAIN not_build_srcs = S
    BY <1>2 DEF _newSeed, SeedDomains
  <2>. QED
    BY <2>1 DEF Put
<1>13. /\ DOMAIN build_sourcepkgs' = S \cup {s} /\ build_sourcepkgs'[s] = {}
      /\ \A t \in S : t # s => build_sourcepkgs'[t] = build_sourcepkgs[t]
  <2>1. build_sourcepkgs' = Put(build_sourcepkgs, s, {}) /\ DOMAIN build_sourcepkgs = S
    BY <1>2 DEF _newSeed, SeedDomains
  <2>. QED
    BY <2>1 DEF Put
<1>14. /\ DOMAIN why' = S \cup {"all", s} /\ why'[s] = <<>>
      /\ \A t \in S \cup {"all"} : t # s => why'[t] = why[t]
  <2>1. why' = Put(why, s, <<>>) /\ DOMAIN why = S \cup {"all"}
    BY <1>2 DEF _newSeed, SeedDomains
  <2>. QED
    BY <2>1 DEF Put
<1>15. NewSeed(s)
  BY <1>1, <1>2, <1>4, <1>5, <1>6, <1>7, <1>8, <1>9, <1>10, <1>11, <1>12, <1>13, <1>14 DEF NewSeed, _newSeed
<1>. QED
  BY <1>2, <1>4, <1>5, <1>6, <1>7, <1>8, <1>9, <1>10, <1>11, <1>12, <1>13, <1>14, <1>15 DEF SeedDomains

(* What else happens leaves the seeds alone.                               *)
LEMMA DomainsStay ==
  ASSUME SeedsInv, [RdependsNext]_rdependsAllVars, ~plantSeed, ~addExtras
  PROVE  SeedDomains(ToSet(seeds))' /\ seeds' = seeds
<1>1. PICK S : S = ToSet(seeds) /\ SeedDomains(S)
  BY DEF SeedsInv
<1>2. SUFFICES SeedDomains(S)' /\ seeds' = seeds
  BY <1>1
<1>. USE DEF SeedDomains, plantVars, seedVars, addedVars, dependVars, sourceVars
<1>3. CASE UNCHANGED rdependsAllVars
  BY <1>1, <1>3 DEF rdependsAllVars, vars
<1>4. CASE reverseDepends \/ writeLists \/ writeRdependList \/ _writeRdependList
  BY <1>1, <1>4 DEF reverseDepends, writeLists, writeRdependList, _writeRdependList, vars
<1>5. CASE sortStructure \/ parseArchive \/ prune \/ rescueForBuild \/ refusePackage
  BY <1>1, <1>5 DEF sortStructure, parseArchive, prune, rescueForBuild, refusePackage
<1>6. CASE readLine
  <2>1. ASSUME NEW s, NEW line PROVE DOMAIN OptionsWith(s, line) = DOMAIN options
    BY DEF OptionsWith
  <2>2. \E s, line : options' = OptionsWith(s, line)
    BY <1>6 DEF readLine
  <2>. QED
    BY <1>1, <1>6, <2>1, <2>2 DEF readLine
<1>7. CASE plantPackage \/ plantHints
  <2>1. ASSUME NEW s, NEW new, NEW named, Plant(s, new, named)
        PROVE  DOMAIN seed' = DOMAIN seed /\ DOMAIN seedrecommends' = DOMAIN seedrecommends
    BY <2>1 DEF Plant
  <2>2. UNCHANGED seedVars \/ \E s, new, named : Plant(s, new, named)
    BY <1>7 DEF plantPackage, plantHints
  <2>3. DOMAIN seed' = DOMAIN seed /\ DOMAIN seedrecommends' = DOMAIN seedrecommends
    BY <2>1, <2>2
  <2>. QED
    BY <1>1, <1>7, <2>3 DEF plantPackage, plantHints
<1>8. CASE growSeed
  <2>1. DOMAIN seed' = DOMAIN seed /\ DOMAIN seedrecommends' = DOMAIN seedrecommends
    BY <1>8 DEF growSeed
  <2>. QED
    BY <1>1, <1>8, <2>1 DEF growSeed
<1>9. CASE addPackage
  <2>1. DOMAIN build_depends' = DOMAIN build_depends
    BY <1>9 DEF addPackage, BuildDependsWithout
  <2>2. DOMAIN build' = DOMAIN build /\ DOMAIN not_build' = DOMAIN not_build
    BY <1>9 DEF addPackage, AddIfNew
  <2>3. DOMAIN why' = DOMAIN why
    BY <1>9 DEF addPackage
  <2>. QED
    BY <1>1, <1>9, <2>1, <2>2, <2>3 DEF addPackage
<1>10. CASE addSource
  <2>1. /\ DOMAIN build_srcs' = DOMAIN build_srcs
        /\ DOMAIN not_build_srcs' = DOMAIN not_build_srcs
        /\ DOMAIN build_sourcepkgs' = DOMAIN build_sourcepkgs
    BY <1>10 DEF addSource
  <2>. QED
    BY <1>1, <1>10, <2>1 DEF addSource
<1>11. ASSUME NEW c, NEW pkgs, addDependency(c, pkgs)
       PROVE  DOMAIN depends' = DOMAIN depends /\ DOMAIN build_depends' = DOMAIN build_depends
  BY <1>11 DEF addDependency
<1>12. CASE checkSatisfied \/ newDependency
  <2>1. UNCHANGED dependVars \/ \E c, pkgs : addDependency(c, pkgs)
    BY <1>12 DEF checkSatisfied, newDependency
  <2>2. DOMAIN depends' = DOMAIN depends /\ DOMAIN build_depends' = DOMAIN build_depends
    BY <1>11, <2>1
  <2>. QED
    BY <1>1, <1>12, <2>2 DEF checkSatisfied, newDependency
<1>13. CASE promoteDependency
  <2>1. UNCHANGED dependVars \/ \E c, pkgs : addDependency(c, pkgs)
    BY <1>13 DEF promoteDependency
  <2>2. DOMAIN depends' = DOMAIN depends /\ DOMAIN build_depends' = DOMAIN build_depends
    BY <1>11, <2>1
  <2>3. DOMAIN seed' = DOMAIN seed /\ DOMAIN seedrecommends' = DOMAIN seedrecommends
    BY <1>13 DEF promoteDependency
  <2>. QED
    BY <1>1, <1>13, <2>2, <2>3 DEF promoteDependency
<1>14. CASE startRescue \/ rescueSource
  BY <1>1, <1>14 DEF startRescue, rescueSource
<1>15. CASE rescuePackage
  <2>1. DOMAIN depends' = DOMAIN depends /\ DOMAIN build_depends' = DOMAIN build_depends
    BY <1>15 DEF rescuePackage
  <2>2. DOMAIN seed' = DOMAIN seed
    BY <1>15 DEF rescuePackage
  <2>. QED
    BY <1>1, <1>15, <2>1, <2>2 DEF rescuePackage
<1>16. CASE extraPass \/ extraBinary \/ finish
  <2>1. DOMAIN seed' = DOMAIN seed
    BY <1>16 DEF extraPass, extraBinary, finish
  <2>. QED
    BY <1>1, <1>16, <2>1 DEF extraPass, extraBinary, finish
<1>. QED
  BY <1>3, <1>4, <1>5, <1>6, <1>7, <1>8, <1>9, <1>10, <1>12, <1>13, <1>14, <1>15, <1>16
     DEF RdependsNext, Next

(* From one phase to the next.                                             *)
Advances ==
  \/ /\ phase \in Before /\ phase' \in Before \cup {"cycle", "unknownParent", "noSeed", "plant"}
     /\ (phase' = "archive" => phase = "archive") /\ grown' = grown
  \/ /\ UNCHANGED <<names, inherit, structure, world>>
     /\ \/ UNCHANGED <<phase, grown>>
        \/ phase = "plant" /\ phase' = "grow" /\ Len(seeds) = Len(names) /\ grown' = grown
        \/ phase = "grow" /\ grown < Len(seeds) /\ grown' = grown + 1 /\ UNCHANGED phase
        \/ phase = "grow" /\ grown = Len(seeds) /\ phase' = "grown" /\ grown' = grown
        \/ phase \in Late /\ phase' \in Late /\ grown' = grown

LEMMA PhaseSteps ==
  ASSUME [RdependsNext]_rdependsAllVars, ~plantSeed, ~addExtras
  PROVE  Advances
<1>1. CASE UNCHANGED rdependsAllVars
  BY <1>1 DEF rdependsAllVars, vars, structureVars, parseVars, Advances
<1>2. CASE reverseDepends \/ writeLists \/ writeRdependList \/ _writeRdependList
  BY <1>2 DEF reverseDepends, writeLists, writeRdependList, _writeRdependList, vars,
              structureVars, parseVars, Advances, Late
<1>3. CASE sortStructure
  <2>1. /\ phase \in Before
        /\ phase' \in Before \cup {"cycle", "unknownParent", "noSeed", "plant"}
        /\ phase' # "archive" \/ phase = "archive"
    BY <1>3 DEF sortStructure, StructureNext, IncludeBranch, FinishBranch, PopItem, PopNode,
                VisitParent, Popped, StartExpanding, ExpandInheritance, addSeedPackage, StartPlanting,
                Before
  <2>. QED
    BY <1>3, <2>1 DEF sortStructure, Advances
<1>4. CASE parseArchive
  BY <1>4 DEF parseArchive, Advances, Before
<1>5. CASE readLine \/ plantPackage \/ plantHints \/ refusePackage \/ addPackage
  BY <1>5 DEF readLine, plantPackage, plantHints, refusePackage, addPackage,
              structureVars, parseVars, Advances
<1>6. CASE prune \/ growSeed \/ rescueForBuild \/ finish
  BY <1>6 DEF prune, growSeed, rescueForBuild, finish, structureVars, parseVars, Advances, Late
<1>7. CASE addSource \/ checkSatisfied \/ newDependency \/ promoteDependency \/ startRescue
  BY <1>7 DEF addSource, checkSatisfied, newDependency, promoteDependency, startRescue,
              structureVars, parseVars, Advances
<1>8. CASE rescueSource \/ rescuePackage \/ extraPass \/ extraBinary
  BY <1>8 DEF rescueSource, rescuePackage, extraPass, extraBinary, structureVars, parseVars,
              Advances
<1>. QED
  BY <1>1, <1>2, <1>3, <1>4, <1>5, <1>6, <1>7, <1>8 DEF RdependsNext, Next

(* "all" is no seed: it is the name of the list of them all.               *)
LEMMA NamesAre ==
  ASSUME ParseInv, PlantInv, phase \in Early \cup Late
  PROVE  /\ names \in Seq(SeedName) /\ Distinct(names) /\ ToSet(names) = DOMAIN inherit
         /\ "all" \notin ToSet(names) /\ (phase \in Early => Extra \notin ToSet(names))
         /\ supported \in ToSet(names)
<1>1. /\ names \in Seq(SeedName) /\ Distinct(names) /\ ToSet(names) = DOMAIN inherit
      /\ ToSet(names) \subseteq GivenSeeds \cup {Extra}
      /\ phase \in Early => Extra \notin ToSet(names)
      /\ DOMAIN structure.inherit \subseteq ToSet(names) /\ structure.names # <<>>
  BY DEF PlantInv
<1>2. phase \notin Parsing
  BY DEF Early, Late, Parsing
<1>3. GivenSeeds \subseteq STRING \ {"extra", "all"}
  BY <1>2, AllAncestorsProperties
<1>4. structure.names \in Seq(SeedNames(world)) /\ DOMAIN structure.inherit = ToSet(structure.names)
  BY <1>2 DEF ParseInv, Parsing
<1>5. Last(structure.names) \in ToSet(structure.names)
  BY <1>1, <1>4, FrontLast
<1>. QED
  BY <1>1, <1>3, <1>4, <1>5 DEF Extra, supported

LEMMA SeedsAlways == RdependsSpec => []SeedsInv
<1>1. RdependsInit => SeedsInv
  <2>. SUFFICES ASSUME Init PROVE SeedsInv
    BY DEF RdependsInit
  <2>1. /\ seeds = <<>> /\ grown = 0 /\ phase \in {"parse", "archive"}
        /\ DOMAIN <<>> = {} /\ ToSet(<<>>) = {}
    BY ToSetProperties DEF Init
  <2>2. SeedDomains({})
    BY <2>1 DEF SeedDomains, Init
  <2>3. seeds \in Seq(SeedName) /\ grown \in 0..Len(seeds)
    BY <2>1, EmptySeq
  <2>. QED
    BY <2>1, <2>2, <2>3 DEF SeedsInv, Early, Late
<1>2. ParseInv /\ PlantInv /\ PlantInv' /\ SeedsInv /\ [RdependsNext]_rdependsAllVars => SeedsInv'
  <2>. SUFFICES ASSUME ParseInv, PlantInv, PlantInv', SeedsInv, [RdependsNext]_rdependsAllVars
                PROVE  SeedsInv'
    OBVIOUS
  <2>1. CASE ~plantSeed /\ ~addExtras
    <3>1. SeedDomains(ToSet(seeds))' /\ seeds' = seeds /\ Advances
      BY <2>1, DomainsStay, PhaseSteps
    <3>2. Len(seeds) \in Nat /\ (seeds = <<>> => Len(seeds) = 0)
      BY DEF SeedsInv
    <3>3. seeds' \in Seq(SeedName) /\ grown' \in 0..Len(seeds')
      BY <3>1, <3>2 DEF SeedsInv, Advances
    <3>4. phase' \in Before => seeds' = <<>>
      BY <3>1 DEF SeedsInv, Advances, Before, Early, Late
    <3>5. phase' \in Before \cup {"plant"} => grown' = 0
      BY <3>1 DEF SeedsInv, Advances, Before, Early, Late
    <3>6. ASSUME phase' \in Early \cup Late
          PROVE  /\ Len(seeds') <= Len(names') /\ \A i \in 1..Len(seeds') : seeds'[i] = names'[i]
                 /\ phase' # "plant" => Len(seeds') = Len(names')
      <4>1. CASE phase \in Before
        <5>1. seeds' = <<>> /\ phase' = "plant"
          BY <3>1, <3>6, <4>1 DEF SeedsInv, Advances, Before, Early, Late
        <5>2. names' \in Seq(SeedName)
          BY <3>6 DEF PlantInv
        <5>. QED
          BY <5>1, <5>2
      <4>2. CASE phase \notin Before
        BY <3>1, <3>6, <4>2 DEF SeedsInv, Advances, Before, Early, Late
      <4>. QED
        BY <4>1, <4>2
    <3>7. phase' \in Late \cup {"grown"} =>
            \A i \in 1..Len(seeds') : i <= grown' \/ seeds'[i] = Extra
      BY <3>1, <3>2 DEF SeedsInv, Advances, Before, Early, Late
    <3>. QED
      BY <3>1, <3>3, <3>4, <3>5, <3>6, <3>7 DEF SeedsInv
  <2>2. CASE plantSeed
    <3>. DEFINE k == Len(seeds) + 1
    <3>1. /\ phase = "plant" /\ Len(seeds) < Len(names) /\ UNCHANGED <<names, grown>>
          /\ names \in Seq(SeedName) /\ Distinct(names)
      BY <2>2 DEF plantSeed, PlantInv, Early, structureVars
    <3>2. CASE Fetchable(names[k])
      <4>1. _newSeed(names[k]) /\ phase' = phase
        BY <2>2, <3>2 DEF plantSeed
      <4>2. SeedDomains(ToSet(seeds))' /\ seeds' = Append(seeds, names[k])
        BY <4>1, NewSeedIs DEF NewSeed
      <4>3. seeds \in Seq(SeedName) /\ k \in 1..Len(names) /\ names[k] \in SeedName
        BY <3>1 DEF SeedsInv
      <4>4. /\ seeds' \in Seq(SeedName) /\ Len(seeds') = k
            /\ \A i \in 1..Len(seeds) : seeds'[i] = seeds[i]
            /\ seeds'[k] = names[k]
        BY <4>2, <4>3, AppendParts
      <4>5. \A i \in 1..Len(seeds) : seeds[i] = names[i]
        BY <3>1 DEF SeedsInv, Early
      <4>6. \A i \in 1..Len(seeds') : seeds'[i] = names'[i]
        BY <3>1, <4>3, <4>4, <4>5
      <4>7. grown = 0 /\ grown' = 0
        BY <3>1 DEF SeedsInv
      <4>. QED
        BY <3>1, <4>1, <4>2, <4>3, <4>4, <4>6, <4>7 DEF SeedsInv, Before, Early, Late
    <3>3. CASE ~Fetchable(names[k])
      <4>1. /\ phase' = "noSeed"
            /\ UNCHANGED <<seeds, options, seedVars, addedVars, dependVars, sourceVars>>
        BY <2>2, <3>3 DEF plantSeed
      <4>2. SeedDomains(ToSet(seeds))'
        BY <4>1 DEF SeedsInv, SeedDomains, seedVars, addedVars, dependVars, sourceVars
      <4>. QED
        BY <3>1, <4>1, <4>2 DEF SeedsInv, Before, Early, Late
    <3>. QED
      BY <3>2, <3>3
  <2>3. CASE addExtras
    <3>1. /\ phase = "grown" /\ phase' = "extras" /\ names' = Append(names, Extra)
          /\ _newSeed(Extra) /\ grown' = grown
      BY <2>3 DEF addExtras
    <3>2. SeedDomains(ToSet(seeds))' /\ seeds' = Append(seeds, Extra)
      BY <3>1, NewSeedIs DEF NewSeed
    <3>3. Extra \in SeedName /\ names \in Seq(SeedName) /\ seeds \in Seq(SeedName)
      BY <3>1 DEF PlantInv, SeedsInv, Early, SeedName
    <3>4. /\ Len(seeds) = Len(names) /\ \A i \in 1..Len(seeds) : seeds[i] = names[i]
          /\ \A i \in 1..Len(seeds) : i <= grown \/ seeds[i] = Extra
          /\ grown \in 0..Len(seeds)
      BY <3>1 DEF SeedsInv, Early
    <3>5. /\ seeds' \in Seq(SeedName) /\ Len(seeds') = Len(seeds) + 1
          /\ \A i \in 1..Len(seeds) : seeds'[i] = seeds[i]
          /\ seeds'[Len(seeds) + 1] = Extra
      BY <3>2, <3>3, AppendParts
    <3>6. /\ Len(names') = Len(names) + 1 /\ \A i \in 1..Len(names) : names'[i] = names[i]
          /\ names'[Len(names) + 1] = Extra /\ Len(names) \in Nat
      BY <3>1, <3>3, AppendParts
    <3>7. \A i \in 1..Len(seeds') : seeds'[i] = names'[i] /\ (i <= grown' \/ seeds'[i] = Extra)
      BY <3>1, <3>4, <3>5, <3>6
    <3>. QED
      BY <3>1, <3>2, <3>4, <3>5, <3>6, <3>7 DEF SeedsInv, Before, Early, Late
  <2>. QED
    BY <2>1, <2>2, <2>3
<1>. QED
  BY <1>1, <1>2, ParseAlways, PlantAlways, PTL DEF RdependsSpec

LEMMA SeedsPlanted ==
  ASSUME ParseInv, PlantInv, SeedsInv, phase \in Early \cup Late
  PROVE  /\ ToSet(seeds) \subseteq ToSet(names) /\ "all" \notin ToSet(seeds)
         /\ phase \in Early => Extra \notin ToSet(seeds)
         /\ phase # "plant" => seeds = names /\ supported \in ToSet(seeds)
<1>1. /\ names \in Seq(SeedName) /\ "all" \notin ToSet(names) /\ supported \in ToSet(names)
      /\ phase \in Early => Extra \notin ToSet(names)
  BY NamesAre
<1>2. /\ seeds \in Seq(SeedName) /\ Len(seeds) <= Len(names)
      /\ \A i \in 1..Len(seeds) : seeds[i] = names[i]
      /\ phase # "plant" => Len(seeds) = Len(names)
  BY DEF SeedsInv
<1>3. ToSet(seeds) \subseteq ToSet(names)
  BY <1>1, <1>2 DEF ToSet
<1>4. phase # "plant" => seeds = names
  BY <1>1, <1>2, SeqEqual
<1>. QED
  BY <1>1, <1>3, <1>4

LEMMA ParsePackageTyped ==
  ASSUME ArchiveInv, NEW section \in BinarySection, parsePackage(section)
  PROVE  /\ \A p \in DOMAIN packages' : packages'[p] \in BinarySection
         /\ provides' \in ProvidersOf(DOMAIN packages', DOMAIN packages')
         /\ DOMAIN pruned' = DOMAIN packages'
         /\ \A p \in DOMAIN packages' : Extra \notin pruned'[p]
         /\ sources' = sources
<1>1. CASE Newer(packages, section)
  <2>1. /\ packages' = Put(packages, section.name, section)
        /\ pruned' = Put(pruned, section.name, {})
        /\ provides' = ProvidesWith(section) /\ sources' = sources
    BY <1>1 DEF parsePackage
  <2>. DEFINE K == DOMAIN packages \cup {section.name}
  <2>2. DOMAIN packages' = K /\ \A p \in K : packages'[p] \in BinarySection
    BY <2>1 DEF Put, ArchiveInv
  <2>3. DOMAIN pruned' = K /\ \A p \in K : Extra \notin pruned'[p]
    BY <2>1 DEF Put, ArchiveInv
  <2>4. ProvidesWith(section) \in ProvidersOf(K, K)
    BY ProvidesTyped DEF ArchiveInv
  <2>. QED
    BY <2>1, <2>2, <2>3, <2>4
<1>2. CASE ~Newer(packages, section)
  BY <1>2 DEF parsePackage, ArchiveInv
<1>. QED
  BY <1>1, <1>2

LEMMA ArchiveAlways == RdependsSpec => []ArchiveInv
<1>1. RdependsInit => ArchiveInv
  <2>. SUFFICES ASSUME Init PROVE ArchiveInv
    BY DEF RdependsInit
  <2>1. /\ DOMAIN <<>> = {} /\ packages = <<>> /\ sources = <<>> /\ provides = <<>>
        /\ pruned = <<>> /\ sections = world.sections /\ world \in Worlds
        /\ phase = IF world.sections = <<>> THEN "parse" ELSE "archive"
    BY DEF Init
  <2>2. provides \in ProvidersOf({}, {})
    <3>1. provides \in [{} -> Seq({})]
      BY <2>1
    <3>. QED
      BY <3>1 DEF ProvidersOf
  <2>3. sections \in Seq(BinarySection \cup SourceSection)
    BY <2>1, ArchiveAssumption
  <2>. QED
    BY <2>1, <2>2, <2>3 DEF ArchiveInv
<1>2. ParseInv /\ PlantInv /\ SeedsInv /\ ArchiveInv /\ [RdependsNext]_rdependsAllVars
        => ArchiveInv'
  <2>. SUFFICES ASSUME ParseInv, PlantInv, SeedsInv, ArchiveInv, [RdependsNext]_rdependsAllVars
                PROVE  ArchiveInv'
    OBVIOUS
  <2>1. CASE parseArchive
    <3>1. /\ phase = "archive" /\ sections # <<>>
          /\ sections \in Seq(BinarySection \cup SourceSection)
          /\ parsePackage(Head(sections)) \/ parseSource(Head(sections))
          /\ sections' = Tail(sections)
          /\ phase' = IF Len(sections) = 1 THEN "parse" ELSE "archive"
      BY <2>1 DEF parseArchive, ArchiveInv
    <3>2. /\ Head(sections) \in BinarySection \cup SourceSection
          /\ sections' \in Seq(BinarySection \cup SourceSection)
          /\ Len(sections') = Len(sections) - 1 /\ Len(sections) \in Nat \ {0}
      BY <3>1, InnermostCall
    <3>3. phase' = "archive" => sections' # <<>>
      <4>1. CASE Len(sections) = 1
        BY <3>1, <4>1
      <4>2. CASE Len(sections) # 1
        <5>1. Len(sections') # 0
          BY <3>2, <4>2
        <5>. QED
          BY <3>2, <5>1, EmptySeq
      <4>. QED
        BY <4>1, <4>2
    <3>4. CASE parsePackage(Head(sections))
      <4>1. Head(sections) \in BinarySection
        BY <3>2, <3>4, Sections DEF parsePackage
      <4>. QED
        BY <3>2, <3>3, <3>4, <4>1, ParsePackageTyped DEF ArchiveInv
    <3>5. CASE parseSource(Head(sections))
      <4>1. Head(sections) \in SourceSection
        BY <3>2, <3>5, Sections DEF parseSource
      <4>2. \A src \in DOMAIN sources' : sources'[src] \in SourceSection
        BY <3>5, <4>1 DEF ArchiveInv, parseSource, Put
      <4>. QED
        BY <3>2, <3>3, <3>5, <4>2 DEF ArchiveInv, parseSource
    <3>. QED
      BY <3>1, <3>4, <3>5
  <2>2. CASE prune
    <3>1. Extra \notin ToSet(seeds)
      BY <2>2, SeedsPlanted DEF prune, Early
    <3>2. DOMAIN pruned' = DOMAIN packages /\ \A p \in DOMAIN packages : Extra \notin pruned'[p]
      BY <2>2, <3>1 DEF prune
    <3>. QED
      BY <2>2, <3>2 DEF prune, ArchiveInv, archiveVars
  <2>3. CASE ~parseArchive /\ ~prune
    <3>1. UNCHANGED <<archiveVars, pruned>>
      <4>1. CASE UNCHANGED rdependsAllVars
        BY <4>1 DEF rdependsAllVars, vars, plantVars
      <4>2. CASE reverseDepends \/ writeLists \/ writeRdependList \/ _writeRdependList
        BY <4>2 DEF reverseDepends, writeLists, writeRdependList, _writeRdependList, vars, plantVars
      <4>3. CASE sortStructure \/ plantSeed \/ readLine \/ plantPackage \/ plantHints
        BY <4>3 DEF sortStructure, plantSeed, readLine, plantPackage, plantHints, plantVars
      <4>4. CASE growSeed \/ rescueForBuild \/ refusePackage \/ addPackage \/ addSource
        BY <4>4 DEF growSeed, rescueForBuild, refusePackage, addPackage, addSource, plantVars
      <4>5. CASE checkSatisfied \/ promoteDependency \/ newDependency \/ startRescue
        BY <4>5 DEF checkSatisfied, promoteDependency, newDependency, startRescue, plantVars
      <4>6. CASE rescueSource \/ rescuePackage \/ addExtras \/ extraPass \/ extraBinary \/ finish
        BY <4>6 DEF rescueSource, rescuePackage, addExtras, extraPass, extraBinary, finish,
                    plantVars
      <4>. QED
        BY <2>3, <4>1, <4>2, <4>3, <4>4, <4>5, <4>6 DEF RdependsNext, Next
    <3>2. phase' = "archive" => phase = "archive"
      <4>1. CASE plantSeed
        BY <4>1 DEF plantSeed
      <4>2. CASE addExtras
        BY <4>2 DEF addExtras
      <4>3. CASE ~plantSeed /\ ~addExtras
        BY <4>3, PhaseSteps DEF Advances, Late
      <4>. QED
        BY <4>1, <4>2, <4>3
    <3>. QED
      BY <3>1, <3>2 DEF ArchiveInv, archiveVars
  <2>. QED
    BY <2>1, <2>2, <2>3
<1>. QED
  BY <1>1, <1>2, ParseAlways, PlantAlways, SeedsAlways, PTL DEF RdependsSpec

-----------------------------------------------------------------------------
(* The calls in progress. In the trees of a seed that is not extra,        *)
(* second_class and build_tree are the same, so that _addDependency, which *)
(* hands them over in each other's place, changes nothing.                 *)
PackageCalls(s, P) ==
  [op : {"package", "source"}, seed : {s}, pkg : P, second : BOOLEAN, tree : BOOLEAN,
   recs : BOOLEAN]
SomeClauses == Clauses \ {<<>>}
TreeCalls(s, P) ==
  [op : {"tree"}, seed : {s}, pkg : P, clauses : SomeClauses, bd : BOOLEAN,
   second : BOOLEAN, tree : BOOLEAN, recs : BOOLEAN, next : Nat]
RescueCalls(s, P, Q, F) ==
  [op : {"rescue", "rescuing"}, seed : {s}, from : F, tree : BOOLEAN, srcs : SUBSET Q,
   pkgs : SUBSET P]
PassCalls(Q) == [op : {"pass"}, srcs : SUBSET Q, found : BOOLEAN]
Names == Seq(STRING)
BinaryCalls(Q) == [op : {"binaries"}, src : Q, left : Names]

Mode(c, ph) ==
  /\ c.op \in {"package", "source"} =>
       /\ ph # "extras" /\ c.second => c.tree
       /\ ph = "grown" => c.tree
  /\ c.op = "tree" =>
       /\ c.tree => c.second
       /\ c.bd => c.tree
       /\ ph # "extras" /\ c.second => c.tree
       /\ ph = "grown" => c.tree
  /\ c.op \in {"rescue", "rescuing"} => ph # "extras" /\ (ph = "grown" <=> c.tree)
  /\ c.op \in {"pass", "binaries"} => ph = "extras"

Calls(s, P, Q, F, ph) ==
  {c \in PackageCalls(s, P) \cup TreeCalls(s, P) \cup RescueCalls(s, P, Q, F)
           \cup PassCalls(Q) \cup BinaryCalls(Q) : Mode(c, ph)}

LEMMA CallKinds ==
  ASSUME NEW s, NEW P, NEW Q, NEW F, NEW ph, NEW c \in Calls(s, P, Q, F, ph)
  PROVE  /\ Mode(c, ph)
         /\ c.op \in {"package", "source", "tree", "rescue", "rescuing", "pass", "binaries"}
         /\ c.op \in {"package", "source"} => c \in PackageCalls(s, P)
         /\ c.op = "tree" => c \in TreeCalls(s, P)
         /\ c.op \in {"rescue", "rescuing"} => c \in RescueCalls(s, P, Q, F)
         /\ c.op = "pass" => c \in PassCalls(Q)
         /\ c.op = "binaries" => c \in BinaryCalls(Q)
<1>1. ASSUME NEW x \in PackageCalls(s, P) PROVE x.op \in {"package", "source"}
  BY DEF PackageCalls
<1>2. ASSUME NEW x \in TreeCalls(s, P) PROVE x.op = "tree"
  BY DEF TreeCalls
<1>3. ASSUME NEW x \in RescueCalls(s, P, Q, F) PROVE x.op \in {"rescue", "rescuing"}
  BY DEF RescueCalls
<1>4. ASSUME NEW x \in PassCalls(Q) PROVE x.op = "pass"
  BY DEF PassCalls
<1>5. ASSUME NEW x \in BinaryCalls(Q) PROVE x.op = "binaries"
  BY DEF BinaryCalls
<1>. QED
  BY <1>1, <1>2, <1>3, <1>4, <1>5 DEF Calls

LEMMA PackageFields ==
  ASSUME NEW s, NEW P, NEW c \in PackageCalls(s, P)
  PROVE  /\ c.seed = s /\ c.pkg \in P /\ c.second \in BOOLEAN /\ c.tree \in BOOLEAN
         /\ c.recs \in BOOLEAN
         /\ \E x \in PackageCalls(s, P) :
              /\ x = [c EXCEPT !.op = "source"] /\ x.op = "source" /\ x.seed = s /\ x.pkg = c.pkg
              /\ x.second = c.second /\ x.tree = c.tree
<1>1. /\ c.seed = s /\ c.pkg \in P /\ c.second \in BOOLEAN /\ c.tree \in BOOLEAN
      /\ c.recs \in BOOLEAN
  BY DEF PackageCalls
<1>. DEFINE x == [c EXCEPT !.op = "source"]
<1>2. x \in PackageCalls(s, P) /\ x.op = "source" /\ x.seed = s /\ x.pkg = c.pkg
      /\ x.second = c.second /\ x.tree = c.tree
  BY DEF PackageCalls
<1>. QED
  BY <1>1, <1>2

LEMMA PackageCallIs ==
  ASSUME NEW s, NEW P, NEW p \in P, NEW second \in BOOLEAN, NEW tree \in BOOLEAN,
         NEW recs \in BOOLEAN
  PROVE  \E x \in PackageCalls(s, P) :
           /\ x = PackageCall(s, p, second, tree, recs) /\ x.op = "package" /\ x.seed = s
           /\ x.pkg = p /\ x.second = second /\ x.tree = tree
<1>. DEFINE x == PackageCall(s, p, second, tree, recs)
<1>1. x \in PackageCalls(s, P) /\ x.op = "package" /\ x.seed = s /\ x.pkg = p
      /\ x.second = second /\ x.tree = tree
  BY DEF PackageCalls, PackageCall
<1>. QED
  BY <1>1

LEMMA TreeFields ==
  ASSUME NEW s, NEW P, NEW c \in TreeCalls(s, P)
  PROVE  /\ c.op = "tree" /\ c.seed = s /\ c.pkg \in P /\ c.clauses \in SomeClauses
         /\ c.bd \in BOOLEAN /\ c.second \in BOOLEAN /\ c.tree \in BOOLEAN /\ c.recs \in BOOLEAN
         /\ c.next \in Nat
  BY DEF TreeCalls

(* The same tree a step further.                                           *)
SameTree(x, c) ==
  /\ x.op = "tree" /\ x.seed = c.seed /\ x.pkg = c.pkg /\ x.bd = c.bd /\ x.second = c.second
  /\ x.tree = c.tree

NextIs(c, n) == [c EXCEPT !.next = n]
ClausesAre(c, cl) == [c EXCEPT !.clauses = cl, !.next = 0]

LEMMA TreeGoesOn ==
  ASSUME NEW s, NEW P, NEW c \in TreeCalls(s, P), NEW n \in Nat
  PROVE  \E x \in TreeCalls(s, P) :
           x = NextIs(c, n) /\ SameTree(x, c) /\ x.clauses = c.clauses /\ x.next = n
<1>. DEFINE x == NextIs(c, n)
<1>1. x \in TreeCalls(s, P) /\ x.clauses = c.clauses /\ x.next = n
  BY DEF TreeCalls, NextIs
<1>2. SameTree(x, c)
  BY DEF TreeCalls, SameTree, NextIs
<1>. QED
  BY <1>1, <1>2

LEMMA TreeMovesOn ==
  ASSUME NEW s, NEW P, NEW c \in TreeCalls(s, P), NEW cl \in SomeClauses
  PROVE  \E x \in TreeCalls(s, P) :
           x = ClausesAre(c, cl) /\ SameTree(x, c) /\ x.clauses = cl /\ x.next = 0
<1>. DEFINE x == ClausesAre(c, cl)
<1>1. x \in TreeCalls(s, P) /\ x.clauses = cl /\ x.next = 0
  BY DEF TreeCalls, ClausesAre
<1>2. SameTree(x, c)
  BY DEF TreeCalls, SameTree, ClausesAre
<1>. QED
  BY <1>1, <1>2

TreeFor(c, x, s, P) ==
  /\ x \in TreeCalls(s, P) /\ x.op = "tree" /\ x.seed = s /\ x.pkg = c.pkg /\ x.next = 0
DependsTree(c, x, s, P) ==
  /\ TreeFor(c, x, s, P) /\ x.bd = FALSE /\ x.second = (c.second \/ c.tree) /\ x.tree = c.tree
BuildTree(c, x, s, P) == TreeFor(c, x, s, P) /\ x.bd = TRUE /\ x.second = TRUE /\ x.tree = TRUE

DependsCalls(c, clauses, s) ==
  {TreeCall(s, c.pkg, clauses, FALSE, c.second, c.tree, recs) : recs \in BOOLEAN}
DependsTrees(t, c, clauses, s, P) ==
  /\ t \in Seq(TreeCalls(s, P))
  /\ \A x \in ToSet(t) : DependsTree(c, x, s, P) /\ x.clauses = clauses
  /\ \A cl \in ToSet(clauses) : \E x \in ToSet(t) : cl \in ToSet(x.clauses)
BuildTrees(t, c, clauses, s, P) ==
  /\ t \in Seq(TreeCalls(s, P))
  /\ \A x \in ToSet(t) : BuildTree(c, x, s, P) /\ x.clauses = clauses
  /\ \A cl \in ToSet(clauses) : \E x \in ToSet(t) : cl \in ToSet(x.clauses)

LEMMA DependsTreeIs ==
  ASSUME NEW s, NEW P, NEW c \in PackageCalls(s, P), NEW clauses \in Clauses,
         NEW t \in DependsCalls(c, clauses, s)
  PROVE  DependsTrees(t, c, clauses, s, P)
<1>0. PICK recs \in BOOLEAN : t = TreeCall(s, c.pkg, clauses, FALSE, c.second, c.tree, recs)
  BY DEF DependsCalls
<1>. DEFINE x == [op |-> "tree", seed |-> s, pkg |-> c.pkg, clauses |-> clauses, bd |-> FALSE,
                  second |-> c.second \/ c.tree \/ FALSE, tree |-> c.tree \/ FALSE,
                  recs |-> recs, next |-> 0]
<1>1. CASE clauses = <<>>
  <2>1. t = <<>>
    BY <1>0, <1>1 DEF TreeCall
  <2>2. ToSet(<<>>) = {} /\ <<>> \in Seq(TreeCalls(s, P)) /\ ToSet(clauses) = {}
    BY <1>1, ToSetProperties
  <2>. QED
    BY <2>1, <2>2 DEF DependsTrees
<1>2. CASE clauses # <<>>
  <2>1. clauses \in SomeClauses
    BY <1>2 DEF SomeClauses
  <2>2. c.pkg \in P /\ c.second \in BOOLEAN /\ c.tree \in BOOLEAN
    BY PackageFields
  <2>3. x \in TreeCalls(s, P)
    BY <2>1, <2>2 DEF TreeCalls
  <2>4. /\ x.op = "tree" /\ x.seed = s /\ x.pkg = c.pkg /\ x.clauses = clauses /\ x.bd = FALSE
        /\ x.second = (c.second \/ c.tree) /\ x.tree = c.tree /\ x.next = 0
    BY <2>2
  <2>5. t = <<x>>
    BY <1>0, <1>2 DEF TreeCall
  <2>. HIDE DEF x
  <2>6. DependsTree(c, x, s, P)
    BY <2>3, <2>4 DEF DependsTree, TreeFor
  <2>7. <<x>> \in Seq(TreeCalls(s, P)) /\ ToSet(<<x>>) = {x}
    BY <2>3, Single
  <2>. QED
    BY <2>4, <2>5, <2>6, <2>7 DEF DependsTrees
<1>. QED
  BY <1>1, <1>2

LEMMA BuildTreeIs ==
  ASSUME NEW s, NEW P, NEW c \in PackageCalls(s, P), NEW clauses \in Clauses,
         NEW t, t = TreeCall(s, c.pkg, clauses, TRUE, FALSE, FALSE, FALSE)
  PROVE  BuildTrees(t, c, clauses, s, P)
<1>. DEFINE x == [op |-> "tree", seed |-> s, pkg |-> c.pkg, clauses |-> clauses, bd |-> TRUE,
                  second |-> TRUE, tree |-> TRUE, recs |-> FALSE, next |-> 0]
<1>1. CASE clauses = <<>>
  <2>1. t = <<>>
    BY <1>1 DEF TreeCall
  <2>2. ToSet(<<>>) = {} /\ <<>> \in Seq(TreeCalls(s, P)) /\ ToSet(clauses) = {}
    BY <1>1, ToSetProperties
  <2>. QED
    BY <2>1, <2>2 DEF BuildTrees
<1>2. CASE clauses # <<>>
  <2>1. clauses \in SomeClauses
    BY <1>2 DEF SomeClauses
  <2>2. c.pkg \in P
    BY PackageFields
  <2>3. x \in TreeCalls(s, P)
    BY <2>1, <2>2 DEF TreeCalls
  <2>4. /\ x.op = "tree" /\ x.seed = s /\ x.pkg = c.pkg /\ x.clauses = clauses /\ x.bd = TRUE
        /\ x.second = TRUE /\ x.tree = TRUE /\ x.next = 0
    OBVIOUS
  <2>5. t = <<x>>
    BY <1>2 DEF TreeCall
  <2>. HIDE DEF x
  <2>6. BuildTree(c, x, s, P)
    BY <2>3, <2>4 DEF BuildTree, TreeFor
  <2>7. <<x>> \in Seq(TreeCalls(s, P)) /\ ToSet(<<x>>) = {x}
    BY <2>3, Single
  <2>. QED
    BY <2>4, <2>5, <2>6, <2>7 DEF BuildTrees
<1>. QED
  BY <1>1, <1>2

LEMMA ClausesParts ==
  ASSUME NEW cl \in SomeClauses
  PROVE  /\ Len(cl) \in Nat \ {0} /\ DOMAIN cl = 1..Len(cl)
         /\ cl[1] \in ToSet(cl) /\ Len(cl[1]) \in Nat /\ DOMAIN cl[1] = 1..Len(cl[1])
         /\ Len(cl) = 1 => ToSet(cl) = {cl[1]}
         /\ Len(cl) # 1 => /\ Tail(cl) \in SomeClauses
                           /\ ToSet(cl) = {cl[1]} \cup ToSet(Tail(cl))
<1>. DEFINE D == Seq([name : STRING, rel : STRING, version : Nat])
<1>1. cl \in Seq(D) /\ cl # <<>>
  BY DEF SomeClauses, Clauses
<1>2. \A x \in D : Len(x) \in Nat /\ DOMAIN x = 1..Len(x)
  OBVIOUS
<1>3. \A y \in Seq(D) : y \in Clauses
  BY DEF Clauses
<1>. HIDE DEF D
<1>4. Len(cl) \in Nat \ {0} /\ DOMAIN cl = 1..Len(cl) /\ cl[1] \in D
  BY <1>1, EmptySeq
<1>5. ToSet(cl) = {cl[1]} \cup ToSet(Tail(cl))
  BY <1>1, ToSetTail
<1>6. PICK t \in Seq(D) : t = Tail(cl) /\ Len(t) = Len(cl) - 1
  BY <1>1, InnermostCall
<1>7. ASSUME Len(cl) = 1 PROVE ToSet(cl) = {cl[1]}
  <2>1. t = <<>>
    BY <1>6, <1>7, EmptySeq
  <2>. QED
    BY <1>5, <1>6, <2>1, ToSetProperties
<1>8. ASSUME Len(cl) # 1 PROVE Tail(cl) \in SomeClauses
  <2>1. Len(t) # 0
    BY <1>4, <1>6, <1>8
  <2>2. t # <<>>
    BY <2>1, EmptySeq
  <2>. QED
    BY <1>3, <1>6, <2>2 DEF SomeClauses
<1>9. cl[1] \in ToSet(cl)
  BY <1>5
<1>. QED
  BY <1>2, <1>4, <1>5, <1>7, <1>8, <1>9

(* What is left of a tree when its first clause is done.                   *)
Rest(xs, c, s, P) ==
  /\ xs \in Seq(TreeCalls(s, P))
  /\ \A i \in 1..Len(xs) : /\ SameTree(xs[i], c) /\ xs[i].next = 0
                           /\ ToSet(xs[i].clauses) \subseteq ToSet(c.clauses)
  /\ \A cl \in ToSet(c.clauses) :
       cl # c.clauses[1] => \E i \in 1..Len(xs) : cl \in ToSet(xs[i].clauses)

LEMMA NextClauseIs ==
  ASSUME NEW s, NEW P, NEW c \in TreeCalls(s, P)
  PROVE  Rest(NextClause(c), c, s, P)
<1>1. c.clauses \in SomeClauses
  BY TreeFields
<1>2. CASE Len(c.clauses) = 1
  <2>1. NextClause(c) = <<>> /\ ToSet(c.clauses) = {c.clauses[1]}
    BY <1>1, <1>2, ClausesParts DEF NextClause
  <2>. QED
    BY <2>1, EmptySeq DEF Rest
<1>3. CASE Len(c.clauses) # 1
  <2>. DEFINE cl == Tail(c.clauses)
  <2>1. cl \in SomeClauses /\ ToSet(c.clauses) = {c.clauses[1]} \cup ToSet(cl)
    BY <1>1, <1>3, ClausesParts
  <2>. HIDE DEF cl
  <2>2. PICK x \in TreeCalls(s, P) :
          x = ClausesAre(c, cl) /\ SameTree(x, c) /\ x.clauses = cl /\ x.next = 0
    BY <2>1, TreeMovesOn
  <2>3. NextClause(c) = <<x>>
    BY <1>3, <2>2 DEF NextClause, ClausesAre, cl
  <2>4. <<x>> \in Seq(TreeCalls(s, P)) /\ Len(<<x>>) = 1 /\ <<x>>[1] = x
    BY Single
  <2>5. \A i \in 1..Len(<<x>>) : i = 1
    BY <2>4
  <2>6. 1 \in 1..Len(<<x>>)
    BY <2>4
  <2>. QED
    BY <2>1, <2>2, <2>3, <2>4, <2>5, <2>6 DEF Rest
<1>. QED
  BY <1>2, <1>3

LEMMA RescueFields ==
  ASSUME NEW s, NEW P, NEW Q, NEW F, NEW c \in RescueCalls(s, P, Q, F)
  PROVE  /\ c.op \in {"rescue", "rescuing"} /\ c.seed = s /\ c.from \in F /\ c.tree \in BOOLEAN
         /\ c.srcs \subseteq Q /\ c.pkgs \subseteq P
  BY DEF RescueCalls

LEMMA RescueCallIs ==
  ASSUME NEW s, NEW P, NEW Q, NEW F, NEW from \in F, NEW tree \in BOOLEAN
  PROVE  \E x \in RescueCalls(s, P, Q, F) :
           x = RescueCall(s, from, tree) /\ x.op = "rescue" /\ x.seed = s /\ x.tree = tree
<1>. DEFINE x == RescueCall(s, from, tree)
<1>1. x \in RescueCalls(s, P, Q, F) /\ x.op = "rescue" /\ x.seed = s /\ x.tree = tree
  BY DEF RescueCalls, RescueCall
<1>. QED
  BY <1>1

RescuingIs(c, A) == [c EXCEPT !.op = "rescuing", !.srcs = A]
SourcesAre(c, A, B) == [c EXCEPT !.srcs = A, !.pkgs = B]

LEMMA RescueGoesOn ==
  ASSUME NEW s, NEW P, NEW Q, NEW F, NEW c \in RescueCalls(s, P, Q, F), NEW A \in SUBSET Q
  PROVE  \E x \in RescueCalls(s, P, Q, F) :
           /\ x = RescuingIs(c, A)
           /\ x.op = "rescuing" /\ x.seed = s /\ x.tree = c.tree
<1>. DEFINE x == RescuingIs(c, A)
<1>1. x \in RescueCalls(s, P, Q, F) /\ x.op = "rescuing" /\ x.seed = s /\ x.tree = c.tree
  BY DEF RescueCalls, RescuingIs
<1>. QED
  BY <1>1

LEMMA RescuingGoesOn ==
  ASSUME NEW s, NEW P, NEW Q, NEW F, NEW c \in RescueCalls(s, P, Q, F), c.op = "rescuing",
         NEW A \in SUBSET Q, NEW B \in SUBSET P
  PROVE  \E x \in RescueCalls(s, P, Q, F) :
           /\ x = SourcesAre(c, A, B)
           /\ x.op = "rescuing" /\ x.seed = s /\ x.tree = c.tree
<1>. DEFINE x == SourcesAre(c, A, B)
<1>1. x \in RescueCalls(s, P, Q, F) /\ x.op = "rescuing" /\ x.seed = s /\ x.tree = c.tree
  BY DEF RescueCalls, SourcesAre
<1>. QED
  BY <1>1

-----------------------------------------------------------------------------
(* The stack: one seed's text while planting; then calls for the seed that *)
(* is growing, for the one that is rescued to build with, or for extra,    *)
(* whose pass over the sources is at the bottom of it.                     *)
Growing == {"grow", "grown", "extras"}

Current ==
  CASE phase = "grow" -> seeds[grown] [] phase = "grown" -> supported [] OTHER -> Extra

CallSet == Calls(Current, DOMAIN packages, DOMAIN sources, ToSet(seeds) \cup {Extra}, phase)

Shape(st) ==
  \A i \in 1..Len(st) :
    /\ st[i].op = "pass" => i = Len(st)
    /\ st[i].op = "binaries" => i + 1 = Len(st) /\ st[i + 1].op = "pass"

IsText(x) == "op" \in DOMAIN x /\ x.op = "text"
Planting(st) == st = <<>> \/ \E x : IsText(x) /\ st = <<x>>

StackInv ==
  /\ phase \in Growing => stack \in Seq(CallSet) /\ Shape(stack)
  /\ phase = "grow" /\ stack # <<>> => grown # 0
  /\ phase = "plant" => Planting(stack)
  /\ phase \notin Growing \cup {"plant"} => stack = <<>>

(* What is seeded is in the archive, and so are the sources in use.        *)
ListsInv ==
  /\ \A s \in ToSet(seeds) : seed[s] \in Seq(DOMAIN packages)
                             /\ seedrecommends[s] \in Seq(DOMAIN packages)
  /\ all_srcs \subseteq DOMAIN sources
  /\ \A s \in ToSet(seeds) : /\ build_srcs[s] \subseteq all_srcs
                             /\ not_build_srcs[s] \subseteq all_srcs

LEMMA PlantingCall ==
  ASSUME NEW st, Planting(st), st # <<>>
  PROVE  /\ st[1].op = "text" /\ Head(st) = st[1] /\ Tail(st) = <<>>
<1>1. PICK x : IsText(x) /\ st = <<x>>
  BY DEF Planting
<1>. QED
  BY <1>1 DEF IsText

LEMMA HeadCall ==
  ASSUME StackInv, NEW op, Running(op), op # "text"
  PROVE  /\ phase \in Growing /\ stack # <<>> /\ stack \in Seq(CallSet) /\ Shape(stack)
         /\ call \in CallSet /\ call.op = op /\ stack[1] = call
<1>1. stack # <<>> /\ stack[1].op = op
  BY DEF Running
<1>2. phase \in Growing
  BY <1>1, PlantingCall DEF StackInv
<1>3. stack \in Seq(CallSet) /\ Shape(stack)
  BY <1>2 DEF StackInv
<1>4. PICK T : T = CallSet
  OBVIOUS
<1>5. Head(stack) = stack[1] /\ stack[1] \in T
  BY <1>1, <1>3, <1>4, InnermostCall
<1>. QED
  BY <1>1, <1>2, <1>3, <1>4, <1>5 DEF call

(* A seed and all it inherits from are planted, and inheritance closed.    *)
LEMMA InnerSeeds ==
  ASSUME ParseInv, PlantInv, SeedsInv, phase \in Early \cup Late, phase # "plant"
  PROVE  /\ seeds = names /\ Distinct(seeds) /\ supported \in ToSet(seeds)
         /\ "all" \notin ToSet(seeds)
         /\ \A s \in ToSet(seeds) : /\ s \in Inner(s) /\ Inner(s) = ToSet(inherit[s]) \cup {s}
                                    /\ Inner(s) \subseteq ToSet(seeds)
         /\ \A s \in ToSet(seeds) \ {Extra} :
              \E i \in 1..Len(seeds) : seeds[i] = s /\ \A t \in ToSet(inherit[s]) :
                 \E j \in 1 .. i - 1 : seeds[j] = t
         /\ \A s \in ToSet(seeds) \ {Extra} : \A t \in ToSet(inherit[s]) :
              t # s /\ t # Extra /\ Inner(t) \subseteq Inner(s)
<1>1. /\ names \in Seq(SeedName) /\ Distinct(names) /\ ToSet(names) \subseteq GivenSeeds \cup {Extra}
      /\ phase \in Early => Extra \notin ToSet(names)
      /\ \A i \in 1..Len(names) : names[i] # Extra => Expanded(i, names, inherit, AllAncestors)
      /\ phase \in Late => inherit[Extra] = names
  BY DEF PlantInv
<1>2. seeds = names /\ supported \in ToSet(seeds) /\ "all" \notin ToSet(seeds)
  BY SeedsPlanted
<1>3. ToSet(names) = {names[i] : i \in 1..Len(names)} /\ Len(names) \in Nat
  BY <1>1 DEF ToSet
<1>4. ASSUME NEW s \in ToSet(names) \ {Extra}
      PROVE  /\ inherit[s] \in Seq(STRING) /\ ToSet(inherit[s]) = AllAncestors[s]
             /\ \E i \in 1..Len(names) : names[i] = s /\ \A t \in ToSet(inherit[s]) :
                  \E j \in 1 .. i - 1 : names[j] = t
  <2>1. PICK i \in 1..Len(names) : names[i] = s
    BY <1>3
  <2>. QED
    BY <1>1, <2>1 DEF Expanded
<1>5. \A s \in ToSet(names) : inherit[s] \in Seq(SeedName)
  <2>1. \A s \in ToSet(names) \ {Extra} : inherit[s] \in Seq(SeedName)
    BY <1>4 DEF SeedName
  <2>2. Extra \in ToSet(names) => inherit[Extra] \in Seq(SeedName)
    BY <1>1 DEF Early, Late
  <2>. QED
    BY <2>1, <2>2
<1>6. ASSUME NEW s \in ToSet(names) PROVE Inner(s) = ToSet(inherit[s]) \cup {s}
  BY <1>5, ToSetAppend DEF Inner, innerSeeds
<1>7. ASSUME NEW s \in ToSet(names) PROVE ToSet(inherit[s]) \subseteq ToSet(names)
  <2>1. CASE s # Extra
    <3>0. s \in ToSet(names) \ {Extra}
      BY <2>1
    <3>1. PICK i \in 1..Len(names) : names[i] = s /\ \A t \in ToSet(inherit[s]) :
                  \E j \in 1 .. i - 1 : names[j] = t
      BY <1>4, <3>0
    <3>2. \A j \in 1 .. i - 1 : j \in 1..Len(names)
      BY <1>3
    <3>. QED
      BY <1>3, <3>1, <3>2
  <2>2. CASE s = Extra
    BY <1>1, <2>2 DEF Early, Late
  <2>. QED
    BY <2>1, <2>2
<1>8. ASSUME NEW s \in ToSet(names) \ {Extra}, NEW t \in ToSet(inherit[s])
      PROVE  t # s /\ t # Extra /\ Inner(t) \subseteq Inner(s)
  <2>1. phase \notin Parsing
    BY DEF Early, Late, Parsing
  <2>2. s \in GivenSeeds /\ AllAncestors[s] = Ancestors(s) /\ Ancestors(s) \subseteq GivenSeeds
        /\ Closed(Ancestors(s), GivenParents) /\ t \in Ancestors(s)
    BY <1>1, <1>4, <2>1, AncestorsProperties DEF AllAncestors
  <2>3. t \in GivenSeeds /\ AllAncestors[t] = Ancestors(t)
    BY <2>2 DEF AllAncestors
  <2>4. t # Extra
    BY <2>1, <2>3, AllAncestorsProperties DEF Extra
  <2>5. Ancestors(t) \subseteq Ancestors(s)
    <3>1. IsFiniteSet(GivenSeeds) /\ GivenParents \in [GivenSeeds -> SUBSET GivenSeeds]
      BY <2>1, GivenTyped
    <3>2. GivenParents[t] \subseteq Ancestors(s) /\ GivenParents[t] \in SUBSET GivenSeeds
      BY <2>2, <2>3, <3>1 DEF Closed
    <3>3. Reached(GivenParents[t], GivenParents) \subseteq Ancestors(s)
      BY <2>2, <3>1, <3>2, ReachedLeast
    <3>. QED
      BY <3>3 DEF Ancestors
  <2>6. t \in ToSet(names) /\ ToSet(inherit[t]) = Ancestors(t) /\ ToSet(inherit[s]) = Ancestors(s)
    BY <1>4, <1>7, <2>2, <2>3, <2>4
  <2>7. t # s
    <3>1. PICK i \in 1..Len(names) : names[i] = s /\ \A u \in ToSet(inherit[s]) :
                  \E j \in 1 .. i - 1 : names[j] = u
      BY <1>4
    <3>2. PICK j \in 1 .. i - 1 : names[j] = t
      BY <3>1
    <3>3. j \in 1..Len(names) /\ j # i
      BY <1>3, <3>1, <3>2
    <3>4. DOMAIN names = 1..Len(names)
      BY <1>1
    <3>. QED
      BY <1>1, <3>1, <3>2, <3>3, <3>4 DEF Distinct
  <2>. QED
    BY <1>6, <2>2, <2>4, <2>5, <2>6, <2>7
<1>9. \A s \in ToSet(names) : /\ s \in Inner(s) /\ Inner(s) = ToSet(inherit[s]) \cup {s}
                             /\ Inner(s) \subseteq ToSet(names)
  BY <1>6, <1>7
<1>10. \A s \in ToSet(names) \ {Extra} :
         \E i \in 1..Len(names) : names[i] = s /\ \A t \in ToSet(inherit[s]) :
            \E j \in 1 .. i - 1 : names[j] = t
  BY <1>4
<1>11. \A s \in ToSet(names) \ {Extra} : \A t \in ToSet(inherit[s]) :
         t # s /\ t # Extra /\ Inner(t) \subseteq Inner(s)
  BY <1>8
<1>. QED
  BY <1>1, <1>2, <1>9, <1>10, <1>11

-----------------------------------------------------------------------------
(* What a step puts in the place of the call that is running.              *)
LEMMA PushKeepsShape ==
  ASSUME NEW C, NEW st \in Seq(C), Shape(st), st # <<>>, NEW calls \in Seq(C),
         \A x \in ToSet(calls) : x.op \notin {"pass", "binaries"}, NEW r, r = calls \o Tail(st)
  PROVE  r \in Seq(C) /\ Shape(r)
<1>1. /\ r \in Seq(C) /\ Len(r) = Len(calls) + Len(st) - 1
      /\ Len(st) \in Nat \ {0} /\ Len(calls) \in Nat /\ Len(r) \in Nat
      /\ \A i \in 1..Len(calls) : i \in 1..Len(r) /\ r[i] = calls[i]
      /\ \A i \in Len(calls) + 1 .. Len(r) :
           i - Len(calls) + 1 \in 2..Len(st) /\ r[i] = st[i - Len(calls) + 1]
      /\ \A i \in 2..Len(st) :
           i + Len(calls) - 1 \in Len(calls) + 1 .. Len(r) /\ r[i + Len(calls) - 1] = st[i]
  BY Replaced
<1>2. \A i \in 1..Len(calls) : calls[i].op \notin {"pass", "binaries"}
  BY DEF ToSet
<1>3. ASSUME NEW i \in 1..Len(r)
      PROVE  /\ r[i].op = "pass" => i = Len(r)
             /\ r[i].op = "binaries" => i + 1 = Len(r) /\ r[i + 1].op = "pass"
  <2>1. CASE i \in 1..Len(calls)
    BY <1>1, <1>2, <2>1
  <2>2. CASE i \in Len(calls) + 1 .. Len(r)
    <3>. DEFINE j == i - Len(calls) + 1
    <3>1. j \in 1..Len(st) /\ r[i] = st[j] /\ j \in Nat /\ j = i - Len(calls) + 1
      BY <1>1, <2>2
    <3>. HIDE DEF j
    <3>2. st[j].op = "pass" => j = Len(st)
      BY <3>1 DEF Shape
    <3>3. st[j].op = "binaries" => j + 1 = Len(st) /\ st[j + 1].op = "pass"
      BY <3>1 DEF Shape
    <3>4. j + 1 = Len(st) => i + 1 = Len(r) /\ i + 1 \in Len(calls) + 1 .. Len(r)
                             /\ (i + 1) - Len(calls) + 1 = j + 1
      BY <1>1, <2>2, <3>1
    <3>5. j + 1 = Len(st) => r[i + 1] = st[j + 1]
      BY <1>1, <3>4
    <3>6. j = Len(st) => i = Len(r)
      BY <1>1, <2>2, <3>1
    <3>. QED
      BY <3>1, <3>2, <3>3, <3>4, <3>5, <3>6
  <2>3. i \in 1..Len(calls) \/ i \in Len(calls) + 1 .. Len(r)
    BY <1>1
  <2>. QED
    BY <2>1, <2>2, <2>3
<1>. QED
  BY <1>1, <1>3 DEF Shape

(* As sets: what was in progress still is, but for the call that ran.      *)
LEMMA PushedSets ==
  ASSUME NEW C, NEW st \in Seq(C), st # <<>>, NEW calls \in Seq(C), NEW r, r = calls \o Tail(st)
  PROVE  /\ ToSet(calls) \subseteq ToSet(r) /\ ToSet(r) \subseteq ToSet(calls) \cup ToSet(st)
         /\ ToSet(st) \subseteq ToSet(r) \cup {st[1]}
<1>1. PICK t \in Seq(C) : t = Tail(st)
  BY InnermostCall
<1>2. ToSet(st) = {st[1]} \cup ToSet(t)
  BY <1>1, ToSetTail
<1>3. ToSet(calls \o t) = ToSet(calls) \cup ToSet(t)
  BY ToSetConcat
<1>. QED
  BY <1>1, <1>2, <1>3

(* The clauses that _addPackage looks at.                                  *)
ClausesOf(s, p) ==
  packages[p].depends \o (IF followRecommends(s) \/ packages[p].metapackage
                          THEN packages[p].recommends ELSE <<>>)

LEMMA AddPackageIs ==
  ASSUME ArchiveInv, StackInv, addPackage
  PROVE  /\ call \in PackageCalls(Current, DOMAIN packages)
         /\ \E calls \in Seq(CallSet) :
              /\ stack' = calls \o Tail(stack)
              /\ \A x \in ToSet(calls) :
                   /\ x.op \in {"tree", "source"}
                   /\ x.seed = call.seed /\ x.pkg = call.pkg /\ x.tree = call.tree
                   /\ x.op = "tree" =>
                        /\ x.bd = FALSE /\ x.next = 0
                        /\ ToSet(x.clauses) \subseteq ToSet(ClausesOf(call.seed, call.pkg))
              /\ \A cl \in ToSet(ClausesOf(call.seed, call.pkg)) :
                   \E x \in ToSet(calls) : x.op = "tree" /\ cl \in ToSet(x.clauses)
<1>. DEFINE c == call
            s == Current
            P == DOMAIN packages
            rec == IF followRecommends(c.seed) \/ packages[c.pkg].metapackage
                   THEN packages[c.pkg].recommends ELSE <<>>
<1>1. c \in CallSet /\ c.op = "package" /\ Running("package")
  BY HeadCall DEF addPackage
<1>2. c \in PackageCalls(s, P) /\ Mode(c, phase)
  BY <1>1, CallKinds DEF CallSet
<1>3. c.seed = s /\ c.pkg \in P /\ c.second \in BOOLEAN /\ c.tree \in BOOLEAN
  BY <1>2, PackageFields
<1>4. /\ packages[c.pkg].depends \in Clauses /\ packages[c.pkg].recommends \in Clauses
      /\ <<>> \in Clauses
  BY <1>3, Sections, EmptySeq DEF ArchiveInv, Clauses
<1>5. rec \in Clauses
  BY <1>4
<1>6. ClausesOf(c.seed, c.pkg) = packages[c.pkg].depends \o rec
  BY DEF ClausesOf
<1>7. ToSet(ClausesOf(c.seed, c.pkg)) = ToSet(packages[c.pkg].depends) \cup ToSet(rec)
  <2>. HIDE DEF rec
  <2>. QED
    BY <1>4, <1>5, <1>6, ToSetConcat DEF Clauses
<1>8. stack' = (TreeCall(c.seed, c.pkg, packages[c.pkg].depends, FALSE, c.second, c.tree, FALSE)
                \o (IF followRecommends(c.seed) \/ packages[c.pkg].metapackage
                    THEN TreeCall(c.seed, c.pkg, packages[c.pkg].recommends, FALSE, c.second,
                                  c.tree, TRUE)
                    ELSE <<>>)
                \o <<[c EXCEPT !.op = "source"]>>) \o Tail(stack)
  BY DEF addPackage, Calling
<1>9. TreeCall(c.seed, c.pkg, <<>>, FALSE, c.second, c.tree, TRUE) = <<>>
  BY DEF TreeCall
<1>. DEFINE a == TreeCall(s, c.pkg, packages[c.pkg].depends, FALSE, c.second, c.tree, FALSE)
            b == TreeCall(s, c.pkg, rec, FALSE, c.second, c.tree, TRUE)
<1>10. stack' = (a \o b \o <<[c EXCEPT !.op = "source"]>>) \o Tail(stack)
  BY <1>3, <1>8, <1>9
<1>11. a \in DependsCalls(c, packages[c.pkg].depends, s)
  BY DEF DependsCalls
<1>12. b \in DependsCalls(c, rec, s)
  BY DEF DependsCalls
<1>. HIDE DEF c, rec, a, b, s, P
<1>13. /\ a \in Seq(TreeCalls(s, P))
       /\ \A x \in ToSet(a) : DependsTree(c, x, s, P) /\ x.clauses = packages[c.pkg].depends
       /\ \A cl \in ToSet(packages[c.pkg].depends) : \E x \in ToSet(a) : cl \in ToSet(x.clauses)
  BY <1>2, <1>4, <1>11, DependsTreeIs DEF DependsTrees
<1>14. /\ b \in Seq(TreeCalls(s, P))
       /\ \A x \in ToSet(b) : DependsTree(c, x, s, P) /\ x.clauses = rec
       /\ \A cl \in ToSet(rec) : \E x \in ToSet(b) : cl \in ToSet(x.clauses)
  BY <1>2, <1>5, <1>12, DependsTreeIs DEF DependsTrees
<1>15. PICK y \in PackageCalls(s, P) :
              /\ y = [c EXCEPT !.op = "source"] /\ y.op = "source" /\ y.seed = s /\ y.pkg = c.pkg
              /\ y.second = c.second /\ y.tree = c.tree
  BY <1>2, PackageFields
<1>16. Mode(y, phase)
  BY <1>1, <1>2, <1>15 DEF Mode
<1>17. y \in CallSet
  BY <1>15, <1>16 DEF CallSet, Calls, s, P
<1>18. ASSUME NEW x, DependsTree(c, x, s, P)
       PROVE  /\ x \in CallSet /\ x.op = "tree" /\ x.seed = s /\ x.pkg = c.pkg /\ x.tree = c.tree
              /\ x.bd = FALSE /\ x.next = 0
  <2>1. /\ x \in TreeCalls(s, P) /\ x.op = "tree" /\ x.seed = s /\ x.pkg = c.pkg /\ x.bd = FALSE /\ x.next = 0
        /\ x.second = (c.second \/ c.tree) /\ x.tree = c.tree
    BY <1>18 DEF DependsTree, TreeFor
  <2>2. Mode(x, phase)
    BY <1>1, <1>2, <1>3, <2>1 DEF Mode
  <2>. QED
    BY <2>1, <2>2 DEF CallSet, Calls, s, P
<1>. DEFINE C == CallSet
<1>. HIDE DEF C
<1>19. a \in Seq(C) /\ b \in Seq(C) /\ <<y>> \in Seq(C) /\ ToSet(<<y>>) = {y}
  <2>1. ToSet(a) \subseteq C /\ ToSet(b) \subseteq C /\ y \in C
    BY <1>13, <1>14, <1>17, <1>18 DEF C
  <2>2. a \in Seq(ToSet(a)) /\ b \in Seq(ToSet(b))
    BY <1>13, <1>14, ToSetProperties
  <2>. QED
    BY <2>1, <2>2, SeqOfMore, Single
<1>20. (a \o b) \in Seq(C) /\ ToSet(a \o b) = ToSet(a) \cup ToSet(b)
  BY <1>19, ConcatProperties, ToSetConcat
<1>. DEFINE ab == a \o b
            last == <<y>>
            calls == ab \o last
<1>. HIDE DEF ab, last
<1>21. calls \in Seq(C) /\ ToSet(calls) = ToSet(ab) \cup {y}
  <2>1. ab \in Seq(C)
    BY <1>20 DEF ab
  <2>2. last \in Seq(C) /\ ToSet(last) = {y}
    BY <1>19 DEF last
  <2>. QED
    BY <2>1, <2>2, ConcatProperties, ToSetConcat
<1>22. stack' = calls \o Tail(stack)
  BY <1>10, <1>15 DEF ab, last
<1>. HIDE DEF calls
<1>23. ToSet(calls) = ToSet(a) \cup ToSet(b) \cup {y}
  BY <1>20, <1>21 DEF ab
<1>24. ASSUME NEW x \in ToSet(calls)
       PROVE  /\ x.op \in {"tree", "source"} /\ x.seed = c.seed /\ x.pkg = c.pkg /\ x.tree = c.tree
              /\ x.op = "tree" => /\ x.bd = FALSE /\ x.next = 0
                                  /\ ToSet(x.clauses) \subseteq ToSet(ClausesOf(c.seed, c.pkg))
  <2>1. CASE x \in ToSet(a) \cup ToSet(b)
    <3>1. DependsTree(c, x, s, P)
      BY <1>13, <1>14, <2>1
    <3>2. ToSet(x.clauses) \subseteq ToSet(ClausesOf(c.seed, c.pkg))
      BY <1>7, <1>13, <1>14, <2>1
    <3>. QED
      BY <1>3, <1>18, <3>1, <3>2
  <2>2. CASE x = y
    BY <1>3, <1>15, <2>2
  <2>. QED
    BY <1>23, <2>1, <2>2
<1>25. ASSUME NEW cl \in ToSet(ClausesOf(c.seed, c.pkg))
       PROVE  \E x \in ToSet(calls) : x.op = "tree" /\ cl \in ToSet(x.clauses)
  <2>1. PICK x \in ToSet(a) \cup ToSet(b) : cl \in ToSet(x.clauses)
    BY <1>7, <1>13, <1>14
  <2>2. DependsTree(c, x, s, P)
    BY <1>13, <1>14, <2>1
  <2>. QED
    BY <1>18, <1>23, <2>1, <2>2
<1>. QED
  BY <1>2, <1>21, <1>22, <1>24, <1>25 DEF c, C, s, P

(* What addSource asks first.                                              *)
SourceIsHad(c) ==
  \/ packages[c.pkg].source \notin DOMAIN sources
  \/ \E s \in Inner(c.seed) :
       packages[c.pkg].source \in (IF c.second \/ c.tree THEN build_srcs ELSE not_build_srcs)[s]

LEMMA AddSourceIs ==
  ASSUME ArchiveInv, StackInv, addSource
  PROVE  /\ call \in PackageCalls(Current, DOMAIN packages) /\ call.op = "source"
         /\ \E calls \in Seq(CallSet) :
              /\ stack' = calls \o Tail(stack)
              /\ \A x \in ToSet(calls) :
                   /\ BuildTree(call, x, Current, DOMAIN packages) /\ ~SourceIsHad(call)
                   /\ x.clauses = sources[packages[call.pkg].source].builddeps
              /\ ~SourceIsHad(call) =>
                   \A cl \in ToSet(sources[packages[call.pkg].source].builddeps) :
                     \E x \in ToSet(calls) : cl \in ToSet(x.clauses)
<1>. DEFINE c == call
            s == Current
            P == DOMAIN packages
            src == packages[c.pkg].source
<1>1. c \in CallSet /\ c.op = "source" /\ Running("source")
  BY HeadCall DEF addSource
<1>2. c \in PackageCalls(s, P) /\ Mode(c, phase)
  BY <1>1, CallKinds DEF CallSet
<1>3. c.seed = s /\ c.pkg \in P
  BY <1>2, PackageFields
<1>4. CASE SourceIsHad(c)
  <2>1. stack' = Tail(stack)
    BY <1>4 DEF SourceIsHad, addSource, Return
  <2>2. <<>> \in Seq(CallSet) /\ ToSet(<<>>) = {} /\ stack' = <<>> \o Tail(stack)
    <3>1. PICK t \in Seq(CallSet) : t = Tail(stack)
      BY HeadCall, InnermostCall DEF addSource
    <3>. QED
      BY <2>1, <3>1, ToSetProperties
  <2>. QED
    BY <1>1, <1>2, <1>4, <2>2
<1>5. CASE ~SourceIsHad(c)
  <2>1. src \in DOMAIN sources /\ stack' = SourceTree(c, src) \o Tail(stack)
    BY <1>5 DEF SourceIsHad, addSource, Calling
  <2>2. sources[src].builddeps \in Clauses
    BY <2>1, Sections DEF ArchiveInv
  <2>. DEFINE cls == sources[src].builddeps
              t == SourceTree(c, src)
  <2>3. t = TreeCall(s, c.pkg, cls, TRUE, FALSE, FALSE, FALSE)
    BY <1>3 DEF SourceTree
  <2>. HIDE DEF t, cls, c, s, P
  <2>4. BuildTrees(t, c, cls, s, P)
    BY <1>2, <2>2, <2>3, BuildTreeIs DEF cls
  <2>5. ASSUME NEW x, BuildTree(c, x, s, P) PROVE x \in CallSet
    <3>1. /\ x \in TreeCalls(s, P) /\ x.op = "tree" /\ x.bd = TRUE /\ x.second = TRUE
          /\ x.tree = TRUE
      BY <2>5 DEF BuildTree, TreeFor
    <3>2. Mode(x, phase)
      BY <3>1 DEF Mode
    <3>. QED
      BY <3>1, <3>2 DEF CallSet, Calls, s, P
  <2>6. t \in Seq(CallSet)
    <3>1. ToSet(t) \subseteq CallSet /\ t \in Seq(ToSet(t))
      BY <2>4, <2>5, ToSetProperties DEF BuildTrees
    <3>. QED
      BY <3>1, SeqOfMore
  <2>. QED
    BY <1>1, <1>2, <1>5, <2>1, <2>4, <2>6 DEF BuildTrees, t, cls, c, s, P
<1>. QED
  BY <1>4, <1>5

-----------------------------------------------------------------------------
(* What may satisfy a dependency: packages that are allowed, and those the *)
(* other question finds are among those that this one finds.               *)
LEMMA SatisfyingTyped ==
  ASSUME ArchiveInv, NEW c, NEW dep
  PROVE  /\ RealFirst(c, dep) \in Seq(DOMAIN packages)
         /\ VirtualFirst(c, dep) \in Seq(DOMAIN packages)
         /\ Chosen(c, dep) \in Seq(DOMAIN packages)
         /\ ToSet(Chosen(c, dep)) \subseteq ToSet(RealFirst(c, dep))
         /\ ToSet(RealFirst(c, dep)) \subseteq ToSet(VirtualFirst(c, dep))
         /\ \A p \in ToSet(VirtualFirst(c, dep)) : allowedDependency(c, p)
<1>. DEFINE P == DOMAIN packages
<1>1. ASSUME AsReal(c, dep)
      PROVE  /\ dep.name \in P /\ <<dep.name>> \in Seq(P) /\ ToSet(<<dep.name>>) = {dep.name}
             /\ allowedDependency(c, dep.name)
  <2>1. dep.name \in P /\ allowedDependency(c, dep.name)
    BY <1>1 DEF AsReal, checkVersionedDependency
  <2>. QED
    BY <2>1, Single
<1>2. ASSUME AsVirtual(c, dep)
      PROVE  /\ Providers(c, dep) \in Seq(P)
             /\ \A p \in ToSet(Providers(c, dep)) : allowedDependency(c, p)
             /\ AsReal(c, dep) => dep.name \in ToSet(Providers(c, dep))
  <2>. DEFINE who == provides[dep.name]
  <2>1. dep.name \in DOMAIN provides
    BY <1>2 DEF AsVirtual
  <2>2. who \in Seq(P) /\ (dep.name \in P => dep.name \in ToSet(who))
    <3>1. /\ provides \in UNION {[D -> Seq(P)] : D \in SUBSET STRING}
          /\ \A v \in DOMAIN provides \cap P : v \in ToSet(provides[v])
      BY DEF ArchiveInv, ProvidersOf
    <3>. QED
      BY <2>1, <3>1
  <2>. DEFINE fit == {p \in ToSet(who) : allowedDependency(c, p)}
  <2>3. Providers(c, dep) = Keep(who, fit)
    BY DEF Providers
  <2>4. \A p \in fit : allowedDependency(c, p)
    OBVIOUS
  <2>5. AsReal(c, dep) => dep.name \in fit
    BY <1>1, <2>2
  <2>. HIDE DEF who, fit
  <2>6. Keep(who, fit) \in Seq(P) /\ ToSet(Keep(who, fit)) = ToSet(who) \cap fit
    BY <2>2, KeepProperties
  <2>. QED
    BY <1>1, <2>2, <2>3, <2>4, <2>5, <2>6
<1>. HIDE DEF P
<1>3. <<>> \in Seq(P) /\ ToSet(<<>>) = {}
  BY ToSetProperties
<1>. DEFINE one == <<dep.name>>
            found == RealFirst(c, dep)
<1>4. /\ AsReal(c, dep) => found = one
      /\ ~AsReal(c, dep) /\ AsVirtual(c, dep) => found = Providers(c, dep)
      /\ ~AsReal(c, dep) /\ ~AsVirtual(c, dep) => found = <<>>
      /\ AsVirtual(c, dep) => VirtualFirst(c, dep) = Providers(c, dep)
      /\ ~AsVirtual(c, dep) /\ AsReal(c, dep) => VirtualFirst(c, dep) = one
      /\ ~AsVirtual(c, dep) /\ ~AsReal(c, dep) => VirtualFirst(c, dep) = <<>>
  BY DEF RealFirst, VirtualFirst
<1>5. AsReal(c, dep) => one \in Seq(P) /\ ToSet(one) = {dep.name}
  BY <1>1
<1>. HIDE DEF one
<1>6. found \in Seq(P) /\ VirtualFirst(c, dep) \in Seq(P)
  BY <1>2, <1>3, <1>4, <1>5
<1>7. ToSet(found) \subseteq ToSet(VirtualFirst(c, dep))
  BY <1>2, <1>3, <1>4, <1>5
<1>8. \A p \in ToSet(VirtualFirst(c, dep)) : allowedDependency(c, p)
  BY <1>1, <1>2, <1>3, <1>4, <1>5
<1>9. Chosen(c, dep) \in Seq(P) /\ ToSet(Chosen(c, dep)) \subseteq ToSet(found)
  <2>. DEFINE kernels == options[c.seed].kernels
              fit == {p \in ToSet(found) : kernels = {} \/ packages[p].kernel \in kernels}
  <2>1. Chosen(c, dep) \in {found, <<found[1]>>, Keep(found, fit)}
        /\ (Chosen(c, dep) = found \/ found # <<>>)
    BY DEF Chosen
  <2>. HIDE DEF fit, found
  <2>2. Keep(found, fit) \in Seq(P) /\ ToSet(Keep(found, fit)) \subseteq ToSet(found)
    BY <1>6, KeepProperties DEF found
  <2>3. found # <<>> => <<found[1]>> \in Seq(P) /\ ToSet(<<found[1]>>) \subseteq ToSet(found)
    <3>1. found # <<>> => found[1] \in P /\ found[1] \in ToSet(found)
      BY <1>6, ToSetTail DEF found
    <3>. QED
      BY <3>1, ToSetProperties
  <2>. QED
    BY <1>6, <2>1, <2>2, <2>3 DEF found
<1>. QED
  BY <1>6, <1>7, <1>8, <1>9 DEF P, found

-----------------------------------------------------------------------------
(* The next alternative, or what is left of the tree after the last one.   *)
OneFurther(xs, c, s, P) ==
  \E x \in TreeCalls(s, P) :
    /\ xs = <<x>> /\ SameTree(x, c) /\ x.clauses = c.clauses /\ x.next = c.next + 1
    /\ c.next # 2 * Alternatives(c)

LEMMA NextAlternativeIs ==
  ASSUME NEW s, NEW P, NEW c \in TreeCalls(s, P)
  PROVE  /\ c.next = 2 * Alternatives(c) => Rest(NextAlternative(c), c, s, P)
         /\ c.next # 2 * Alternatives(c) => OneFurther(NextAlternative(c), c, s, P)
<1>1. ASSUME c.next # 2 * Alternatives(c) PROVE OneFurther(NextAlternative(c), c, s, P)
  <2>. DEFINE n == c.next + 1
  <2>1. n \in Nat
    BY TreeFields
  <2>. HIDE DEF n
  <2>2. PICK x \in TreeCalls(s, P) :
          x = NextIs(c, n) /\ SameTree(x, c) /\ x.clauses = c.clauses /\ x.next = n
    BY <2>1, TreeGoesOn
  <2>3. NextAlternative(c) = <<x>>
    BY <1>1, <2>2 DEF NextAlternative, NextIs, n
  <2>. QED
    BY <1>1, <2>2, <2>3 DEF OneFurther, n
<1>. QED
  BY <1>1, NextClauseIs DEF NextAlternative

(* The calls that the tree's packages are added by.                        *)
PackagesOf(pk, c, W, s, P) ==
  /\ pk \in Seq(PackageCalls(s, P))
  /\ \A x \in ToSet(pk) : /\ x.op = "package" /\ x.seed = s /\ x.pkg \in W
                          /\ x.second = c.tree /\ x.tree = c.second
  /\ \A p \in W : \E x \in ToSet(pk) : x.pkg = p

LEMMA PackagesAre ==
  ASSUME NEW s, NEW P, NEW c \in TreeCalls(s, P), NEW white \in Seq(P)
  PROVE  PackagesOf([i \in DOMAIN white |-> PackageCall(s, white[i], c.tree, c.second, c.recs)],
                    c, ToSet(white), s, P)
<1>. DEFINE pk == [i \in DOMAIN white |-> PackageCall(s, white[i], c.tree, c.second, c.recs)]
            L == Len(white)
            T == PackageCalls(s, P)
<1>1. L \in Nat /\ DOMAIN white = 1..L /\ \A i \in 1..L : white[i] \in P
  OBVIOUS
<1>2. c.tree \in BOOLEAN /\ c.second \in BOOLEAN /\ c.recs \in BOOLEAN
  BY TreeFields
<1>3. ASSUME NEW i \in 1..L
      PROVE  /\ pk[i] \in T /\ pk[i].op = "package" /\ pk[i].seed = s /\ pk[i].pkg = white[i]
             /\ pk[i].second = c.tree /\ pk[i].tree = c.second
  BY <1>1, <1>2 DEF PackageCall, PackageCalls
<1>4. pk = [i \in 1..L |-> pk[i]]
  BY <1>1
<1>5. DOMAIN pk = 1..L
  BY <1>1
<1>6. ToSet(white) = {white[i] : i \in 1..L}
  BY <1>1 DEF ToSet
<1>. HIDE DEF pk, L, T
<1>7. pk \in [1..L -> T]
  BY <1>3, <1>4
<1>8. pk \in Seq(T)
  BY <1>1, <1>7
<1>9. ToSet(pk) = {pk[i] : i \in 1..L}
  BY <1>5 DEF ToSet
<1>10. \A x \in ToSet(pk) : /\ x.op = "package" /\ x.seed = s /\ x.pkg \in ToSet(white)
                            /\ x.second = c.tree /\ x.tree = c.second
  BY <1>3, <1>6, <1>9
<1>11. \A p \in ToSet(white) : \E x \in ToSet(pk) : x.pkg = p
  BY <1>3, <1>6, <1>9
<1>12. PackagesOf(pk, c, ToSet(white), s, P)
  BY <1>8, <1>10, <1>11 DEF PackagesOf, T
<1>. QED
  BY <1>12 DEF pk

(* _addDependency: nothing that is white, or a call for each that is, then *)
(* what is left of the tree.                                               *)
White(c, pkgs) == {p \in ToSet(pkgs) : Admits(c.seed, c.tree, p)}

DependsGrow(c, W) ==
  IF c.tree THEN /\ build_depends' = [build_depends EXCEPT ![c.seed] = @ \cup W]
                 /\ UNCHANGED depends
            ELSE /\ depends' = [depends EXCEPT ![c.seed] = @ \cup W]
                 /\ UNCHANGED build_depends

Adding(c, W, s, P) ==
  \E pk, rest : /\ stack' = (pk \o rest) \o Tail(stack)
                /\ PackagesOf(pk, c, W, s, P) /\ Rest(rest, c, s, P)

LEMMA AddDependencyIs ==
  ASSUME NEW s, NEW P, NEW c \in TreeCalls(s, P), NEW pkgs \in Seq(P), addDependency(c, pkgs)
  PROVE  \/ /\ White(c, pkgs) = {} /\ stack' = NextAlternative(c) \o Tail(stack)
            /\ UNCHANGED dependVars
         \/ /\ White(c, pkgs) # {} /\ DependsGrow(c, White(c, pkgs))
            /\ Adding(c, White(c, pkgs), s, P)
<1>. DEFINE fit == White(c, pkgs)
            white == Keep(pkgs, fit)
<1>1. /\ white = <<>> => /\ stack' = NextAlternative(c) \o Tail(stack)
                         /\ UNCHANGED dependVars
      /\ white # <<>> =>
           /\ DependsGrow(c, ToSet(white))
           /\ stack' = ([i \in DOMAIN white |->
                           PackageCall(c.seed, white[i], c.tree, c.second, c.recs)]
                        \o NextClause(c)) \o Tail(stack)
  BY DEF addDependency, DependsGrow, Calling, White
<1>2. c.seed = s
  BY TreeFields
<1>3. fit \subseteq ToSet(pkgs)
  BY DEF White
<1>. HIDE DEF fit
<1>4. white \in Seq(P) /\ ToSet(white) = fit
  <2>1. Keep(pkgs, fit) \in Seq(P) /\ ToSet(Keep(pkgs, fit)) = ToSet(pkgs) \cap fit
    BY KeepProperties
  <2>. QED
    BY <1>3, <2>1
<1>. HIDE DEF white
<1>5. CASE white = <<>>
  <2>1. fit = {}
    BY <1>4, <1>5, ToSetProperties
  <2>. QED
    BY <1>1, <1>5, <2>1 DEF fit
<1>6. CASE white # <<>>
  <2>1. fit # {}
    <3>1. ToSet(white) = {white[1]} \cup ToSet(Tail(white))
      BY <1>4, <1>6, ToSetTail
    <3>. QED
      BY <1>4, <3>1
  <2>. DEFINE pk == [i \in DOMAIN white |-> PackageCall(s, white[i], c.tree, c.second, c.recs)]
  <2>2. PackagesOf(pk, c, ToSet(white), s, P)
    BY <1>4, PackagesAre
  <2>3. Rest(NextClause(c), c, s, P)
    BY NextClauseIs
  <2>4. stack' = (pk \o NextClause(c)) \o Tail(stack)
    BY <1>1, <1>2, <1>6
  <2>. HIDE DEF pk
  <2>5. Adding(c, fit, s, P)
    BY <1>4, <2>2, <2>3, <2>4 DEF Adding
  <2>6. DependsGrow(c, fit)
    BY <1>1, <1>4, <1>6
  <2>. QED
    BY <2>1, <2>5, <2>6 DEF fit
<1>. QED
  BY <1>5, <1>6

-----------------------------------------------------------------------------
(* Every step of a call puts calls of the same seed in its place.          *)
Plain == {"package", "source", "tree", "rescue", "rescuing"}

Unsatisfied(c) == \A i \in 1..Alternatives(c) : ~alreadySatisfied(c, c.clauses[1][i])

Pushed(calls) ==
  /\ \A x \in ToSet(calls) : x.op \in Plain
  /\ \/ phase = "extras"
     \/ \A x \in ToSet(calls) : x.tree = call.tree
     \/ \A x \in ToSet(calls) : x.tree = TRUE
  /\ \/ \A x \in ToSet(calls) : x.op = "tree" => x.next = 0
     \/ /\ call.op = "tree" /\ OneFurther(calls, call, Current, DOMAIN packages)
        /\ call.next = 0 => Unsatisfied(call)
  /\ call.op # "package" => \A x \in ToSet(calls) : x.op # "source"

Pushes == \E calls \in Seq(CallSet) : stack' = calls \o Tail(stack) /\ Pushed(calls)

LEMMA TreeCallsFit ==
  ASSUME NEW c \in CallSet, c.op = "tree", NEW xs,
         \/ Rest(xs, c, Current, DOMAIN packages)
         \/ OneFurther(xs, c, Current, DOMAIN packages)
  PROVE  /\ xs \in Seq(CallSet) /\ \A x \in ToSet(xs) : SameTree(x, c)
         /\ Rest(xs, c, Current, DOMAIN packages) => \A x \in ToSet(xs) : x.next = 0
<1>. DEFINE T == TreeCalls(Current, DOMAIN packages)
<1>1. Mode(c, phase)
  BY CallKinds DEF CallSet
<1>2. xs \in Seq(T) /\ \A x \in ToSet(xs) : SameTree(x, c)
  <2>1. CASE Rest(xs, c, Current, DOMAIN packages)
    BY <2>1 DEF Rest, ToSet
  <2>2. CASE OneFurther(xs, c, Current, DOMAIN packages)
    <3>1. PICK x \in T : xs = <<x>> /\ SameTree(x, c)
      BY <2>2 DEF OneFurther
    <3>. HIDE DEF T
    <3>2. <<x>> \in Seq(T) /\ ToSet(<<x>>) = {x}
      BY Single
    <3>. QED
      BY <3>1, <3>2 DEF T
  <2>. QED
    BY <2>1, <2>2
<1>3. ASSUME NEW x \in ToSet(xs) PROVE x \in CallSet
  <2>1. x \in T /\ SameTree(x, c)
    BY <1>2, ToSetProperties
  <2>2. Mode(x, phase)
    BY <1>1, <2>1 DEF Mode, SameTree
  <2>. QED
    BY <2>1, <2>2 DEF CallSet, Calls
<1>4. xs \in Seq(ToSet(xs)) /\ ToSet(xs) \subseteq CallSet
  BY <1>2, <1>3, ToSetProperties
<1>5. Rest(xs, c, Current, DOMAIN packages) => \A x \in ToSet(xs) : x.next = 0
  BY DEF Rest, ToSet
<1>. QED
  BY <1>2, <1>4, <1>5, SeqOfMore

LEMMA PackageCallsFit ==
  ASSUME NEW c \in CallSet, c.op = "tree", NEW pk, NEW W,
         PackagesOf(pk, c, W, Current, DOMAIN packages)
  PROVE  pk \in Seq(CallSet)
<1>1. Mode(c, phase) /\ c \in TreeCalls(Current, DOMAIN packages)
  BY CallKinds DEF CallSet
<1>2. pk \in Seq(PackageCalls(Current, DOMAIN packages))
  BY DEF PackagesOf
<1>3. ASSUME NEW x \in ToSet(pk) PROVE x \in CallSet
  <2>1. /\ x \in PackageCalls(Current, DOMAIN packages)
        /\ x.op = "package" /\ x.second = c.tree /\ x.tree = c.second
    BY <1>2, ToSetProperties DEF PackagesOf
  <2>2. Mode(x, phase)
    BY <1>1, <2>1 DEF Mode
  <2>. QED
    BY <2>1, <2>2 DEF CallSet, Calls
<1>4. pk \in Seq(ToSet(pk)) /\ ToSet(pk) \subseteq CallSet
  BY <1>2, <1>3, ToSetProperties
<1>. QED
  BY <1>4, SeqOfMore

LEMMA TreePushed ==
  ASSUME NEW c, c = call, c \in CallSet, c.op = "tree", NEW xs, stack' = xs \o Tail(stack),
         \/ Rest(xs, c, Current, DOMAIN packages)
         \/ OneFurther(xs, c, Current, DOMAIN packages) /\ (c.next = 0 => Unsatisfied(c))
  PROVE  Pushes
<1>1. /\ xs \in Seq(CallSet) /\ \A x \in ToSet(xs) : SameTree(x, c)
      /\ Rest(xs, c, Current, DOMAIN packages) => \A x \in ToSet(xs) : x.next = 0
  BY TreeCallsFit
<1>. QED
  BY <1>1 DEF Pushes, Pushed, Plain, SameTree

LEMMA AddDependencyPushes ==
  ASSUME StackInv, Running("tree"), NEW pkgs \in Seq(DOMAIN packages), addDependency(call, pkgs),
         call.next # 0
  PROVE  Pushes
<1>. DEFINE c == call
            P == DOMAIN packages
            W == White(c, pkgs)
<1>1. c \in CallSet /\ c.op = "tree"
  BY HeadCall
<1>2. c \in TreeCalls(Current, P)
  BY <1>1, CallKinds DEF CallSet
<1>3. \/ stack' = NextAlternative(c) \o Tail(stack)
      \/ Adding(c, W, Current, P)
  BY <1>2, AddDependencyIs
<1>. HIDE DEF c, W
<1>4. CASE stack' = NextAlternative(c) \o Tail(stack)
  <2>1. \/ Rest(NextAlternative(c), c, Current, P)
        \/ OneFurther(NextAlternative(c), c, Current, P)
    BY <1>2, NextAlternativeIs
  <2>. QED
    BY <1>1, <1>4, <2>1, TreePushed DEF c
<1>5. CASE Adding(c, W, Current, P)
  <2>1. PICK pk, rest : /\ stack' = (pk \o rest) \o Tail(stack)
                        /\ PackagesOf(pk, c, W, Current, P) /\ Rest(rest, c, Current, P)
    BY <1>5 DEF Adding
  <2>2. rest \in Seq(CallSet) /\ \A x \in ToSet(rest) : SameTree(x, c) /\ x.next = 0
    BY <1>1, <2>1, TreeCallsFit
  <2>3. pk \in Seq(CallSet) /\ \A x \in ToSet(pk) : x.op = "package" /\ x.tree = c.second
    BY <1>1, <2>1, PackageCallsFit DEF PackagesOf
  <2>4. (pk \o rest) \in Seq(CallSet) /\ ToSet(pk \o rest) = ToSet(pk) \cup ToSet(rest)
    BY <2>2, <2>3, ConcatProperties, ToSetConcat
  <2>. DEFINE calls == pk \o rest
  <2>5. stack' = calls \o Tail(stack)
    BY <2>1
  <2>6. phase # "extras" => c.second = c.tree
    BY <1>1, <1>2, TreeFields, CallKinds DEF CallSet, Mode
  <2>7. /\ \A x \in ToSet(calls) : /\ x.op \in Plain \ {"source"}
                                   /\ x.op = "tree" => x.next = 0
        /\ phase # "extras" => \A x \in ToSet(calls) : x.tree = c.tree
    BY <2>2, <2>3, <2>4, <2>6 DEF Plain, SameTree
  <2>. HIDE DEF calls
  <2>. QED
    BY <2>4, <2>5, <2>7 DEF Pushes, Pushed, calls, c
<1>. QED
  BY <1>3, <1>4, <1>5

(* promoteDependency adds one package that satisfies the dependency, which *)
(* leaves a list of another seed.                                          *)
LeavesList(p) ==
  \/ UNCHANGED seedVars
  \/ \E from : /\ seed' = [seed EXCEPT ![from] = RemoveFirst(@, p)]
               /\ seedrecommends' = [seedrecommends EXCEPT ![from] = RemoveFirst(@, p)]

LEMMA PromoteIs ==
  ASSUME ArchiveInv, promoteDependency
  PROVE  \/ stack' = NextAlternative(call) \o Tail(stack) /\ UNCHANGED <<seedVars, dependVars>>
         \/ \E p \in ToSet(RealFirst(call, call.clauses[1][call.next])) :
              LeavesList(p) /\ addDependency(call, <<p>>)
<1>. DEFINE c == call
            satisfying == RealFirst(c, c.clauses[1][c.next])
            found == ToSet(satisfying) \cap UNION {Seeded(l) : l \in LesserSeeds(c)}
            p == First(satisfying, found)
            from == First(names, {l \in LesserSeeds(c) : p \in Seeded(l)})
<1>1. CASE found = {}
  BY <1>1 DEF promoteDependency, Calling
<1>2. CASE found # {}
  <2>1. satisfying \in Seq(DOMAIN packages)
    BY SatisfyingTyped
  <2>2. LeavesList(p) /\ addDependency(c, <<p>>)
    <3>1. /\ IF c.second THEN UNCHANGED seedVars
             ELSE /\ seed' = [seed EXCEPT ![from] = RemoveFirst(@, p)]
                  /\ seedrecommends' = [seedrecommends EXCEPT ![from] = RemoveFirst(@, p)]
          /\ addDependency(c, <<p>>)
      BY <1>2 DEF promoteDependency
    <3>. HIDE DEF from, p
    <3>. QED
      BY <3>1 DEF LeavesList
  <2>3. ToSet(satisfying) \cap found # {}
    BY <1>2
  <2>. HIDE DEF satisfying, found
  <2>4. p \in ToSet(satisfying) \cap found
    BY <2>1, <2>3, FirstProperties
  <2>. HIDE DEF p
  <2>. QED
    BY <2>2, <2>4 DEF satisfying
<1>. QED
  BY <1>1, <1>2

LEMMA TreePushes ==
  ASSUME ArchiveInv, StackInv, checkSatisfied \/ promoteDependency \/ newDependency
  PROVE  Pushes
<1>. DEFINE c == call
            P == DOMAIN packages
<1>0. Running("tree")
  BY DEF checkSatisfied, promoteDependency, newDependency
<1>1. c \in CallSet /\ c.op = "tree"
  BY <1>0, HeadCall
<1>2. c \in TreeCalls(Current, P)
  BY <1>1, CallKinds DEF CallSet
<1>3. ASSUME NEW xs,
             \/ xs = NextAlternative(c) /\ (c.next = 0 => Unsatisfied(c))
             \/ xs = NextClause(c),
             stack' = xs \o Tail(stack)
      PROVE  Pushes
  <2>. HIDE DEF c
  <2>1. \/ Rest(xs, c, Current, P)
        \/ OneFurther(xs, c, Current, P) /\ (c.next = 0 => Unsatisfied(c))
    BY <1>2, <1>3, NextAlternativeIs, NextClauseIs
  <2>. QED
    BY <1>1, <1>3, <2>1, TreePushed DEF c
<1>4. CASE checkSatisfied
  <2>1. \/ stack' = NextAlternative(c) \o Tail(stack) /\ Unsatisfied(c)
        \/ stack' = NextClause(c) \o Tail(stack)
    BY <1>4 DEF checkSatisfied, Calling, Unsatisfied
  <2>. QED
    BY <1>3, <2>1
<1>5. CASE newDependency
  <2>. DEFINE pkgs == Chosen(c, c.clauses[1][c.next - Alternatives(c)])
  <2>1. addDependency(c, pkgs)
    BY <1>5 DEF newDependency
  <2>2. pkgs \in Seq(P)
    BY SatisfyingTyped
  <2>3. c.next # 0
    <3>1. Len(c.clauses[1]) \in Nat /\ c.next \in Nat
      BY <1>2, TreeFields, ClausesParts
    <3>. QED
      BY <1>5, <3>1 DEF newDependency, Alternatives
  <2>. QED
    BY <1>0, <2>1, <2>2, <2>3, AddDependencyPushes
<1>6. CASE promoteDependency
  <2>0. c.next # 0
    <3>1. Len(c.clauses[1]) \in Nat /\ c.next \in Nat
      BY <1>2, TreeFields, ClausesParts
    <3>2. c.next \in 1..Len(c.clauses[1])
      BY <1>6 DEF promoteDependency, Alternatives
    <3>. HIDE DEF c
    <3>. QED
      BY <3>1, <3>2
  <2>1. CASE stack' = NextAlternative(c) \o Tail(stack)
    BY <1>3, <2>0, <2>1
  <2>2. CASE stack' # NextAlternative(c) \o Tail(stack)
    <3>. DEFINE satisfying == RealFirst(c, c.clauses[1][c.next])
    <3>1. PICK p \in ToSet(satisfying) : addDependency(c, <<p>>)
      BY <1>6, <2>2, PromoteIs
    <3>2. p \in P
      BY SatisfyingTyped, ToSetProperties
    <3>. DEFINE one == <<p>>
    <3>3. one \in Seq(P) /\ addDependency(c, one)
      BY <3>1, <3>2, Single
    <3>. HIDE DEF one
    <3>. QED
      BY <1>0, <2>0, <3>3, AddDependencyPushes
  <2>. QED
    BY <2>1, <2>2
<1>. QED
  BY <1>4, <1>5, <1>6

(* The rescue calls look into planted seeds, at sources in use.            *)
LEMMA RescuePushes ==
  ASSUME ParseInv, PlantInv, SeedsInv, ArchiveInv, StackInv, ListsInv,
         startRescue \/ rescueSource \/ rescuePackage
  PROVE  Pushes
<1>. DEFINE c == call
            s == Current
            P == DOMAIN packages
            Q == DOMAIN sources
            F == ToSet(seeds) \cup {Extra}
            R == RescueCalls(s, P, Q, F)
<1>1. c \in CallSet /\ c.op \in {"rescue", "rescuing"} /\ phase \in Growing
  BY HeadCall DEF startRescue, rescueSource, rescuePackage
<1>2. c \in R /\ Mode(c, phase)
  BY <1>1, CallKinds DEF CallSet
<1>3. c.seed = s /\ c.from \in F /\ c.tree \in BOOLEAN /\ c.srcs \subseteq Q /\ c.pkgs \subseteq P
  BY <1>2, RescueFields
<1>4. phase \in {"grow", "grown"}
  BY <1>1, <1>2 DEF Mode, Growing
<1>5. s \in ToSet(seeds) /\ Inner(s) \subseteq ToSet(seeds)
  <2>1. supported \in ToSet(seeds) /\ \A t \in ToSet(seeds) : Inner(t) \subseteq ToSet(seeds)
    BY <1>4, InnerSeeds DEF Early
  <2>2. phase = "grow" => seeds[grown] \in ToSet(seeds)
    <3>1. stack # <<>>
      BY DEF startRescue, rescueSource, rescuePackage, Running
    <3>2. phase = "grow" => grown \in 1..Len(seeds) /\ seeds \in Seq(SeedName)
      BY <3>1 DEF StackInv, SeedsInv
    <3>. QED
      BY <3>2 DEF ToSet
  <2>. QED
    BY <1>4, <2>1, <2>2 DEF Current
<1>6. ASSUME NEW x, x \in R, x.op = "rescuing", x.tree = c.tree PROVE x \in CallSet
  <2>1. Mode(x, phase)
    BY <1>1, <1>2, <1>6 DEF Mode
  <2>. QED
    BY <1>6, <2>1 DEF CallSet, Calls
<1>7. ASSUME NEW x, x \in R, x.op = "rescuing", x.tree = c.tree, stack' = <<x>> \o Tail(stack)
      PROVE  Pushes
  <2>1. x \in CallSet
    BY <1>6, <1>7
  <2>2. <<x>> \in Seq(CallSet) /\ ToSet(<<x>>) = {x}
    BY <2>1, Single
  <2>. DEFINE one == <<x>>
  <2>3. one \in Seq(CallSet) /\ ToSet(one) = {x} /\ stack' = one \o Tail(stack)
    BY <1>7, <2>2
  <2>. HIDE DEF one
  <2>. QED
    BY <1>7, <2>3 DEF Pushes, Pushed, Plain, c
<1>. HIDE DEF c, s, P, Q, F, R
<1>8. CASE startRescue
  <2>. DEFINE from == IF c.from = Extra THEN Inner(c.seed) ELSE {c.from}
              srcs == UNION {IF c.tree THEN build_srcs[t] ELSE not_build_srcs[t] : t \in from}
  <2>1. stack' = <<[c EXCEPT !.op = "rescuing", !.srcs = srcs]>> \o Tail(stack)
    BY <1>8 DEF startRescue, Calling, c
  <2>2. from \subseteq ToSet(seeds)
    BY <1>3, <1>5 DEF F
  <2>3. srcs \subseteq Q
    BY <2>2 DEF ListsInv, Q
  <2>. HIDE DEF srcs
  <2>4. PICK x \in R : x = RescuingIs(c, srcs) /\ x.op = "rescuing" /\ x.tree = c.tree
    BY <1>2, <2>3, RescueGoesOn DEF R
  <2>. QED
    BY <1>7, <2>1, <2>4 DEF RescuingIs
<1>9. CASE rescueSource
  <2>1. c.op = "rescuing"
    BY <1>9, HeadCall DEF rescueSource, c
  <2>2. CASE c.srcs = {}
    <3>1. stack' = Tail(stack)
      BY <1>9, <2>2 DEF rescueSource, Return, c
    <3>2. stack' = <<>> \o Tail(stack) /\ <<>> \in Seq(CallSet) /\ ToSet(<<>>) = {}
      <4>1. PICK t \in Seq(CallSet) : t = Tail(stack)
        BY <1>9, HeadCall, InnermostCall DEF rescueSource
      <4>. QED
        BY <3>1, <4>1, ToSetProperties
    <3>. QED
      BY <3>2 DEF Pushes, Pushed
  <2>3. CASE c.srcs # {}
    <3>1. PICK src \in c.srcs, included \in SUBSET P :
            stack' = <<[c EXCEPT !.srcs = @ \ {src}, !.pkgs = included]>> \o Tail(stack)
      <4>1. PICK src, included :
              /\ src \in c.srcs /\ included \subseteq ToSet(Known(sources[src].binaries))
              /\ stack' = <<[c EXCEPT !.srcs = @ \ {src}, !.pkgs = included]>> \o Tail(stack)
        BY <1>9, <2>3 DEF rescueSource, Calling, c
      <4>2. sources[src] \in SourceSection
        BY <1>3, <4>1 DEF ArchiveInv, Q
      <4>3. sources[src].binaries \in Seq(STRING)
        BY <4>2, Sections
      <4>4. ToSet(Known(sources[src].binaries)) \subseteq P
        BY <4>3, KeepProperties DEF Known, P
      <4>. QED
        BY <4>1, <4>4
    <3>. DEFINE A == c.srcs \ {src}
    <3>2. A \in SUBSET Q
      BY <1>3
    <3>. HIDE DEF A
    <3>3. PICK x \in R : x = SourcesAre(c, A, included) /\ x.op = "rescuing" /\ x.tree = c.tree
      BY <1>2, <2>1, <3>2, RescuingGoesOn DEF R
    <3>. QED
      BY <1>7, <3>1, <3>3 DEF SourcesAre, A
  <2>. QED
    BY <2>2, <2>3
<1>10. CASE rescuePackage
  <2>1. c.op = "rescuing"
    BY <1>10, HeadCall DEF rescuePackage, c
  <2>2. PICK p \in c.pkgs :
          \/ stack' = <<[c EXCEPT !.pkgs = @ \ {p}]>> \o Tail(stack)
          \/ stack' = <<PackageCall(c.seed, p, FALSE, c.tree, FALSE),
                        [c EXCEPT !.pkgs = @ \ {p}]>> \o Tail(stack)
    BY <1>10 DEF rescuePackage, Calling, c
  <2>. DEFINE A == c.srcs
              B == c.pkgs \ {p}
  <2>3. A \in SUBSET Q /\ B \in SUBSET P
    BY <1>3
  <2>4. [c EXCEPT !.pkgs = @ \ {p}] = SourcesAre(c, A, B)
    BY <1>2 DEF SourcesAre, R, RescueCalls
  <2>. HIDE DEF A, B
  <2>5. PICK x \in R : x = SourcesAre(c, A, B) /\ x.op = "rescuing" /\ x.tree = c.tree
    BY <1>2, <2>1, <2>3, RescuingGoesOn DEF R
  <2>6. CASE stack' = <<x>> \o Tail(stack)
    BY <1>7, <2>5, <2>6
  <2>7. CASE stack' = <<PackageCall(c.seed, p, FALSE, c.tree, FALSE), x>> \o Tail(stack)
    <3>. DEFINE pc == PackageCall(c.seed, p, FALSE, c.tree, FALSE)
    <3>1. /\ pc \in PackageCalls(s, P) /\ pc.op = "package" /\ pc.second = FALSE
          /\ pc.tree = c.tree
      BY <1>3 DEF PackageCall, PackageCalls
    <3>. HIDE DEF pc
    <3>2. Mode(pc, phase)
      BY <1>1, <1>2, <3>1 DEF Mode
    <3>3. pc \in CallSet
      BY <3>1, <3>2 DEF CallSet, Calls, s, P
    <3>. DEFINE two == <<pc, x>>
    <3>4. x \in CallSet
      BY <1>6, <2>5
    <3>5. two \in Seq(CallSet) /\ ToSet(two) = {pc, x}
      <4>1. two \in Seq(CallSet) /\ Len(two) = 2 /\ two[1] = pc /\ two[2] = x
        BY <3>3, <3>4
      <4>. HIDE DEF two
      <4>. QED
        BY <4>1 DEF ToSet
    <3>6. stack' = two \o Tail(stack)
      BY <2>7 DEF pc
    <3>. HIDE DEF two
    <3>. QED
      BY <2>5, <3>1, <3>5, <3>6 DEF Pushes, Pushed, Plain, c
  <2>. QED
    BY <2>2, <2>4, <2>5, <2>6, <2>7
<1>. QED
  BY <1>8, <1>9, <1>10
(* To return is to push nothing.                                           *)
LEMMA ReturnPushes ==
  ASSUME StackInv, phase \in Growing, stack # <<>>, Return
  PROVE  Pushes
<1>1. PICK t \in Seq(CallSet) : t = Tail(stack)
  BY InnermostCall DEF StackInv
<1>2. stack' = <<>> \o Tail(stack) /\ <<>> \in Seq(CallSet) /\ ToSet(<<>>) = {}
  BY <1>1, ToSetProperties DEF Return
<1>. QED
  BY <1>2 DEF Pushes, Pushed

Adds(calls) ==
  \A x \in ToSet(calls) : /\ x.op \in {"tree", "source"} /\ x.tree = call.tree
                          /\ x.op = "tree" => x.next = 0

LEMMA PackagePushes ==
  ASSUME ArchiveInv, StackInv, refusePackage \/ addPackage \/ addSource
  PROVE  Pushes
<1>1. CASE refusePackage
  <2>1. Running("package") /\ Return
    BY <1>1 DEF refusePackage
  <2>2. phase \in Growing /\ stack # <<>>
    BY <2>1, HeadCall
  <2>. QED
    BY <2>1, <2>2, ReturnPushes
<1>2. CASE addPackage
  <2>1. PICK calls \in Seq(CallSet) :
          stack' = calls \o Tail(stack) /\ Adds(calls)
    BY <1>2, AddPackageIs DEF Adds
  <2>2. call.op = "package"
    BY <1>2, HeadCall DEF addPackage
  <2>. QED
    BY <2>1, <2>2 DEF Pushes, Pushed, Plain, Adds
<1>3. CASE addSource
  <2>1. PICK calls \in Seq(CallSet) :
          /\ stack' = calls \o Tail(stack)
          /\ \A x \in ToSet(calls) : BuildTree(call, x, Current, DOMAIN packages)
    BY <1>3, AddSourceIs
  <2>. QED
    BY <2>1 DEF Pushes, Pushed, Plain, BuildTree, TreeFor
<1>. QED
  BY <1>1, <1>2, <1>3

(* The steps of the calls that _addPackage makes.                          *)
CallStep ==
  \/ refusePackage \/ addPackage \/ addSource
  \/ checkSatisfied \/ promoteDependency \/ newDependency
  \/ startRescue \/ rescueSource \/ rescuePackage

LEMMA CallPushes ==
  ASSUME ParseInv, PlantInv, SeedsInv, ArchiveInv, StackInv, ListsInv, CallStep
  PROVE  /\ Pushes /\ phase \in Growing /\ stack # <<>>
         /\ UNCHANGED <<phase, seeds, grown, names, inherit, structure, packages, sources>>
         /\ UNCHANGED <<provides, pruned, options, world>>
<1>1. Pushes
  <2>1. CASE refusePackage \/ addPackage \/ addSource
    BY <2>1, PackagePushes
  <2>2. CASE checkSatisfied \/ promoteDependency \/ newDependency
    BY <2>2, TreePushes
  <2>3. CASE startRescue \/ rescueSource \/ rescuePackage
    BY <2>3, RescuePushes
  <2>. QED
    BY <2>1, <2>2, <2>3 DEF CallStep
<1>2. phase \in Growing /\ stack # <<>>
  <2>1. \E op \in Plain : Running(op)
    BY DEF CallStep, Plain, refusePackage, addPackage, addSource, checkSatisfied, promoteDependency,
           newDependency, startRescue, rescueSource, rescuePackage
  <2>. QED
    BY <2>1, HeadCall DEF Plain
<1>. USE DEF structureVars, parseVars, sortVars, archiveVars, plantVars
<1>3. CASE refusePackage \/ addPackage \/ addSource
  BY <1>1, <1>2, <1>3 DEF refusePackage, addPackage, addSource
<1>4. CASE checkSatisfied \/ promoteDependency \/ newDependency
  BY <1>1, <1>2, <1>4 DEF checkSatisfied, promoteDependency, newDependency
<1>5. CASE startRescue \/ rescueSource \/ rescuePackage
  BY <1>1, <1>2, <1>5 DEF startRescue, rescueSource, rescuePackage
<1>. QED
  BY <1>3, <1>4, <1>5 DEF CallStep

LEMMA PushesKeep ==
  ASSUME StackInv, phase \in Growing, stack # <<>>, Pushes,
         UNCHANGED <<phase, seeds, grown, names, structure, packages, sources>>
  PROVE  StackInv'
<1>1. PICK calls \in Seq(CallSet) :
        stack' = calls \o Tail(stack) /\ \A x \in ToSet(calls) : x.op \in Plain
  BY DEF Pushes, Pushed
<1>2. stack \in Seq(CallSet) /\ Shape(stack)
  BY DEF StackInv
<1>3. \A x \in ToSet(calls) : x.op \notin {"pass", "binaries"}
  BY <1>1 DEF Plain
<1>. DEFINE C == CallSet
            r == stack'
<1>4. r = calls \o Tail(stack) /\ calls \in Seq(C) /\ stack \in Seq(C)
  BY <1>1, <1>2
<1>. HIDE DEF C, r
<1>5. r \in Seq(C) /\ Shape(r)
  BY <1>2, <1>3, <1>4, PushKeepsShape
<1>6. CallSet' = CallSet
  BY DEF CallSet, Current, supported
<1>7. stack' \in Seq(CallSet') /\ Shape(stack')
  BY <1>5, <1>6 DEF r, C
<1>8. phase' = "grow" /\ stack' # <<>> => grown' # 0
  BY DEF StackInv
<1>. QED
  BY <1>7, <1>8 DEF StackInv, Growing

(* A seed's text, read line by line and planted package by package.        *)
LEMMA PlantStack ==
  ASSUME StackInv, SeedsInv, plantSeed \/ readLine \/ plantPackage \/ plantHints \/ prune
  PROVE  StackInv'
<1>1. CASE plantSeed
  <2>1. phase = "plant" /\ stack = <<>>
    BY <1>1 DEF plantSeed
  <2>2. CASE phase' = "noSeed" /\ stack' = stack
    BY <2>1, <2>2 DEF StackInv, Growing
  <2>3. CASE /\ phase' = phase
             /\ \E s, l : stack' = <<[op |-> "text", seed |-> s, lines |-> l,
                                     pkgs |-> <<>>, recs |-> {}]>>
    <3>1. PICK s, l : stack' = <<[op |-> "text", seed |-> s, lines |-> l,
                                  pkgs |-> <<>>, recs |-> {}]>>
      BY <2>3
    <3>. DEFINE x == [op |-> "text", seed |-> s, lines |-> l, pkgs |-> <<>>, recs |-> {}]
    <3>2. IsText(x)
      BY DEF IsText
    <3>. HIDE DEF x
    <3>3. stack' = <<x>>
      BY <3>1 DEF x
    <3>4. Planting(stack')
      BY <3>2, <3>3 DEF Planting
    <3>. QED
      BY <2>1, <2>3, <3>4 DEF StackInv, Growing
  <2>. QED
    BY <1>1, <2>2, <2>3 DEF plantSeed
<1>2. ASSUME Running("text")
      PROVE  phase = "plant" /\ IsText(call) /\ Tail(stack) = <<>>
  <2>1. stack # <<>> /\ stack[1].op = "text"
    BY <1>2 DEF Running
  <2>2. phase \notin Growing
    <3>. SUFFICES ASSUME phase \in Growing PROVE FALSE
      OBVIOUS
    <3>1. stack[1] \in CallSet
      <4>1. stack \in Seq(CallSet)
        BY DEF StackInv
      <4>. QED
        BY <2>1, <4>1
    <3>. QED
      BY <2>1, <3>1, CallKinds DEF CallSet
  <2>3. phase = "plant" /\ Planting(stack)
    BY <2>1, <2>2 DEF StackInv
  <2>4. PICK x : IsText(x) /\ stack = <<x>>
    BY <2>1, <2>3 DEF Planting
  <2>5. call = x /\ Tail(stack) = <<>>
    BY <2>4 DEF call
  <2>. QED
    BY <2>3, <2>4, <2>5
<1>3. ASSUME phase = "plant", phase' = phase, Planting(stack') PROVE StackInv'
  BY <1>3 DEF StackInv, Growing
<1>4. ASSUME NEW x, IsText(x), Calling(<<x>>), Tail(stack) = <<>> PROVE Planting(stack')
  <2>1. <<x>> \o <<>> = <<x>>
    <3>. DEFINE one == <<x>>
    <3>1. one \in Seq({x})
      BY Single
    <3>. HIDE DEF one
    <3>2. one \o <<>> = one
      BY <3>1, ConcatEmptySeq
    <3>. QED
      BY <3>2 DEF one
  <2>. QED
    BY <1>4, <2>1 DEF Calling, Planting
<1>5. CASE readLine
  <2>1. Running("text") /\ phase' = phase
    BY <1>5 DEF readLine
  <2>2. PICK l, p, r : Calling(<<[call EXCEPT !.lines = l, !.pkgs = p, !.recs = r]>>)
    <3>1. \E line : LET entry == line.kind = "entry" IN
            Calling(<<[call EXCEPT
             !.lines = Tail(@),
             !.pkgs = IF entry /\ "!" \notin line.marks THEN @ \o Named(line) ELSE @,
             !.recs = IF entry /\ "(" \in line.marks THEN @ \cup ToSet(Filtered(line))
                      ELSE @]>>)
      BY <1>5 DEF readLine
    <3>. QED
      BY <3>1
  <2>3. IsText([call EXCEPT !.lines = l, !.pkgs = p, !.recs = r])
    BY <1>2, <2>1 DEF IsText
  <2>. QED
    BY <1>2, <1>3, <1>4, <2>1, <2>2, <2>3
<1>6. CASE plantPackage
  <2>1. Running("text") /\ phase' = phase
    BY <1>6 DEF plantPackage
  <2>2. Calling(<<[call EXCEPT !.pkgs = Tail(@)]>>)
    BY <1>6 DEF plantPackage
  <2>3. IsText([call EXCEPT !.pkgs = Tail(@)])
    BY <1>2, <2>1 DEF IsText
  <2>. QED
    BY <1>2, <1>3, <1>4, <2>1, <2>2, <2>3
<1>7. CASE plantHints
  <2>1. Running("text") /\ phase' = phase /\ (stack' = stack \/ stack' = Tail(stack))
    BY <1>7 DEF plantHints, Return
  <2>2. phase = "plant" /\ Tail(stack) = <<>>
    BY <1>2, <2>1
  <2>3. Planting(stack')
    BY <2>1, <2>2 DEF StackInv, Planting
  <2>. QED
    BY <1>3, <2>1, <2>2, <2>3
<1>8. CASE prune
  <2>1. stack' = <<>> /\ phase' = "grow"
    BY <1>8 DEF prune
  <2>2. <<>> \in Seq(CallSet') /\ Shape(<<>>)
    BY DEF Shape
  <2>. QED
    BY <2>1, <2>2 DEF StackInv, Growing
<1>. QED
  BY <1>1, <1>5, <1>6, <1>7, <1>8

(* What growing a seed starts with: its packages, and what is rescued.     *)
Weeded(s) == Weed(s, seed[s]) \o Weed(s, seedrecommends[s])
PackagesFor(s, lists) ==
  [i \in DOMAIN lists |-> PackageCall(s, lists[i], FALSE, FALSE, FALSE)]
RescuesFor(s, froms) == [i \in DOMAIN froms |-> RescueCall(s, froms[i], FALSE)]


Fresh(x, s, p) ==
  x.op = "package" /\ x.seed = s /\ x.pkg = p /\ x.second = FALSE /\ x.tree = FALSE
Seedling(s, p) == PackageCall(s, p, FALSE, FALSE, FALSE)
Rescuing(s, from) == RescueCall(s, from, FALSE)

LEMMA FreshCalls ==
  ASSUME NEW s, NEW P, NEW Q, NEW F
  PROVE  /\ \A p \in P : /\ Seedling(s, p) \in Calls(s, P, Q, F, "grow")
                         /\ Fresh(Seedling(s, p), s, p)
         /\ \A f \in F : /\ Rescuing(s, f) \in Calls(s, P, Q, F, "grow")
                         /\ Rescuing(s, f).op = "rescue" /\ Rescuing(s, f).pkgs = {}
<1>1. ASSUME NEW p \in P
      PROVE  Seedling(s, p) \in Calls(s, P, Q, F, "grow") /\ Fresh(Seedling(s, p), s, p)
  <2>1. Seedling(s, p) \in PackageCalls(s, P) /\ Fresh(Seedling(s, p), s, p)
    BY DEF Seedling, PackageCall, PackageCalls, Fresh
  <2>2. Mode(Seedling(s, p), "grow")
    BY <2>1 DEF Fresh, Mode
  <2>. QED
    BY <2>1, <2>2 DEF Calls
<1>2. ASSUME NEW f \in F
      PROVE  /\ Rescuing(s, f) \in Calls(s, P, Q, F, "grow") /\ Rescuing(s, f).op = "rescue"
             /\ Rescuing(s, f).pkgs = {}
  <2>1. /\ Rescuing(s, f) \in RescueCalls(s, P, Q, F) /\ Rescuing(s, f).op = "rescue"
        /\ Rescuing(s, f).tree = FALSE /\ Rescuing(s, f).pkgs = {}
    BY DEF Rescuing, RescueCall, RescueCalls
  <2>2. Mode(Rescuing(s, f), "grow")
    BY <2>1 DEF Mode
  <2>. QED
    BY <2>1, <2>2 DEF Calls
<1>. QED
  BY <1>1, <1>2

LEMMA WeededTyped ==
  ASSUME ListsInv, NEW s \in ToSet(seeds)
  PROVE  /\ Weed(s, seed[s]) \in Seq(DOMAIN packages)
         /\ Weed(s, seedrecommends[s]) \in Seq(DOMAIN packages)
         /\ ToSet(Weed(s, seed[s])) = {p \in ToSet(seed[s]) : Admits(s, FALSE, p)}
         /\ ToSet(Weed(s, seedrecommends[s])) =
              {p \in ToSet(seedrecommends[s]) : Admits(s, FALSE, p)}
         /\ Weeded(s) \in Seq(DOMAIN packages)
         /\ ToSet(Weeded(s)) = {p \in Seeded(s) : Admits(s, FALSE, p)}
<1>1. ASSUME NEW q \in Seq(DOMAIN packages)
      PROVE  /\ Weed(s, q) \in Seq(DOMAIN packages)
             /\ ToSet(Weed(s, q)) = {p \in ToSet(q) : Admits(s, FALSE, p)}
  <2>. DEFINE set == {p \in ToSet(q) : Admits(s, FALSE, p)}
  <2>1. set \subseteq ToSet(q) /\ Weed(s, q) = Keep(q, set)
    BY DEF Weed
  <2>. HIDE DEF set
  <2>2. Keep(q, set) \in Seq(DOMAIN packages) /\ ToSet(Keep(q, set)) = ToSet(q) \cap set
    BY KeepProperties
  <2>3. ToSet(q) \cap set = set
    BY <2>1
  <2>. QED
    BY <2>1, <2>2, <2>3 DEF set
<1>. DEFINE a == Weed(s, seed[s])
            b == Weed(s, seedrecommends[s])
<1>2. seed[s] \in Seq(DOMAIN packages) /\ seedrecommends[s] \in Seq(DOMAIN packages)
  BY DEF ListsInv
<1>3. /\ a \in Seq(DOMAIN packages) /\ ToSet(a) = {p \in ToSet(seed[s]) : Admits(s, FALSE, p)}
      /\ b \in Seq(DOMAIN packages)
      /\ ToSet(b) = {p \in ToSet(seedrecommends[s]) : Admits(s, FALSE, p)}
  BY <1>1, <1>2
<1>4. Weeded(s) = a \o b
  BY DEF Weeded
<1>. HIDE DEF a, b
<1>5. (a \o b) \in Seq(DOMAIN packages) /\ ToSet(a \o b) = ToSet(a) \cup ToSet(b)
  <2>. DEFINE D == DOMAIN packages
  <2>1. a \in Seq(D) /\ b \in Seq(D)
    BY <1>3
  <2>. HIDE DEF D
  <2>2. (a \o b) \in Seq(D)
    BY <2>1, ConcatProperties
  <2>3. ToSet(a \o b) = ToSet(a) \cup ToSet(b)
    BY <2>1, ToSetConcat
  <2>. QED
    BY <2>2, <2>3 DEF D
<1>6. ToSet(a) \cup ToSet(b) = {p \in Seeded(s) : Admits(s, FALSE, p)}
  BY <1>3 DEF Seeded
<1>. QED
  BY <1>3, <1>4, <1>5, <1>6 DEF a, b

LEMMA GrowSeedIs ==
  ASSUME ParseInv, PlantInv, SeedsInv, ListsInv, growSeed
  PROVE  /\ phase = "grow" /\ stack = <<>> /\ grown' = grown + 1 /\ grown' \in 1..Len(seeds)
         /\ seeds[grown'] \in ToSet(seeds) /\ Current' = seeds[grown']
         /\ \E pk, rs : /\ stack' = pk \o rs /\ pk \in Seq(CallSet') /\ rs \in Seq(CallSet')
                        /\ \A x \in ToSet(pk) : \E p \in ToSet(Weeded(seeds[grown'])) :
                             Fresh(x, Current', p)
                        /\ \A p \in ToSet(Weeded(seeds[grown'])) : \E x \in ToSet(pk) :
                             Fresh(x, Current', p)
                        /\ \A x \in ToSet(rs) : x.op = "rescue" /\ x.pkgs = {}
<1>. DEFINE s == seeds[grown + 1]
            P == DOMAIN packages
            Q == DOMAIN sources
            F == ToSet(seeds) \cup {Extra}
<1>1. /\ phase = "grow" /\ phase' = phase /\ stack = <<>> /\ grown < Len(seeds)
      /\ grown' = grown + 1
      /\ UNCHANGED <<seeds, packages, sources>>
  BY DEF growSeed, structureVars, archiveVars, plantVars
<1>2. grown' \in 1..Len(seeds) /\ s \in ToSet(seeds) /\ Current' = s
  <2>1. grown \in 0..Len(seeds) /\ seeds \in Seq(SeedName)
    BY DEF SeedsInv
  <2>2. grown + 1 \in 1..Len(seeds)
    BY <1>1, <2>1
  <2>3. s \in ToSet(seeds)
    BY <2>1, <2>2 DEF ToSet
  <2>. QED
    BY <1>1, <2>2, <2>3 DEF Current
<1>. DEFINE froms == Keep(Append(SubSeq(seeds, 1, grown + 1), Extra),
                          {f \in ToSet(seeds) \cup {Extra} : Patterns("includes", s, f) # {}})
<1>3. stack' = PackagesFor(s, Weeded(s)) \o RescuesFor(s, froms)
  BY DEF growSeed, PackagesFor, RescuesFor, Weeded
<1>4. froms \in Seq(F)
  <2>. DEFINE q == Append(SubSeq(seeds, 1, grown + 1), Extra)
              set == {f \in ToSet(seeds) \cup {Extra} : Patterns("includes", s, f) # {}}
  <2>1. seeds \in Seq(F)
    <3>1. seeds \in Seq(SeedName)
      BY DEF SeedsInv
    <3>2. seeds \in Seq(ToSet(seeds))
      BY <3>1, ToSetProperties
    <3>. QED
      BY <3>2, SeqMonotonic
  <2>2. SubSeq(seeds, 1, grown + 1) \in Seq(F)
    BY <1>1, <1>2, <2>1, SubSeqProperties
  <2>3. q \in Seq(F)
    BY <2>2, AppendProperties
  <2>. HIDE DEF q, set
  <2>4. Keep(q, set) \in Seq(F)
    BY <2>3, KeepProperties
  <2>. QED
    BY <2>4 DEF q, set
<1>5. CallSet' = Calls(s, P, Q, F, "grow")
  BY <1>1, <1>2 DEF CallSet
<1>6. Weeded(s) \in Seq(P)
  BY <1>2, WeededTyped
<1>. DEFINE lists == Weeded(s)
            pk == PackagesFor(s, lists)
            rs == RescuesFor(s, froms)
<1>7. lists \in Seq(P) /\ stack' = pk \o rs
  BY <1>3, <1>6
<1>. HIDE DEF lists, froms, s
<1>8. /\ pk \in Seq(CallSet')
      /\ \A x \in ToSet(pk) : \E p \in ToSet(lists) : Fresh(x, s, p)
      /\ \A p \in ToSet(lists) : \E x \in ToSet(pk) : Fresh(x, s, p)
  <2>1. \A p \in P : Seedling(s, p) \in CallSet' /\ Fresh(Seedling(s, p), s, p)
    BY <1>5, FreshCalls
  <2>2. Len(lists) \in Nat /\ DOMAIN lists = 1..Len(lists) /\ \A i \in 1..Len(lists) : lists[i] \in P
    BY <1>7
  <2>3. pk = [i \in 1..Len(lists) |-> Seedling(s, lists[i])]
    BY <2>2 DEF PackagesFor, Seedling
  <2>4. \A i \in 1..Len(lists) : pk[i] \in CallSet' /\ Fresh(pk[i], s, lists[i])
    BY <2>1, <2>2, <2>3
  <2>5. DOMAIN pk = 1..Len(lists) /\ pk = [i \in 1..Len(lists) |-> pk[i]]
    BY <2>3
  <2>. HIDE DEF pk
  <2>6. pk \in Seq(CallSet') /\ Len(pk) = Len(lists)
    BY <2>2, <2>4, <2>5
  <2>. QED
    BY <2>2, <2>4, <2>5, <2>6 DEF ToSet
<1>9. rs \in Seq(CallSet') /\ \A x \in ToSet(rs) : x.op = "rescue" /\ x.pkgs = {}
  <2>1. \A f \in F : /\ Rescuing(s, f) \in CallSet' /\ Rescuing(s, f).op = "rescue"
                     /\ Rescuing(s, f).pkgs = {}
    BY <1>5, FreshCalls
  <2>2. Len(froms) \in Nat /\ DOMAIN froms = 1..Len(froms) /\ \A i \in 1..Len(froms) : froms[i] \in F
    BY <1>4
  <2>3. rs = [i \in 1..Len(froms) |-> Rescuing(s, froms[i])]
    BY <2>2 DEF RescuesFor, Rescuing
  <2>4. \A i \in 1..Len(froms) : /\ rs[i] \in CallSet' /\ rs[i].op = "rescue"
                                 /\ rs[i].pkgs = {}
    BY <2>1, <2>2, <2>3
  <2>5. DOMAIN rs = 1..Len(froms) /\ rs = [i \in 1..Len(froms) |-> rs[i]]
    BY <2>3
  <2>. HIDE DEF rs
  <2>6. rs \in Seq(CallSet') /\ Len(rs) = Len(froms)
    BY <2>2, <2>4, <2>5
  <2>. QED
    BY <2>2, <2>4, <2>5, <2>6 DEF ToSet
<1>10. lists = Weeded(seeds[grown']) /\ seeds[grown'] = s
  BY <1>1 DEF lists, s
<1>. HIDE DEF pk, rs
<1>. QED
  BY <1>1, <1>2, <1>7, <1>8, <1>9, <1>10

LEMMA GrowStack ==
  ASSUME ParseInv, PlantInv, SeedsInv, StackInv, ListsInv, growSeed
  PROVE  StackInv'
<1>1. /\ phase = "grow" /\ phase' = phase /\ grown' \in 1..Len(seeds)
      /\ \E pk, rs : /\ stack' = pk \o rs /\ pk \in Seq(CallSet') /\ rs \in Seq(CallSet')
                     /\ \A x \in ToSet(pk) : \E s, p : Fresh(x, s, p)
                     /\ \A x \in ToSet(rs) : x.op = "rescue"
  BY GrowSeedIs DEF growSeed
<1>2. PICK pk, rs : /\ stack' = pk \o rs /\ pk \in Seq(CallSet') /\ rs \in Seq(CallSet')
                    /\ \A x \in ToSet(pk) : \E s, p : Fresh(x, s, p)
                    /\ \A x \in ToSet(rs) : x.op = "rescue"
  BY <1>1
<1>. DEFINE C == CallSet'
<1>3. pk \in Seq(C) /\ rs \in Seq(C)
  BY <1>2
<1>. HIDE DEF C
<1>4. (pk \o rs) \in Seq(C)
  BY <1>3, ConcatProperties
<1>5. ToSet(pk \o rs) = ToSet(pk) \cup ToSet(rs)
  BY <1>3, ToSetConcat
<1>6. \A x \in ToSet(stack') : x.op \in {"package", "rescue"}
  BY <1>2, <1>5 DEF Fresh
<1>7. \A i \in 1..Len(stack') : stack'[i].op \in {"package", "rescue"}
  <2>. DEFINE r == stack'
  <2>1. r \in Seq(C) /\ \A x \in ToSet(r) : x.op \in {"package", "rescue"}
    BY <1>2, <1>4, <1>6
  <2>. HIDE DEF r
  <2>2. \A i \in 1..Len(r) : r[i] \in ToSet(r)
    BY <2>1 DEF ToSet
  <2>. QED
    BY <2>1, <2>2 DEF r
<1>8. Shape(stack')
  BY <1>7 DEF Shape
<1>9. stack' \in Seq(CallSet')
  BY <1>2, <1>4 DEF C
<1>. QED
  BY <1>1, <1>8, <1>9 DEF StackInv, Growing

LEMMA RescueForBuildStack ==
  ASSUME StackInv, rescueForBuild
  PROVE  /\ StackInv' /\ Current' = supported
         /\ \E x \in CallSet' : stack' = <<x>> /\ x.op = "rescue" /\ x.tree = TRUE /\ x.pkgs = {}
<1>1. /\ phase' = "grown" /\ stack' = <<RescueCall(supported, Extra, TRUE)>>
      /\ UNCHANGED <<names, seeds, packages, sources>> /\ supported' = supported
  BY DEF rescueForBuild, structureVars, parseVars, archiveVars, plantVars, supported
<1>. DEFINE P == DOMAIN packages
            Q == DOMAIN sources
            F == ToSet(seeds) \cup {Extra}
            x == RescueCall(supported, Extra, TRUE)
<1>2. CallSet' = Calls(supported, P, Q, F, "grown") /\ Current' = supported
  BY <1>1 DEF CallSet, Current
<1>3. x \in RescueCalls(supported, P, Q, F) /\ x.op = "rescue" /\ x.tree = TRUE /\ x.pkgs = {}
  BY DEF RescueCall, RescueCalls
<1>4. Mode(x, "grown")
  BY <1>3 DEF Mode
<1>5. x \in CallSet' /\ stack' = <<x>>
  BY <1>1, <1>2, <1>3, <1>4 DEF Calls
<1>. HIDE DEF x
<1>6. <<x>> \in Seq(CallSet') /\ Len(<<x>>) = 1 /\ <<x>>[1] = x
  BY <1>5, Single
<1>7. Shape(<<x>>)
  BY <1>3, <1>6 DEF Shape
<1>. QED
  BY <1>1, <1>2, <1>3, <1>5, <1>6, <1>7 DEF StackInv, Growing

(* What is left of a pass over the sources.                                *)
PassIs(c, A) == [c EXCEPT !.srcs = A]
FoundIs(c) == [c EXCEPT !.found = TRUE]
LeftIs(c, l) == [c EXCEPT !.left = l]

LEMMA PassGoesOn ==
  ASSUME NEW Q, NEW c \in PassCalls(Q), NEW A \in SUBSET Q
  PROVE  /\ PassIs(c, A) \in PassCalls(Q) /\ PassIs(c, A).op = "pass"
         /\ FoundIs(c) \in PassCalls(Q) /\ FoundIs(c).op = "pass" /\ c.srcs \subseteq Q
BY DEF PassIs, FoundIs, PassCalls

LEMMA BinariesGoOn ==
  ASSUME NEW Q, NEW c \in BinaryCalls(Q), NEW l \in Names
  PROVE  /\ LeftIs(c, l) \in BinaryCalls(Q) /\ LeftIs(c, l).op = "binaries"
         /\ c.left \in Names /\ c.src \in Q
BY DEF LeftIs, BinaryCalls

LEMMA ExtraCalls ==
  ASSUME phase = "extras"
  PROVE  /\ Current = Extra
         /\ PassCalls(DOMAIN sources) \subseteq CallSet /\ BinaryCalls(DOMAIN sources) \subseteq CallSet
         /\ \A x \in PackageCalls(Extra, DOMAIN packages) : x \in CallSet
<1>1. Current = Extra
  BY DEF Current
<1>2. ASSUME NEW x \in PassCalls(DOMAIN sources) PROVE x \in CallSet
  <2>1. x.op = "pass"
    BY DEF PassCalls
  <2>2. Mode(x, phase)
    BY <2>1 DEF Mode
  <2>. QED
    BY <2>2 DEF CallSet, Calls
<1>3. ASSUME NEW x \in BinaryCalls(DOMAIN sources) PROVE x \in CallSet
  <2>1. x.op = "binaries"
    BY DEF BinaryCalls
  <2>2. Mode(x, phase)
    BY <2>1 DEF Mode
  <2>. QED
    BY <2>2 DEF CallSet, Calls
<1>4. ASSUME NEW x \in PackageCalls(Extra, DOMAIN packages) PROVE x \in CallSet
  <2>1. x.op \in {"package", "source"}
    BY DEF PackageCalls
  <2>2. Mode(x, phase)
    BY <2>1 DEF Mode
  <2>. QED
    BY <1>1, <2>2 DEF CallSet, Calls
<1>. QED
  BY <1>1, <1>2, <1>3, <1>4

LEMMA AddExtrasStack ==
  ASSUME SeedsInv, ListsInv, addExtras
  PROVE  /\ StackInv' /\ Current' = Extra
         /\ \E x \in CallSet' : stack' = <<x>> /\ x.op = "pass"
<1>1. /\ phase' = "extras" /\ stack' = <<PassCall(FALSE)>>
      /\ UNCHANGED <<packages, sources>> /\ _newSeed(Extra)
  BY DEF addExtras, archiveVars
<1>. DEFINE x == PassCall(FALSE)
            Q == DOMAIN sources
<1>2. x \in PassCalls(Q) /\ x.op = "pass"
  BY DEF PassCall, PassCalls, ListsInv
<1>3. Current' = Extra /\ x \in CallSet'
  <2>1. Current' = Extra
    BY <1>1 DEF Current
  <2>2. Mode(x, "extras")
    BY <1>2 DEF Mode
  <2>. QED
    BY <1>1, <1>2, <2>1, <2>2 DEF CallSet, Calls
<1>4. stack' = <<x>>
  BY <1>1
<1>. HIDE DEF x
<1>6. <<x>> \in Seq(CallSet') /\ Len(<<x>>) = 1 /\ <<x>>[1] = x
  BY <1>3, Single
<1>7. Shape(<<x>>)
  BY <1>2, <1>6 DEF Shape
<1>. QED
  BY <1>1, <1>2, <1>3, <1>4, <1>6, <1>7 DEF StackInv, Growing

LEMMA TwoCalls ==
  ASSUME NEW C, NEW a \in C, NEW b \in C, NEW st \in Seq(C), Len(st) = 1,
         NEW r, r = <<a, b>> \o Tail(st)
  PROVE  r \in Seq(C) /\ Len(r) = 2 /\ r[1] = a /\ r[2] = b
<1>. DEFINE two == <<a, b>>
<1>1. two \in Seq(C) /\ Len(two) = 2 /\ two[1] = a /\ two[2] = b
  OBVIOUS
<1>2. r = two \o Tail(st) /\ st # <<>>
  OBVIOUS
<1>. HIDE DEF two
<1>3. /\ r \in Seq(C) /\ Len(r) = Len(two) + Len(st) - 1
      /\ \A i \in 1..Len(two) : i \in 1..Len(r) /\ r[i] = two[i]
  BY <1>1, <1>2, Replaced
<1>. QED
  BY <1>1, <1>3

LEMMA OneCall ==
  ASSUME NEW C, NEW a \in C, NEW st \in Seq(C), Len(st) = 2, NEW r, r = <<a>> \o Tail(st)
  PROVE  r \in Seq(C) /\ Len(r) = 2 /\ r[1] = a /\ r[2] = st[2]
<1>. DEFINE one == <<a>>
<1>1. one \in Seq(C) /\ Len(one) = 1 /\ one[1] = a
  BY Single
<1>2. r = one \o Tail(st) /\ st # <<>>
  OBVIOUS
<1>. HIDE DEF one
<1>3. r \in Seq(C) /\ Len(r) = Len(one) + Len(st) - 1
  BY <1>1, <1>2, Replaced
<1>5. \A i \in 1..Len(one) : i \in 1..Len(r) /\ r[i] = one[i]
  BY <1>1, <1>2, Replaced
<1>6. r[2] = st[2]
  <2>1. PICK t \in Seq(C) : t = Tail(st) /\ Len(t) = 1 /\ t[1] = st[2]
    <3>1. Tail(st) \in Seq(C) /\ Len(Tail(st)) = 1
      BY <1>2, InnermostCall
    <3>2. \A i \in 1 .. Len(st) - 1 : Tail(st)[i] = st[i + 1]
      BY <1>2, InnermostCall
    <3>3. 1 \in 1 .. Len(st) - 1 /\ 1 + 1 = 2
      OBVIOUS
    <3>. QED
      BY <3>1, <3>2, <3>3
  <2>2. r = one \o t
    BY <1>2, <2>1
  <2>3. (one \o t)[Len(one) + 1] = t[1]
    BY <1>1, <2>1, ConcatProperties
  <2>4. Len(one) + 1 = 2
    BY <1>1
  <2>5. (one \o t)[2] = t[1]
    BY <2>3, <2>4
  <2>. QED
    BY <2>1, <2>2, <2>5
<1>. QED
  BY <1>1, <1>3, <1>5, <1>6

(* A call more, before the two at the bottom.                              *)
LEMMA ThreeCalls ==
  ASSUME NEW C, NEW a \in C, NEW b \in C, NEW c \in C, NEW r, r = <<a>> \o <<b>> \o <<c>>
  PROVE  r \in Seq(C) /\ Len(r) = 3 /\ r[1] = a /\ r[2] = b /\ r[3] = c
<1>1. ASSUME NEW u \in Seq(C), NEW v \in Seq(C)
      PROVE  /\ (u \o v) \in Seq(C) /\ Len(u \o v) = Len(u) + Len(v)
             /\ \A i \in 1..Len(u) : (u \o v)[i] = u[i]
             /\ \A i \in 1..Len(v) : (u \o v)[Len(u) + i] = v[i]
  OBVIOUS
<1>. DEFINE x == <<a>>
            y == <<b>>
            z == <<c>>
<1>2. /\ x \in Seq(C) /\ Len(x) = 1 /\ x[1] = a
      /\ y \in Seq(C) /\ Len(y) = 1 /\ y[1] = b
      /\ z \in Seq(C) /\ Len(z) = 1 /\ z[1] = c
  BY Single
<1>3. r = (x \o y) \o z
  OBVIOUS
<1>. HIDE DEF x, y, z
<1>. DEFINE w == x \o y
<1>4. w \in Seq(C) /\ Len(w) = 2 /\ w[1] = a /\ w[2] = b
  <2>1. 1 \in 1..Len(x) /\ 1 \in 1..Len(y) /\ Len(x) + 1 = 2
    BY <1>2
  <2>. QED
    BY <1>1, <1>2, <2>1
<1>5. r = w \o z
  BY <1>3
<1>. HIDE DEF w
<1>6. 1 \in 1..Len(w) /\ 2 \in 1..Len(w) /\ 1 \in 1..Len(z) /\ Len(w) + 1 = 3
  BY <1>2, <1>4
<1>. QED
  BY <1>1, <1>2, <1>4, <1>5, <1>6

(* The calls at the bottom of the stack while extra is filled.             *)
LEMMA PassAlone ==
  ASSUME StackInv, Running("pass")
  PROVE  /\ phase = "extras" /\ Len(stack) = 1 /\ stack \in Seq(CallSet) /\ stack # <<>>
         /\ call \in PassCalls(DOMAIN sources) /\ stack[1] = call
<1>1. /\ stack # <<>> /\ stack \in Seq(CallSet) /\ Shape(stack)
      /\ call \in CallSet /\ call.op = "pass" /\ stack[1] = call
  BY HeadCall
<1>2. call \in PassCalls(DOMAIN sources) /\ Mode(call, phase)
  BY <1>1, CallKinds DEF CallSet
<1>3. 1 \in 1..Len(stack)
  BY <1>1
<1>. QED
  BY <1>1, <1>2, <1>3 DEF Shape, Mode

LEMMA BinariesAbovePass ==
  ASSUME StackInv, Running("binaries")
  PROVE  /\ phase = "extras" /\ Len(stack) = 2 /\ stack \in Seq(CallSet) /\ stack # <<>>
         /\ call \in BinaryCalls(DOMAIN sources) /\ stack[1] = call
         /\ stack[2] \in PassCalls(DOMAIN sources)
<1>1. /\ stack # <<>> /\ stack \in Seq(CallSet) /\ Shape(stack)
      /\ call \in CallSet /\ call.op = "binaries" /\ stack[1] = call
  BY HeadCall
<1>2. call \in BinaryCalls(DOMAIN sources) /\ Mode(call, phase)
  BY <1>1, CallKinds DEF CallSet
<1>3. 1 \in 1..Len(stack)
  BY <1>1
<1>4. Len(stack) = 2 /\ stack[2].op = "pass"
  <2>1. 1 + 1 = Len(stack) /\ stack[1 + 1].op = "pass"
    BY <1>1, <1>3 DEF Shape
  <2>. QED
    BY <2>1
<1>5. stack[2] \in CallSet
  BY <1>1, <1>4
<1>6. stack[2] \in PassCalls(DOMAIN sources)
  BY <1>4, <1>5, CallKinds DEF CallSet
<1>. QED
  BY <1>1, <1>2, <1>4, <1>6 DEF Mode

LEMMA ExtraSame ==
  ASSUME phase = "extras", phase' = phase, packages' = packages, sources' = sources,
         UNCHANGED seeds
  PROVE  CallSet' = CallSet
BY DEF CallSet, Current

(* Two calls: a source's binaries, and what is left of the pass.           *)
LEMMA TwoAreShaped ==
  ASSUME NEW C, NEW r \in Seq(C), Len(r) = 2, r[1].op = "binaries", r[2].op = "pass"
  PROVE  Shape(r)
BY DEF Shape

LEMMA ExtraPassStack ==
  ASSUME ArchiveInv, StackInv, ListsInv, extraPass
  PROVE  StackInv' /\ \A x \in ToSet(stack') : x.op \in {"pass", "binaries"}
<1>. DEFINE Q == DOMAIN sources
            c == call
<1>1. /\ phase = "extras" /\ Len(stack) = 1 /\ stack \in Seq(CallSet) /\ stack # <<>>
      /\ c \in PassCalls(Q)
  BY PassAlone DEF extraPass
<1>2. phase' = phase /\ UNCHANGED <<seeds, packages, sources, grown, names, structure>>
  BY DEF extraPass, structureVars, parseVars, archiveVars, plantVars
<1>3. CallSet' = CallSet
  BY <1>1, <1>2, ExtraSame
<1>4. c.srcs \subseteq Q
  BY <1>1 DEF PassCalls
<1>5. CASE c.srcs = {} /\ c.found
  <2>. DEFINE x == PassCall(FALSE)
  <2>1. stack' = <<x>>
    BY <1>5 DEF extraPass
  <2>2. x \in PassCalls(Q) /\ x.op = "pass"
    BY DEF PassCall, PassCalls, ListsInv
  <2>3. x \in CallSet
    BY <1>1, <2>2, ExtraCalls
  <2>. HIDE DEF x
  <2>4. <<x>> \in Seq(CallSet) /\ Len(<<x>>) = 1 /\ <<x>>[1] = x /\ ToSet(<<x>>) = {x}
    BY <2>3, Single
  <2>5. Shape(<<x>>)
    BY <2>2, <2>4 DEF Shape
  <2>. QED
    BY <1>1, <1>2, <1>3, <2>1, <2>2, <2>4, <2>5 DEF StackInv, Growing
<1>6. CASE c.srcs = {} /\ ~c.found
  <2>1. Return
    BY <1>6 DEF extraPass
  <2>2. Pushes
    BY <1>1, <2>1, ReturnPushes DEF Growing
  <2>3. ToSet(stack') = {}
    <3>1. stack' = <<>>
      BY <1>1, <2>1 DEF Return
    <3>. QED
      BY <3>1, ToSetProperties
  <2>. QED
    BY <1>1, <1>2, <2>2, <2>3, PushesKeep DEF Growing
<1>7. CASE c.srcs # {}
  <2>1. PICK src \in c.srcs :
          Calling(<<[op |-> "binaries", src |-> src, left |-> sources[src].binaries],
                    [c EXCEPT !.srcs = @ \ {src}]>>)
    BY <1>7 DEF extraPass
  <2>. DEFINE b == [op |-> "binaries", src |-> src, left |-> sources[src].binaries]
              A == c.srcs \ {src}
              p == PassIs(c, A)
  <2>2. b \in BinaryCalls(Q) /\ b.op = "binaries"
    <3>1. sources[src] \in SourceSection /\ src \in Q
      BY <1>4 DEF ArchiveInv
    <3>2. sources[src].binaries \in Names
      BY <3>1, Sections DEF Names
    <3>. QED
      BY <3>1, <3>2 DEF BinaryCalls
  <2>3. p \in PassCalls(Q) /\ p.op = "pass"
    <3>. HIDE DEF c
    <3>1. A \in SUBSET Q
      BY <1>4
    <3>. HIDE DEF A
    <3>. QED
      BY <1>1, <3>1, PassGoesOn
  <2>4. stack' = <<b, p>> \o Tail(stack)
    BY <2>1 DEF Calling, PassIs
  <2>5. b \in CallSet /\ p \in CallSet
    BY <1>1, <2>2, <2>3, ExtraCalls
  <2>. HIDE DEF b, p, c
  <2>6. stack' \in Seq(CallSet) /\ Len(stack') = 2 /\ stack'[1] = b /\ stack'[2] = p
    BY <1>1, <2>4, <2>5, TwoCalls
  <2>7. Shape(stack')
    BY <2>2, <2>3, <2>6, TwoAreShaped
  <2>8. ToSet(stack') = {b, p}
    BY <2>6 DEF ToSet
  <2>. QED
    BY <1>1, <1>2, <1>3, <2>2, <2>3, <2>6, <2>7, <2>8 DEF StackInv, Growing
<1>. QED
  BY <1>5, <1>6, <1>7

(* extraBinary: what it seeds is a package, that it calls for.             *)
CallsFor(p) ==
  \E x \in ToSet(stack') :
    x.op = "package" /\ x.seed = Extra /\ x.pkg = p /\ x.tree = FALSE

LEMMA ExtraBinaryIs ==
  ASSUME StackInv, extraBinary
  PROVE  /\ StackInv' /\ phase = "extras" /\ phase' = phase
         /\ \/ UNCHANGED seed
            \/ \E p \in DOMAIN packages : /\ p \notin all /\ CallsFor(p)
                                          /\ seed' = [seed EXCEPT ![Extra] = Append(@, p)]
         /\ \A x \in ToSet(stack') : \/ x \in ToSet(stack) \/ x.op \in {"binaries", "pass"}
                                     \/ x.op = "package" /\ x.tree = FALSE /\ x.second = TRUE
<1>. DEFINE Q == DOMAIN sources
            c == call
            p == c.left[1]
            left == Tail(c.left)
            rest == <<[c EXCEPT !.left = Tail(@)]>>
<1>1. /\ phase = "extras" /\ Len(stack) = 2 /\ stack \in Seq(CallSet) /\ stack # <<>>
      /\ c \in BinaryCalls(Q) /\ stack[1] = c /\ stack[2] \in PassCalls(Q)
  BY BinariesAbovePass DEF extraBinary
<1>2. phase' = phase /\ UNCHANGED <<seeds, packages, sources, grown, names, structure>>
  BY DEF extraBinary, structureVars, parseVars, archiveVars, plantVars
<1>3. CallSet' = CallSet
  BY <1>1, <1>2, ExtraSame
<1>4. CASE c.left = <<>>
  <2>1. Return /\ UNCHANGED seed
    BY <1>4 DEF extraBinary
  <2>2. Pushes
    BY <1>1, <2>1, ReturnPushes DEF Growing
  <2>3. StackInv'
    BY <1>1, <1>2, <2>2, PushesKeep DEF Growing
  <2>4. ToSet(stack') \subseteq ToSet(stack)
    <3>. DEFINE C == CallSet
    <3>1. stack \in Seq(C)
      BY <1>1
    <3>. HIDE DEF C
    <3>2. ToSet(stack) = {stack[1]} \cup ToSet(Tail(stack))
      BY <1>1, <3>1, ToSetTail
    <3>. QED
      BY <2>1, <3>2 DEF Return
  <2>. QED
    BY <1>1, <1>2, <2>1, <2>3, <2>4
<1>5. CASE c.left # <<>>
  <2>1. left \in Names
    <3>1. c.left \in Names
      BY <1>1 DEF BinaryCalls
    <3>2. Tail(c.left) \in Seq(STRING)
      BY <1>5, <3>1, InnermostCall DEF Names
    <3>. QED
      BY <3>2 DEF Names
  <2>. DEFINE b == LeftIs(c, left)
  <2>2. b \in BinaryCalls(Q) /\ b.op = "binaries" /\ rest = <<b>>
    BY <1>1, <2>1, BinariesGoOn DEF LeftIs
  <2>3. b \in CallSet
    BY <1>1, <2>2, ExtraCalls
  <2>4. CASE ~IsExtra(c.src, p)
    <3>. DEFINE one == <<b>>
    <3>1. stack' = one \o Tail(stack) /\ UNCHANGED seed
      BY <1>5, <2>2, <2>4 DEF extraBinary, Calling
    <3>2. one \in Seq(CallSet) /\ Len(one) = 1 /\ one[1] = b /\ ToSet(one) = {b}
      BY <2>3, Single
    <3>. HIDE DEF one, b, c
    <3>3. stack' = <<b>> \o Tail(stack)
      BY <3>1 DEF one
    <3>4. stack' \in Seq(CallSet) /\ Len(stack') = 2 /\ stack'[1] = b /\ stack'[2] = stack[2]
      BY <1>1, <2>3, <3>3, OneCall
    <3>5. stack[2].op = "pass"
      BY <1>1 DEF PassCalls
    <3>6. Shape(stack')
      BY <2>2, <3>4, <3>5, TwoAreShaped
    <3>7. StackInv'
      BY <1>1, <1>2, <1>3, <3>4, <3>6 DEF StackInv, Growing
    <3>8. ToSet(stack') \subseteq {b} \cup ToSet(stack)
      BY <1>1, <3>1, <3>2, PushedSets
    <3>. QED
      BY <1>1, <1>2, <2>2, <3>1, <3>7, <3>8
  <2>5. CASE IsExtra(c.src, p)
    <3>. DEFINE pc == PackageCall(Extra, p, TRUE, FALSE, FALSE)
                q == FoundIs(stack[2])
    <3>1. /\ seed' = [seed EXCEPT ![Extra] = Append(@, p)] /\ p \in DOMAIN packages /\ p \notin all
          /\ stack' = <<pc>> \o <<b>> \o <<q>>
      BY <1>5, <2>2, <2>5 DEF extraBinary, IsExtra, FoundIs
    <3>2. /\ pc \in PackageCalls(Extra, DOMAIN packages) /\ pc.op = "package"
          /\ pc.tree = FALSE /\ pc.second = TRUE /\ pc.seed = Extra /\ pc.pkg = p
      BY <3>1 DEF PackageCall, PackageCalls
    <3>3. q \in PassCalls(Q) /\ q.op = "pass"
      <4>1. {} \in SUBSET Q
        OBVIOUS
      <4>. QED
        BY <1>1, <4>1, PassGoesOn
    <3>4. pc \in CallSet /\ q \in CallSet
      BY <1>1, <3>2, <3>3, ExtraCalls
    <3>. HIDE DEF pc, q, b, c
    <3>5. /\ stack' \in Seq(CallSet) /\ Len(stack') = 3
          /\ stack'[1] = pc /\ stack'[2] = b /\ stack'[3] = q
      BY <2>3, <3>1, <3>4, ThreeCalls
    <3>6. Shape(stack')
      BY <2>2, <3>2, <3>3, <3>5 DEF Shape
    <3>7. StackInv'
      BY <1>1, <1>2, <1>3, <3>5, <3>6 DEF StackInv, Growing
    <3>8. ToSet(stack') = {pc, b, q}
      BY <3>5 DEF ToSet
    <3>9. CallsFor(p)
      BY <3>2, <3>8 DEF CallsFor
    <3>. QED
      BY <1>1, <1>2, <2>2, <3>1, <3>2, <3>3, <3>7, <3>8, <3>9
  <2>. QED
    BY <2>4, <2>5
<1>. QED
  BY <1>4, <1>5

-----------------------------------------------------------------------------
(* What is seeded stays in the archive.                                    *)
SeedTyped(f) == \A s \in ToSet(seeds) : f[s] \in Seq(DOMAIN packages)

LEMMA PlantTyped ==
  ASSUME SeedsInv, ListsInv, NEW s, NEW new \in Seq(DOMAIN packages), NEW named,
         Plant(s, new, named)
  PROVE  SeedTyped(seed') /\ SeedTyped(seedrecommends')
<1>1. ASSUME NEW f, DOMAIN f = ToSet(seeds), SeedTyped(f), NEW g, g = [f EXCEPT ![s] = @ \o new]
      PROVE  SeedTyped(g)
  <2>1. ASSUME NEW t \in ToSet(seeds) PROVE g[t] \in Seq(DOMAIN packages)
    <3>1. f[t] \in Seq(DOMAIN packages)
      BY <1>1 DEF SeedTyped
    <3>2. (f[t] \o new) \in Seq(DOMAIN packages)
      BY <3>1, ConcatProperties
    <3>3. g[t] = f[t] \/ g[t] = f[t] \o new
      BY <1>1
    <3>. QED
      BY <3>1, <3>2, <3>3
  <2>. QED
    BY <2>1 DEF SeedTyped
<1>2. /\ DOMAIN seed = ToSet(seeds) /\ DOMAIN seedrecommends = ToSet(seeds)
      /\ SeedTyped(seed) /\ SeedTyped(seedrecommends)
  BY DEF SeedsInv, SeedDomains, ListsInv, SeedTyped
<1>3. CASE named \in call.recs
  <2>1. seedrecommends' = [seedrecommends EXCEPT ![s] = @ \o new] /\ seed' = seed
    BY <1>3 DEF Plant
  <2>. QED
    BY <1>1, <1>2, <2>1
<1>4. CASE named \notin call.recs
  <2>1. seed' = [seed EXCEPT ![s] = @ \o new] /\ seedrecommends' = seedrecommends
    BY <1>4 DEF Plant
  <2>. QED
    BY <1>1, <1>2, <2>1
<1>. QED
  BY <1>3, <1>4

LEMMA PlantStepTyped ==
  ASSUME SeedsInv, ArchiveInv, ListsInv, plantPackage \/ plantHints
  PROVE  SeedTyped(seed') /\ SeedTyped(seedrecommends')
<1>. DEFINE P == DOMAIN packages
<1>1. CASE plantPackage
  <2>. DEFINE s == call.seed
              pkg == call.pkgs[1]
              new == IF Hint(pkg) \notin {"", s} THEN <<>>
                ELSE IF pkg \in DOMAIN packages
                THEN IF WrongKernel(pkg, options[s].kernels) THEN <<>> ELSE <<pkg>>
                ELSE AppendNew(<<>>, Get(provides, pkg, <<>>))
              kept == {p \in ToSet(new) : ~alreadySeeded(s, p)}
  <2>1. Plant(s, Keep(new, kept), pkg)
    BY <1>1 DEF plantPackage
  <2>2. <<>> \in Seq(P) /\ (pkg \in P => <<pkg>> \in Seq(P))
    BY Single
  <2>3. AppendNew(<<>>, Get(provides, pkg, <<>>)) \in Seq(P)
    <3>1. Get(provides, pkg, <<>>) \in Seq(P)
      <4>1. PICK D \in SUBSET STRING : provides \in [D -> Seq(P)]
        BY DEF ArchiveInv, ProvidersOf
      <4>2. \A v \in DOMAIN provides : provides[v] \in Seq(P)
        BY <4>1
      <4>. QED
        BY <2>2, <4>2 DEF Get
    <3>. DEFINE g == Get(provides, pkg, <<>>)
    <3>2. g \in Seq(P)
      BY <3>1
    <3>. HIDE DEF g
    <3>. QED
      BY <2>2, <3>2, AppendNewProperties DEF g
  <2>4. new \in Seq(P)
    BY <2>2, <2>3
  <2>. HIDE DEF new, kept
  <2>5. Keep(new, kept) \in Seq(P)
    BY <2>4, KeepProperties
  <2>. QED
    BY <2>1, <2>5, PlantTyped
<1>2. CASE plantHints
  <2>1. \/ UNCHANGED seedVars
        \/ \E p \in P : Plant(call.seed, <<p>>, p)
    BY <1>2 DEF plantHints
  <2>2. CASE UNCHANGED seedVars
    BY <2>2 DEF seedVars, ListsInv, SeedTyped
  <2>3. ASSUME NEW p \in P, Plant(call.seed, <<p>>, p)
        PROVE  SeedTyped(seed') /\ SeedTyped(seedrecommends')
    <3>. DEFINE one == <<p>>
    <3>1. one \in Seq(P) /\ Plant(call.seed, one, p)
      BY <2>3, Single
    <3>. HIDE DEF one
    <3>. QED
      BY <3>1, PlantTyped
  <2>. QED
    BY <2>1, <2>2, <2>3
<1>. QED
  BY <1>1, <1>2

(* What a package is removed from, or weeded out of, keeps others.         *)
LEMMA CallsTyped ==
  ASSUME SeedsInv, ArchiveInv, ListsInv, CallStep
  PROVE  /\ SeedTyped(seed') /\ SeedTyped(seedrecommends')
         /\ \A s \in ToSet(seeds) : ToSet(seed'[s]) \subseteq ToSet(seed[s])
                                    /\ ToSet(seedrecommends'[s]) \subseteq ToSet(seedrecommends[s])
<1>1. ASSUME NEW f, DOMAIN f = ToSet(seeds), SeedTyped(f), NEW g, NEW from, NEW p,
             g = [f EXCEPT ![from] = RemoveFirst(@, p)] \/ g = f
      PROVE  SeedTyped(g) /\ \A s \in ToSet(seeds) : ToSet(g[s]) \subseteq ToSet(f[s])
  <2>1. ASSUME NEW t \in ToSet(seeds)
        PROVE  g[t] \in Seq(DOMAIN packages) /\ ToSet(g[t]) \subseteq ToSet(f[t])
    <3>1. f[t] \in Seq(DOMAIN packages)
      BY <1>1 DEF SeedTyped
    <3>2. /\ RemoveFirst(f[t], p) \in Seq(DOMAIN packages)
          /\ ToSet(RemoveFirst(f[t], p)) \subseteq ToSet(f[t])
      BY <3>1, RemoveFirstTyped
    <3>3. g[t] = f[t] \/ g[t] = RemoveFirst(f[t], p)
      BY <1>1
    <3>. QED
      BY <3>1, <3>2, <3>3
  <2>. QED
    BY <2>1 DEF SeedTyped
<1>2. /\ DOMAIN seed = ToSet(seeds) /\ DOMAIN seedrecommends = ToSet(seeds)
      /\ SeedTyped(seed) /\ SeedTyped(seedrecommends)
  BY DEF SeedsInv, SeedDomains, ListsInv, SeedTyped
<1>3. CASE UNCHANGED seedVars
  BY <1>2, <1>3 DEF seedVars
<1>4. CASE refusePackage \/ addPackage \/ addSource \/ checkSatisfied \/ newDependency
  BY <1>3, <1>4 DEF refusePackage, addPackage, addSource, checkSatisfied, newDependency
<1>5. CASE startRescue \/ rescueSource
  BY <1>3, <1>5 DEF startRescue, rescueSource
<1>6. CASE promoteDependency
  <2>1. UNCHANGED seedVars \/ \E p : LeavesList(p)
    BY <1>6, PromoteIs DEF seedVars
  <2>2. CASE \E p : LeavesList(p) /\ ~UNCHANGED seedVars
    <3>1. PICK p, from : /\ seed' = [seed EXCEPT ![from] = RemoveFirst(@, p)]
                         /\ seedrecommends' = [seedrecommends EXCEPT ![from] = RemoveFirst(@, p)]
      BY <2>2 DEF LeavesList
    <3>2. SeedTyped(seed') /\ \A s \in ToSet(seeds) : ToSet(seed'[s]) \subseteq ToSet(seed[s])
      BY <1>1, <1>2, <3>1
    <3>3. /\ SeedTyped(seedrecommends')
          /\ \A s \in ToSet(seeds) : ToSet(seedrecommends'[s]) \subseteq ToSet(seedrecommends[s])
      BY <1>1, <1>2, <3>1
    <3>. QED
      BY <3>2, <3>3
  <2>. QED
    BY <1>3, <2>1, <2>2
<1>7. CASE rescuePackage
  <2>1. /\ seedrecommends' = seedrecommends
        /\ \E p, from : seed' = [seed EXCEPT ![from] = RemoveFirst(@, p)] \/ seed' = seed
    BY <1>7 DEF rescuePackage
  <2>2. PICK p, from : seed' = [seed EXCEPT ![from] = RemoveFirst(@, p)] \/ seed' = seed
    BY <2>1
  <2>3. SeedTyped(seed') /\ \A s \in ToSet(seeds) : ToSet(seed'[s]) \subseteq ToSet(seed[s])
    BY <1>1, <1>2, <2>2
  <2>. QED
    BY <1>2, <2>1, <2>3
<1>. QED
  BY <1>4, <1>5, <1>6, <1>7 DEF CallStep

(* Sources in use: the one that addSource adds is one of the archive's.    *)
SourcesTyped ==
  /\ all_srcs' \subseteq DOMAIN sources
  /\ \A s \in ToSet(seeds) : build_srcs'[s] \subseteq all_srcs' /\ not_build_srcs'[s] \subseteq all_srcs'

LEMMA CallSources ==
  ASSUME SeedsInv, ListsInv, CallStep
  PROVE  SourcesTyped
<1>1. CASE UNCHANGED sourceVars
  BY <1>1 DEF sourceVars, ListsInv, SourcesTyped
<1>2. CASE refusePackage \/ addPackage \/ checkSatisfied \/ promoteDependency \/ newDependency
  BY <1>1, <1>2 DEF refusePackage, addPackage, checkSatisfied, promoteDependency, newDependency
<1>3. CASE startRescue \/ rescueSource \/ rescuePackage
  BY <1>1, <1>3 DEF startRescue, rescueSource, rescuePackage
<1>4. CASE addSource
  <2>1. \/ UNCHANGED sourceVars
        \/ \E src \in DOMAIN sources : \E s :
             /\ all_srcs' = all_srcs \cup {src}
             /\ build_srcs' = [build_srcs EXCEPT ![s] = @ \cup {src}]
             /\ \/ not_build_srcs' = not_build_srcs
                \/ not_build_srcs' = [not_build_srcs EXCEPT ![s] = @ \cup {src}]
    BY <1>4 DEF addSource
  <2>2. ASSUME NEW src \in DOMAIN sources, NEW s,
               all_srcs' = all_srcs \cup {src},
               build_srcs' = [build_srcs EXCEPT ![s] = @ \cup {src}],
               \/ not_build_srcs' = not_build_srcs
               \/ not_build_srcs' = [not_build_srcs EXCEPT ![s] = @ \cup {src}]
        PROVE  SourcesTyped
    <3>1. ASSUME NEW f, DOMAIN f = ToSet(seeds), \A t \in ToSet(seeds) : f[t] \subseteq all_srcs,
                 NEW g, g = f \/ g = [f EXCEPT ![s] = @ \cup {src}]
          PROVE  \A t \in ToSet(seeds) : g[t] \subseteq all_srcs'
      BY <2>2, <3>1
    <3>2. /\ DOMAIN build_srcs = ToSet(seeds) /\ DOMAIN not_build_srcs = ToSet(seeds)
          /\ \A t \in ToSet(seeds) : build_srcs[t] \subseteq all_srcs
          /\ \A t \in ToSet(seeds) : not_build_srcs[t] \subseteq all_srcs
      BY DEF SeedsInv, SeedDomains, ListsInv
    <3>3. \A t \in ToSet(seeds) : build_srcs'[t] \subseteq all_srcs'
      BY <2>2, <3>1, <3>2
    <3>4. \A t \in ToSet(seeds) : not_build_srcs'[t] \subseteq all_srcs'
      BY <2>2, <3>1, <3>2
    <3>. QED
      BY <2>2, <3>3, <3>4 DEF ListsInv, SourcesTyped
  <2>. QED
    BY <1>1, <2>1, <2>2
<1>. QED
  BY <1>2, <1>3, <1>4 DEF CallStep

-----------------------------------------------------------------------------
(* The steps that leave the lists and the calls alone.                     *)
(* The phases once reverseDepends has told who depends on whom.            *)
Told == {"rdepends", "written", "noReason"}

Quiet ==
  /\ UNCHANGED <<seeds, options, seedVars, addedVars, dependVars, sourceVars, grown, stack>>
  /\ \/ /\ phase \in Before /\ phase' \in Before \cup {"cycle", "unknownParent", "noSeed", "plant"}
        /\ DOMAIN sources \subseteq DOMAIN sources'
     \/ /\ UNCHANGED <<names, inherit, structure, world, archiveVars, pruned>>
        /\ \/ phase' = phase
           \/ phase = "extras" /\ stack = <<>> /\ phase' = "done"
           \/ phase \in Told \cup {"done"} /\ phase' \in Told

LEMMA Steps ==
  ASSUME SeedsInv, [RdependsNext]_rdependsAllVars
  PROVE  \/ plantSeed \/ readLine \/ plantPackage \/ plantHints \/ prune \/ growSeed
         \/ rescueForBuild \/ CallStep \/ addExtras \/ extraPass \/ extraBinary \/ Quiet
<1>. USE DEF structureVars, parseVars, archiveVars, plantVars
<1>1. CASE UNCHANGED rdependsAllVars
  BY <1>1 DEF rdependsAllVars, vars, Quiet
<1>2. CASE writeRdependList \/ _writeRdependList
  BY <1>2 DEF writeRdependList, _writeRdependList, vars, Quiet
<1>3. CASE reverseDepends \/ writeLists
  BY <1>3 DEF reverseDepends, writeLists, Told, Quiet
<1>4. CASE finish
  BY <1>4 DEF finish, Quiet
<1>5. CASE sortStructure
  <2>1. /\ phase \in Before
        /\ phase' \in Before \cup {"cycle", "unknownParent", "noSeed", "plant"}
    BY <1>5 DEF sortStructure, StructureNext, IncludeBranch, FinishBranch, PopItem, PopNode,
                VisitParent, Popped, StartExpanding, ExpandInheritance, addSeedPackage, StartPlanting,
                Before
  <2>. QED
    BY <1>5, <2>1 DEF sortStructure, Quiet
<1>6. CASE parseArchive
  BY <1>6 DEF parseArchive, parsePackage, parseSource, Put, Quiet, Before
<1>. QED
  BY <1>1, <1>2, <1>3, <1>4, <1>5, <1>6 DEF RdependsNext, Next, CallStep

LEMMA StackKept ==
  ASSUME ParseInv, PlantInv, SeedsInv, ArchiveInv, StackInv, ListsInv,
         [RdependsNext]_rdependsAllVars
  PROVE  StackInv'
<1>1. CASE plantSeed \/ readLine \/ plantPackage \/ plantHints \/ prune
  BY <1>1, PlantStack
<1>2. CASE growSeed
  BY <1>2, GrowStack
<1>3. CASE rescueForBuild
  BY <1>3, RescueForBuildStack
<1>4. CASE CallStep
  <2>1. /\ Pushes /\ phase \in Growing /\ stack # <<>>
        /\ UNCHANGED <<phase, seeds, grown, names, structure, packages, sources>>
    BY <1>4, CallPushes
  <2>. QED
    BY <2>1, PushesKeep
<1>5. CASE addExtras
  BY <1>5, AddExtrasStack
<1>6. CASE extraPass
  BY <1>6, ExtraPassStack
<1>7. CASE extraBinary
  BY <1>7, ExtraBinaryIs
<1>8. CASE Quiet
  <2>1. CASE phase \in Before
    <3>1. stack = <<>> /\ stack' = stack
      BY <1>8, <2>1 DEF StackInv, Quiet, Before, Growing
    <3>2. phase' \notin Growing
      BY <1>8, <2>1 DEF Quiet, Before, Growing, Told
    <3>. QED
      BY <3>1, <3>2 DEF StackInv, Planting
  <2>2. CASE phase \notin Before
    <3>1. /\ UNCHANGED <<names, structure, packages, sources, seeds, grown, stack>>
          /\ \/ phase' = phase
             \/ phase = "extras" /\ stack = <<>> /\ phase' = "done"
             \/ phase \in Told \cup {"done"} /\ phase' \in Told
      BY <1>8, <2>2 DEF Quiet, archiveVars
    <3>2. CASE phase' = phase
      <4>1. CallSet' = CallSet
        BY <3>1, <3>2 DEF CallSet, Current, supported
      <4>. QED
        BY <3>1, <3>2, <4>1 DEF StackInv
    <3>3. CASE phase' # phase
      BY <3>1, <3>3 DEF StackInv, Growing, Told
    <3>. QED
      BY <3>2, <3>3
  <2>. QED
    BY <2>1, <2>2
<1>. QED
  BY <1>1, <1>2, <1>3, <1>4, <1>5, <1>6, <1>7, <1>8, Steps

LEMMA ListsKept ==
  ASSUME ParseInv, PlantInv, SeedsInv, ArchiveInv, StackInv, ListsInv,
         [RdependsNext]_rdependsAllVars
  PROVE  ListsInv'
<1>1. ASSUME UNCHANGED <<packages, sources, seeds>>, SeedTyped(seed'), SeedTyped(seedrecommends'),
             SourcesTyped
      PROVE  ListsInv'
  BY <1>1 DEF ListsInv, SeedTyped, SourcesTyped
<1>2. SeedTyped(seed) /\ SeedTyped(seedrecommends) /\ (UNCHANGED sourceVars => SourcesTyped)
  BY DEF ListsInv, SeedTyped, SourcesTyped, sourceVars
<1>3. CASE plantSeed \/ addExtras
  <2>1. CASE UNCHANGED <<seeds, options, seedVars, addedVars, dependVars, sourceVars>>
    <3>1. UNCHANGED <<packages, sources, seeds, seedVars, sourceVars>>
      <4>1. UNCHANGED <<packages, sources>>
        BY <1>3 DEF plantSeed, addExtras, archiveVars
      <4>. QED
        BY <2>1, <4>1
    <3>. QED
      BY <3>1, <1>1, <1>2 DEF seedVars
  <2>2. CASE \E s : _newSeed(s)
    <3>1. PICK s : _newSeed(s)
      BY <2>2
    <3>2. NewSeed(s) /\ UNCHANGED <<packages, sources>>
      BY <1>3, <3>1, NewSeedIs DEF plantSeed, addExtras, archiveVars
    <3>3. ToSet(seeds') = ToSet(seeds) \cup {s}
      <4>1. seeds \in Seq(SeedName) /\ seeds' = Append(seeds, s)
        BY <3>2 DEF NewSeed, SeedsInv
      <4>. QED
        BY <4>1, ToSetAppend
    <3>4. <<>> \in Seq(DOMAIN packages)
      OBVIOUS
    <3>5. \A t \in ToSet(seeds') :
            /\ seed'[t] \in Seq(DOMAIN packages) /\ seedrecommends'[t] \in Seq(DOMAIN packages)
            /\ build_srcs'[t] \subseteq all_srcs /\ not_build_srcs'[t] \subseteq all_srcs
      BY <3>2, <3>3, <3>4 DEF NewSeed, ListsInv
    <3>. QED
      BY <3>2, <3>5 DEF ListsInv, NewSeed
  <2>. QED
    BY <1>3, <2>1, <2>2 DEF plantSeed, addExtras
<1>4. CASE plantPackage \/ plantHints
  <2>1. UNCHANGED <<packages, sources, seeds, sourceVars>>
    BY <1>4 DEF plantPackage, plantHints, archiveVars, plantVars
  <2>. QED
    BY <1>1, <1>2, <1>4, <2>1, PlantStepTyped
<1>5. CASE readLine \/ prune \/ rescueForBuild \/ extraPass
  <2>1. UNCHANGED <<packages, sources, seeds, seedVars, sourceVars>>
    BY <1>5 DEF readLine, prune, rescueForBuild, extraPass, archiveVars, plantVars
  <2>. QED
    BY <1>1, <1>2, <2>1 DEF seedVars
<1>6. CASE CallStep
  <2>1. UNCHANGED <<packages, sources, seeds>>
    BY <1>6, CallPushes
  <2>. QED
    BY <1>1, <1>6, <2>1, CallsTyped, CallSources
<1>7. CASE growSeed
  <2>. DEFINE s == seeds[grown + 1]
              P == DOMAIN packages
  <2>1. UNCHANGED <<packages, sources, seeds, sourceVars>>
    BY <1>7 DEF growSeed, archiveVars, plantVars
  <2>2. s \in ToSet(seeds)
    <3>1. grown' = grown + 1 /\ seeds[grown'] \in ToSet(seeds)
      BY <1>7, GrowSeedIs
    <3>. QED
      BY <3>1
  <2>3. Weed(s, seed[s]) \in Seq(P) /\ Weed(s, seedrecommends[s]) \in Seq(P)
    BY <2>2, WeededTyped
  <2>4. /\ seed' = [seed EXCEPT ![s] = Weed(s, @)]
        /\ seedrecommends' = [seedrecommends EXCEPT ![s] = Weed(s, @)]
    BY <1>7 DEF growSeed
  <2>. HIDE DEF s
  <2>5. SeedTyped(seed') /\ SeedTyped(seedrecommends')
    BY <1>2, <2>2, <2>3, <2>4 DEF SeedTyped, SeedsInv, SeedDomains
  <2>. QED
    BY <1>1, <1>2, <2>1, <2>5
<1>8. CASE extraBinary
  <2>1. UNCHANGED <<packages, sources, seeds, seedrecommends, sourceVars>>
    BY <1>8 DEF extraBinary, archiveVars, plantVars
  <2>2. SeedTyped(seed')
    <3>1. CASE UNCHANGED seed
      BY <1>2, <3>1
    <3>2. CASE ~UNCHANGED seed
      <4>1. PICK p \in DOMAIN packages : seed' = [seed EXCEPT ![Extra] = Append(@, p)]
        BY <1>8, <3>2, ExtraBinaryIs
      <4>2. ASSUME NEW t \in ToSet(seeds) PROVE seed'[t] \in Seq(DOMAIN packages)
        <5>1. seed[t] \in Seq(DOMAIN packages)
          BY <1>2 DEF SeedTyped
        <5>2. Append(seed[t], p) \in Seq(DOMAIN packages)
          BY <5>1, AppendProperties
        <5>3. seed'[t] = seed[t] \/ seed'[t] = Append(seed[t], p)
          BY <4>1 DEF SeedsInv, SeedDomains
        <5>. QED
          BY <5>1, <5>2, <5>3
      <4>. QED
        BY <4>2 DEF SeedTyped
    <3>. QED
      BY <3>1, <3>2
  <2>. QED
    BY <1>1, <1>2, <2>1, <2>2
<1>9. CASE Quiet
  <2>1. UNCHANGED <<seeds, seedVars, sourceVars>>
    BY <1>9 DEF Quiet
  <2>2. CASE phase \in Before
    <3>1. seeds' = <<>> /\ ToSet(<<>>) = {}
      BY <2>1, <2>2, ToSetProperties DEF SeedsInv
    <3>2. DOMAIN sources \subseteq DOMAIN sources'
      BY <1>9, <2>2 DEF Quiet, archiveVars
    <3>3. all_srcs' \subseteq DOMAIN sources'
      BY <2>1, <3>2 DEF ListsInv, sourceVars
    <3>. QED
      BY <3>1, <3>3 DEF ListsInv
  <2>3. CASE phase \notin Before
    <3>1. UNCHANGED <<packages, sources>>
      BY <1>9, <2>3 DEF Quiet, archiveVars
    <3>. QED
      BY <1>1, <1>2, <2>1, <3>1 DEF seedVars
  <2>. QED
    BY <2>2, <2>3
<1>. QED
  BY <1>3, <1>4, <1>5, <1>6, <1>7, <1>8, <1>9, Steps

(* The calls in progress and what they work on are what they should be.    *)
LEMMA StackAlways == RdependsSpec => [](StackInv /\ ListsInv)
<1>1. RdependsInit => StackInv /\ ListsInv
  <2>. SUFFICES ASSUME Init PROVE StackInv /\ ListsInv
    BY DEF RdependsInit
  <2>1. /\ seeds = <<>> /\ stack = <<>> /\ phase \in {"parse", "archive"} /\ all_srcs = {}
        /\ ToSet(<<>>) = {}
    BY ToSetProperties DEF Init
  <2>. QED
    BY <2>1 DEF StackInv, ListsInv, Growing
<1>2. /\ ParseInv /\ PlantInv /\ SeedsInv /\ ArchiveInv /\ StackInv /\ ListsInv
      /\ [RdependsNext]_rdependsAllVars
      => (StackInv /\ ListsInv)'
  BY StackKept, ListsKept
<1>. QED
  BY <1>1, <1>2, ParseAlways, PlantAlways, SeedsAlways, ArchiveAlways, PTL DEF RdependsSpec

-----------------------------------------------------------------------------
(* The seed whose calls are in progress, and those it inherits from.       *)
LEMMA CurrentIs ==
  ASSUME ParseInv, PlantInv, SeedsInv, StackInv, phase \in Growing, stack # <<>>
  PROVE  /\ Current \in ToSet(seeds) /\ Current \in Inner(Current)
         /\ Inner(Current) \subseteq ToSet(seeds)
         /\ Current # "all" /\ "all" \notin ToSet(seeds)
         /\ SeedDomains(ToSet(seeds))
         /\ \A c \in CallSet : c.op \in Plain => c.seed = Current
<1>1. /\ seeds = names /\ supported \in ToSet(seeds) /\ "all" \notin ToSet(seeds)
      /\ \A s \in ToSet(seeds) : s \in Inner(s) /\ Inner(s) \subseteq ToSet(seeds)
  BY InnerSeeds DEF Growing, Early, Late
<1>2. Current \in ToSet(seeds)
  <2>1. CASE phase = "grow"
    <3>1. grown \in 1..Len(seeds) /\ seeds \in Seq(SeedName)
      BY <2>1 DEF StackInv, SeedsInv
    <3>. QED
      BY <2>1, <3>1 DEF Current, ToSet
  <2>2. CASE phase = "grown"
    BY <1>1, <2>2 DEF Current
  <2>3. CASE phase = "extras"
    BY <1>1, <2>3 DEF Current, PlantInv, Late
  <2>. QED
    BY <2>1, <2>2, <2>3 DEF Growing
<1>3. ASSUME NEW c \in CallSet, c.op \in Plain PROVE c.seed = Current
  <2>1. \/ c \in PackageCalls(Current, DOMAIN packages)
        \/ c \in TreeCalls(Current, DOMAIN packages)
        \/ c \in RescueCalls(Current, DOMAIN packages, DOMAIN sources, ToSet(seeds) \cup {Extra})
    BY <1>3, CallKinds DEF CallSet, Plain
  <2>. QED
    BY <2>1, PackageFields, TreeFields, RescueFields
<1>. QED
  BY <1>1, <1>2, <1>3 DEF SeedsInv

(* addPackage is the only step that lists a package or gives a reason.     *)
LEMMA OnlyAddPackage ==
  ASSUME CallStep \/ readLine \/ plantPackage \/ plantHints \/ prune \/ growSeed \/ rescueForBuild
         \/ extraPass \/ extraBinary \/ Quiet,
         ~addPackage
  PROVE  UNCHANGED addedVars
<1>1. CASE refusePackage \/ addSource \/ checkSatisfied \/ promoteDependency \/ newDependency
  BY <1>1 DEF refusePackage, addSource, checkSatisfied, promoteDependency, newDependency
<1>2. CASE startRescue \/ rescueSource \/ rescuePackage
  BY <1>2 DEF startRescue, rescueSource, rescuePackage
<1>3. CASE readLine \/ plantPackage \/ plantHints \/ prune \/ growSeed \/ rescueForBuild
  BY <1>3 DEF readLine, plantPackage, plantHints, prune, growSeed, rescueForBuild
<1>4. CASE extraPass \/ extraBinary \/ Quiet
  BY <1>4 DEF extraPass, extraBinary, Quiet
<1>. QED
  BY <1>1, <1>2, <1>3, <1>4 DEF CallStep

(* What _rememberWhy does to the tree of a reason.                         *)
Remembered(r, old, c) ==
  /\ DOMAIN r = DOMAIN old \cup {c.pkg}
  /\ \A q \in DOMAIN old : q # c.pkg => r[q] = old[q]
  /\ r[c.pkg].tree \in BOOLEAN
  /\ c.pkg \in DOMAIN old => (r[c.pkg].tree <=> old[c.pkg].tree /\ c.tree)
  /\ c.pkg \notin DOMAIN old => (r[c.pkg].tree <=> c.tree)

LEMMA RememberWhyIs ==
  ASSUME NEW list, NEW c, c.tree \in BOOLEAN, NEW r, r = rememberWhy(list, c),
         c.pkg \in DOMAIN why[list] => why[list][c.pkg].tree \in BOOLEAN
  PROVE  Remembered(r, why[list], c)
<1>. DEFINE old == why[list]
            new == [tree |-> c.tree, recs |-> c.recs]
<1>1. new.tree = c.tree
  OBVIOUS
<1>. HIDE DEF new
<1>2. CASE c.pkg \notin DOMAIN old
  <2>1. r = Put(old, c.pkg, new)
    BY <1>2 DEF rememberWhy, new
  <2>2. /\ DOMAIN r = DOMAIN old \cup {c.pkg} /\ r[c.pkg] = new
        /\ \A q \in DOMAIN old : q # c.pkg => r[q] = old[q]
    BY <2>1 DEF Put
  <2>. QED
    BY <1>1, <1>2, <2>2 DEF Remembered
<1>3. CASE c.pkg \in DOMAIN old
  <2>1. PICK t \in BOOLEAN : t = old[c.pkg].tree
    BY <1>3
  <2>2. \/ r = old /\ (t => c.tree) /\ (t = c.tree \/ ~t)
        \/ r = Put(old, c.pkg, new) /\ ~(~t /\ c.tree)
    <3>1. \/ r = old /\ (\/ ~t /\ c.tree
                         \/ t = c.tree /\ (~old[c.pkg].recs \/ c.recs))
          \/ /\ r = Put(old, c.pkg, new)
             /\ ~(\/ ~t /\ c.tree
                  \/ t = c.tree /\ (~old[c.pkg].recs \/ c.recs))
      BY <1>3, <2>1 DEF rememberWhy, new, Get
    <3>. QED
      BY <2>1, <3>1
  <2>3. CASE r = old /\ (t => c.tree) /\ (t = c.tree \/ ~t)
    BY <1>3, <2>1, <2>3 DEF Remembered
  <2>4. CASE r = Put(old, c.pkg, new) /\ ~(~t /\ c.tree)
    <3>1. /\ DOMAIN r = DOMAIN old \cup {c.pkg} /\ r[c.pkg] = new
          /\ \A q \in DOMAIN old : q # c.pkg => r[q] = old[q]
      BY <2>4 DEF Put
    <3>. QED
      BY <1>1, <1>3, <2>1, <2>4, <3>1 DEF Remembered
  <2>. QED
    BY <2>2, <2>3, <2>4
<1>. QED
  BY <1>2, <1>3

(* Why a package is listed: ReasonFitsList, and what it needs.             *)
ReasonInv ==
  /\ \A s \in ToSet(seeds) : \A p \in not_build[s] :
       p \in DOMAIN why[s] /\ ~why[s][p].tree /\ p \in DOMAIN why["all"]
  /\ \A s \in ToSet(seeds) \cup {"all"} : \A p \in DOMAIN why[s] : why[s][p].tree \in BOOLEAN
  /\ \A p \in DOMAIN why["all"] : why["all"][p].tree <=> \A t \in ToSet(seeds) : p \notin not_build[t]

(* The lists and the reasons after addPackage.                             *)
LEMMA AddedIs ==
  ASSUME ParseInv, PlantInv, SeedsInv, ArchiveInv, StackInv, ReasonInv, addPackage
  PROVE  /\ call.seed \in ToSet(seeds) /\ call.seed # "all" /\ call.tree \in BOOLEAN
         /\ Inner(call.seed) \subseteq ToSet(seeds) /\ call.seed \in Inner(call.seed)
         /\ why'[call.seed] = rememberWhy(call.seed, call)
         /\ why'["all"] = rememberWhy("all", call)
         /\ \A s \in ToSet(seeds) : s # call.seed => why'[s] = why[s]
         /\ \A s \in ToSet(seeds) : not_build[s] \subseteq not_build'[s]
                                    /\ not_build'[s] \subseteq not_build[s] \cup {call.pkg}
         /\ \A s \in ToSet(seeds) : s # call.seed => not_build'[s] = not_build[s]
         /\ call.tree => not_build' = not_build
         /\ ~call.tree => \E t \in Inner(call.seed) : call.pkg \in not_build'[t]
<1>. DEFINE c == call
<1>1. /\ c \in CallSet /\ c.op = "package" /\ phase \in Growing /\ stack # <<>>
  BY HeadCall DEF addPackage
<1>2. c.seed = Current /\ c.tree \in BOOLEAN
  <2>1. c \in PackageCalls(Current, DOMAIN packages)
    BY AddPackageIs
  <2>. QED
    BY <2>1, PackageFields
<1>3. /\ c.seed \in ToSet(seeds) /\ c.seed # "all" /\ "all" \notin ToSet(seeds)
      /\ Inner(c.seed) \subseteq ToSet(seeds) /\ c.seed \in Inner(c.seed)
      /\ SeedDomains(ToSet(seeds))
  BY <1>1, <1>2, CurrentIs
<1>4. /\ why' = [why EXCEPT ![c.seed] = rememberWhy(c.seed, c), !["all"] = rememberWhy("all", c)]
      /\ not_build' = IF c.tree THEN not_build ELSE AddIfNew(not_build, c.seed, c.pkg)
  BY DEF addPackage
<1>. HIDE DEF c
<1>5. /\ why'[c.seed] = rememberWhy(c.seed, c) /\ why'["all"] = rememberWhy("all", c)
      /\ \A s \in ToSet(seeds) : s # c.seed => why'[s] = why[s]
  BY <1>3, <1>4 DEF SeedDomains
<1>6. /\ \A s \in ToSet(seeds) : /\ not_build[s] \subseteq not_build'[s]
                                 /\ not_build'[s] \subseteq not_build[s] \cup {c.pkg}
                                 /\ s # c.seed => not_build'[s] = not_build[s]
      /\ c.tree => not_build' = not_build
      /\ ~c.tree => \E t \in Inner(c.seed) : c.pkg \in not_build'[t]
  BY <1>2, <1>3, <1>4 DEF SeedDomains, AddIfNew
<1>. QED
  BY <1>2, <1>3, <1>5, <1>6 DEF c

LEMMA AddPackageReasons ==
  ASSUME ParseInv, PlantInv, SeedsInv, ArchiveInv, StackInv, ReasonInv, addPackage
  PROVE  ReasonInv'
<1>. DEFINE c == call
            S == ToSet(seeds)
<1>1. /\ c.seed \in S /\ c.seed # "all" /\ c.tree \in BOOLEAN
      /\ Inner(c.seed) \subseteq S
      /\ why'[c.seed] = rememberWhy(c.seed, c) /\ why'["all"] = rememberWhy("all", c)
      /\ \A s \in S : s # c.seed => why'[s] = why[s]
      /\ \A s \in S : not_build[s] \subseteq not_build'[s]
                      /\ not_build'[s] \subseteq not_build[s] \cup {c.pkg}
      /\ \A s \in S : s # c.seed => not_build'[s] = not_build[s]
      /\ c.tree => not_build' = not_build
      /\ ~c.tree => \E t \in Inner(c.seed) : c.pkg \in not_build'[t]
  BY AddedIs
<1>2. seeds' = seeds
  BY DEF addPackage, plantVars
<1>. HIDE DEF c
<1>3. ASSUME NEW list \in {c.seed, "all"}
      PROVE  Remembered(why'[list], why[list], c)
  <2>1. c.pkg \in DOMAIN why[list] => why[list][c.pkg].tree \in BOOLEAN
    BY <1>1 DEF ReasonInv
  <2>. DEFINE r == why'[list]
  <2>2. r = rememberWhy(list, c)
    BY <1>1
  <2>. HIDE DEF r
  <2>3. Remembered(r, why[list], c)
    BY <1>1, <2>1, <2>2, RememberWhyIs
  <2>. QED
    BY <2>3 DEF r
<1>. DEFINE mine == why'[c.seed]
            every == why'["all"]
            pkg == c.pkg
<1>4. /\ DOMAIN mine = DOMAIN why[c.seed] \cup {pkg}
      /\ \A q \in DOMAIN why[c.seed] : q # pkg => mine[q] = why[c.seed][q]
      /\ mine[pkg].tree \in BOOLEAN
      /\ pkg \in DOMAIN why[c.seed] => (mine[pkg].tree <=> why[c.seed][pkg].tree /\ c.tree)
      /\ pkg \notin DOMAIN why[c.seed] => (mine[pkg].tree <=> c.tree)
  BY <1>3 DEF Remembered
<1>5. /\ DOMAIN every = DOMAIN why["all"] \cup {pkg}
      /\ \A q \in DOMAIN why["all"] : q # pkg => every[q] = why["all"][q]
      /\ every[pkg].tree \in BOOLEAN
      /\ pkg \in DOMAIN why["all"] => (every[pkg].tree <=> why["all"][pkg].tree /\ c.tree)
      /\ pkg \notin DOMAIN why["all"] => (every[pkg].tree <=> c.tree)
  BY <1>3 DEF Remembered
<1>6. ASSUME NEW s \in S, NEW p \in not_build'[s]
      PROVE  p \in DOMAIN why'[s] /\ ~why'[s][p].tree /\ p \in DOMAIN why'["all"]
  <2>1. p \in DOMAIN why'["all"]
    BY <1>1, <1>5, <1>6 DEF ReasonInv
  <2>2. CASE s # c.seed
    BY <1>1, <1>6, <2>1, <2>2 DEF ReasonInv
  <2>3. CASE s = c.seed /\ p # pkg
    <3>1. p \in not_build[s]
      BY <1>1, <1>6, <2>3
    <3>2. p \in DOMAIN why[s] /\ ~why[s][p].tree
      BY <3>1 DEF ReasonInv
    <3>. QED
      BY <1>4, <2>1, <2>3, <3>2
  <2>4. CASE s = c.seed /\ p = pkg
    <3>1. CASE c.tree
      <4>1. pkg \in not_build[s]
        BY <1>1, <1>6, <2>4, <3>1
      <4>2. pkg \in DOMAIN why[s] /\ ~why[s][pkg].tree
        BY <4>1 DEF ReasonInv
      <4>. QED
        BY <1>4, <2>1, <2>4, <4>2
    <3>2. CASE ~c.tree
      BY <1>4, <2>1, <2>4, <3>2
    <3>. QED
      BY <3>1, <3>2
  <2>. QED
    BY <2>2, <2>3, <2>4
<1>7. ASSUME NEW s \in S \cup {"all"}, NEW p \in DOMAIN why'[s]
      PROVE  why'[s][p].tree \in BOOLEAN
  <2>1. CASE s \in S /\ s # c.seed
    BY <1>1, <1>7, <2>1 DEF ReasonInv
  <2>2. CASE s = c.seed
    BY <1>1, <1>4, <1>7, <2>2 DEF ReasonInv
  <2>3. CASE s = "all"
    BY <1>5, <1>7, <2>3 DEF ReasonInv
  <2>. QED
    BY <2>1, <2>2, <2>3
<1>8. ASSUME NEW p \in DOMAIN every
      PROVE  every[p].tree <=> \A t \in S : p \notin not_build'[t]
  <2>1. CASE p # pkg
    <3>1. p \in DOMAIN why["all"] /\ every[p] = why["all"][p]
      BY <1>5, <2>1
    <3>2. why["all"][p].tree <=> \A t \in S : p \notin not_build[t]
      BY <3>1 DEF ReasonInv
    <3>3. \A t \in S : p \in not_build'[t] <=> p \in not_build[t]
      BY <1>1, <2>1
    <3>. QED
      BY <3>1, <3>2, <3>3
  <2>2. CASE p = pkg /\ ~c.tree
    <3>1. \E t \in S : pkg \in not_build'[t]
      BY <1>1, <2>2
    <3>2. ~every[pkg].tree
      BY <1>5, <2>2
    <3>. QED
      BY <2>2, <3>1, <3>2
  <2>3. CASE p = pkg /\ c.tree
    <3>1. not_build' = not_build
      BY <1>1, <2>3
    <3>2. CASE pkg \in DOMAIN why["all"]
      <4>1. why["all"][pkg].tree <=> \A t \in S : pkg \notin not_build[t]
        BY <3>2 DEF ReasonInv
      <4>2. every[pkg].tree <=> why["all"][pkg].tree
        BY <1>5, <2>3, <3>2
      <4>. QED
        BY <2>3, <3>1, <4>1, <4>2
    <3>3. CASE pkg \notin DOMAIN why["all"]
      <4>1. \A t \in S : pkg \notin not_build[t]
        BY <3>3 DEF ReasonInv
      <4>2. every[pkg].tree
        BY <1>5, <2>3, <3>3
      <4>. QED
        BY <2>3, <3>1, <4>1, <4>2
    <3>. QED
      BY <3>2, <3>3
  <2>. QED
    BY <1>1, <2>1, <2>2, <2>3
<1>. HIDE DEF mine, every, pkg
<1>. QED
  BY <1>2, <1>6, <1>7, <1>8 DEF ReasonInv, every

(* A new seed has no packages, and the reasons of the others stay.         *)
LEMMA NewSeedReasons ==
  ASSUME SeedsInv, ReasonInv, NEW s \in SeedName, s \notin ToSet(seeds), s # "all", _newSeed(s),
         "all" \notin ToSet(seeds)
  PROVE  ReasonInv'
<1>1. NewSeed(s)
  BY NewSeedIs
<1>2. ToSet(seeds') = ToSet(seeds) \cup {s}
  <2>1. seeds \in Seq(SeedName) /\ seeds' = Append(seeds, s)
    BY <1>1 DEF NewSeed, SeedsInv
  <2>. QED
    BY <2>1, ToSetAppend
<1>3. /\ \A t \in ToSet(seeds) : not_build'[t] = not_build[t] /\ why'[t] = why[t]
      /\ not_build'[s] = {} /\ why'[s] = <<>> /\ why'["all"] = why["all"]
  BY <1>1 DEF NewSeed
<1>4. DOMAIN why'[s] = {}
  BY <1>3
<1>5. \A t \in ToSet(seeds') : \A p \in not_build'[t] :
        p \in DOMAIN why'[t] /\ ~why'[t][p].tree /\ p \in DOMAIN why'["all"]
  BY <1>2, <1>3 DEF ReasonInv
<1>6. \A t \in ToSet(seeds') \cup {"all"} : \A p \in DOMAIN why'[t] : why'[t][p].tree \in BOOLEAN
  BY <1>2, <1>3, <1>4 DEF ReasonInv
<1>7. \A p \in DOMAIN why'["all"] :
        why'["all"][p].tree <=> \A t \in ToSet(seeds') : p \notin not_build'[t]
  BY <1>2, <1>3 DEF ReasonInv
<1>. QED
  BY <1>5, <1>6, <1>7 DEF ReasonInv

(* What plantSeed and addExtras plant is new.                              *)
NothingPlanted ==
  phase' = "noSeed" /\ UNCHANGED <<seeds, options, seedVars, addedVars, dependVars, sourceVars, stack>>
Planted(s) ==
  /\ s \in SeedName /\ s \notin ToSet(seeds) /\ s # "all" /\ "all" \notin ToSet(seeds)
  /\ _newSeed(s) /\ NewSeed(s) /\ ToSet(seeds') = ToSet(seeds) \cup {s}

LEMMA NewSeedStep ==
  ASSUME ParseInv, PlantInv, SeedsInv, plantSeed \/ addExtras
  PROVE  /\ UNCHANGED <<archiveVars, pruned, grown, structure, world>>
         /\ \/ plantSeed /\ NothingPlanted
            \/ plantSeed /\ UNCHANGED <<phase, names, inherit>> /\ \E s : Planted(s) /\ s # Extra
            \/ addExtras /\ Planted(Extra)
<1>1. ASSUME NEW s \in SeedName, s \notin ToSet(seeds), s # "all", "all" \notin ToSet(seeds),
             _newSeed(s)
      PROVE  Planted(s)
  <2>1. NewSeed(s)
    BY <1>1, NewSeedIs
  <2>2. ToSet(seeds') = ToSet(seeds) \cup {s}
    <3>1. seeds \in Seq(SeedName) /\ seeds' = Append(seeds, s)
      BY <2>1 DEF NewSeed, SeedsInv
    <3>. QED
      BY <3>1, ToSetAppend
  <2>. QED
    BY <1>1, <2>1, <2>2 DEF Planted
<1>2. CASE plantSeed
  <2>. DEFINE k == Len(seeds) + 1
              s == names[k]
  <2>1. /\ phase = "plant" /\ Len(seeds) < Len(names)
        /\ UNCHANGED <<archiveVars, pruned, grown, structure, world, names, inherit>>
        /\ \/ NothingPlanted
           \/ UNCHANGED phase /\ _newSeed(s)
    BY <1>2 DEF plantSeed, NothingPlanted, structureVars, parseVars
  <2>2. /\ names \in Seq(SeedName) /\ Distinct(names) /\ "all" \notin ToSet(names)
        /\ Extra \notin ToSet(names)
    BY <2>1, NamesAre DEF Early
  <2>3. seeds \in Seq(SeedName) /\ \A i \in 1..Len(seeds) : seeds[i] = names[i]
    BY <2>1 DEF SeedsInv, Early
  <2>4. k \in 1..Len(names) /\ \A i \in 1..Len(seeds) : i \in 1..Len(names) /\ i # k
    BY <2>1, <2>2, <2>3
  <2>5. s \in ToSet(names) /\ s \in SeedName
    BY <2>2, <2>4 DEF ToSet
  <2>6. \A i \in 1..Len(seeds) : seeds[i] # s
    BY <2>2, <2>3, <2>4 DEF Distinct
  <2>7. s \notin ToSet(seeds)
    BY <2>3, <2>6 DEF ToSet
  <2>8. "all" \notin ToSet(seeds)
    BY <2>1, SeedsPlanted DEF Early
  <2>. HIDE DEF s
  <2>9. _newSeed(s) => Planted(s) /\ s # Extra
    BY <1>1, <2>2, <2>5, <2>7, <2>8
  <2>. QED
    BY <1>2, <2>1, <2>9
<1>3. CASE addExtras
  <2>1. phase = "grown" /\ _newSeed(Extra) /\ UNCHANGED <<archiveVars, pruned, grown, structure, world>>
    BY <1>3 DEF addExtras, parseVars
  <2>2. Extra \notin ToSet(seeds) /\ "all" \notin ToSet(seeds)
    BY <2>1, SeedsPlanted DEF Early
  <2>3. Extra \in SeedName /\ Extra # "all"
    BY DEF SeedName, Extra
  <2>. QED
    BY <1>1, <1>3, <2>1, <2>2, <2>3
<1>. QED
  BY <1>2, <1>3

LEMMA ReasonAlways == RdependsSpec => []ReasonInv
<1>1. RdependsInit => ReasonInv
  <2>. SUFFICES ASSUME Init PROVE ReasonInv
    BY DEF RdependsInit
  <2>1. /\ seeds = <<>> /\ why = [list \in {"all"} |-> <<>>]
        /\ ToSet(<<>>) = {} /\ DOMAIN <<>> = {}
    BY ToSetProperties DEF Init
  <2>. QED
    BY <2>1 DEF ReasonInv
<1>2. /\ ParseInv /\ PlantInv /\ SeedsInv /\ ArchiveInv /\ StackInv /\ ReasonInv
      /\ [RdependsNext]_rdependsAllVars
      => ReasonInv'
  <2>. SUFFICES ASSUME ParseInv, PlantInv, SeedsInv, ArchiveInv, StackInv, ReasonInv,
                       [RdependsNext]_rdependsAllVars
                PROVE  ReasonInv'
    OBVIOUS
  <2>1. ASSUME UNCHANGED <<seeds, addedVars>> PROVE ReasonInv'
    BY <2>1 DEF ReasonInv, addedVars
  <2>2. CASE plantSeed \/ addExtras
    <3>1. CASE NothingPlanted
      BY <2>1, <3>1 DEF NothingPlanted
    <3>2. ASSUME NEW s, Planted(s) PROVE ReasonInv'
      BY <3>2, NewSeedReasons DEF Planted
    <3>. QED
      BY <2>2, <3>1, <3>2, NewSeedStep
  <2>3. CASE addPackage
    BY <2>3, AddPackageReasons
  <2>4. CASE ~(plantSeed \/ addExtras) /\ ~addPackage
    <3>1. UNCHANGED addedVars
      BY <2>4, Steps, OnlyAddPackage
    <3>2. seeds' = seeds
      BY <2>4, DomainsStay
    <3>. QED
      BY <2>1, <3>1, <3>2
  <2>. QED
    BY <2>2, <2>3, <2>4
<1>. QED
  BY <1>1, <1>2, ParseAlways, PlantAlways, SeedsAlways, ArchiveAlways, StackAlways, PTL
     DEF RdependsSpec

(* The reason a list gives for a package is one from the dependency tree   *)
(* exactly when the seed needs it at run time, whatever else builds with   *)
(* it and in whatever order the reasons came (_rememberWhy).               *)
THEOREM ReasonsFit == RdependsSpec => []ReasonFitsList
<1>1. ReasonInv => ReasonFitsList
  BY DEF ReasonInv, ReasonFitsList
<1>. QED
  BY <1>1, ReasonAlways, PTL

-----------------------------------------------------------------------------
(* A tree that is past the question if its clause is satisfied has found   *)
(* nothing for any of the alternatives in the lists it has to look at, and *)
(* while it goes through them the lists stay as they are.                  *)
Lists(c) == IF c.second THEN build ELSE not_build
Missing(c, dep) ==
  \A p \in ToSet(VirtualFirst(c, dep)) : \A s \in Inner(c.seed) : p \notin Lists(c)[s]
Unmet(c) ==
  c.next <= 2 * Alternatives(c) /\ \A i \in 1..Alternatives(c) : Missing(c, c.clauses[1][i])

Fruitless(x) == x.op = "tree" /\ x.next # 0 => Unmet(x)
Untouched(x) == x.op = "tree" => x.next = 0
Deep(st) == \A i \in 2..Len(st) : Untouched(st[i])
AllUntouched(st) == \A i \in 1..Len(st) : Untouched(st[i])
OnlyUntouched(xs) == \A x \in ToSet(xs) : Untouched(x)
Starts(r, x) == Deep(r) /\ r # <<>> /\ r[1] = x
TreesInv ==
  phase \in {"grow", "grown"} => Deep(stack) /\ (stack # <<>> => Fruitless(stack[1]))

LEMMA PushDeep ==
  ASSUME NEW C, NEW st \in Seq(C), st # <<>>, Deep(st), NEW calls \in Seq(C),
         NEW r, r = calls \o Tail(st)
  PROVE  /\ OnlyUntouched(calls) => AllUntouched(r)
         /\ \A x \in C : calls = <<x>> => Starts(r, x)
<1>1. /\ r \in Seq(C) /\ Len(r) = Len(calls) + Len(st) - 1
      /\ Len(st) \in Nat \ {0} /\ Len(calls) \in Nat /\ Len(r) \in Nat
      /\ \A i \in 1..Len(calls) : i \in 1..Len(r) /\ r[i] = calls[i]
      /\ \A i \in Len(calls) + 1 .. Len(r) :
           i - Len(calls) + 1 \in 2..Len(st) /\ r[i] = st[i - Len(calls) + 1]
  BY Replaced
<1>2. \A i \in Len(calls) + 1 .. Len(r) : Untouched(r[i])
  BY <1>1 DEF Deep
<1>3. \A i \in 1..Len(r) : i \in 1..Len(calls) \/ i \in Len(calls) + 1 .. Len(r)
  BY <1>1
<1>4. ASSUME \A x \in ToSet(calls) : Untouched(x), NEW i \in 1..Len(r) PROVE Untouched(r[i])
  <2>1. i \in 1..Len(calls) => calls[i] \in ToSet(calls)
    BY DEF ToSet
  <2>. QED
    BY <1>1, <1>2, <1>3, <1>4, <2>1
<1>5. ASSUME NEW x \in C, calls = <<x>> PROVE Deep(r) /\ r # <<>> /\ r[1] = x
  <2>1. Len(calls) = 1 /\ calls[1] = x
    BY <1>5, Single
  <2>2. Deep(r)
    <3>1. \A i \in 2..Len(r) : i \in Len(calls) + 1 .. Len(r)
      BY <1>1, <2>1
    <3>. QED
      BY <1>2, <3>1 DEF Deep
  <2>3. 1 \in 1..Len(calls)
    BY <2>1
  <2>4. r[1] = x /\ Len(r) # 0
    BY <1>1, <2>1, <2>3
  <2>. QED
    BY <2>2, <2>4, EmptySeq
<1>. QED
  BY <1>4, <1>5 DEF OnlyUntouched, AllUntouched, Starts

(* The question looks at what a later step would take.                     *)
LEMMA UnsatisfiedMisses ==
  ASSUME NEW c, Unsatisfied(c), NEW i \in 1..Alternatives(c)
  PROVE  Missing(c, c.clauses[1][i])
<1>1. ~alreadySatisfied(c, c.clauses[1][i])
  BY DEF Unsatisfied
<1>. QED
  BY <1>1, Zenon DEF alreadySatisfied, Missing, Lists

LEMMA SameMisses ==
  ASSUME NEW x, NEW c, SameTree(x, c), NEW dep, Missing(c, dep)
  PROVE  Missing(x, dep)
<1>1. VirtualFirst(x, dep) = VirtualFirst(c, dep)
  BY DEF SameTree, VirtualFirst, AsVirtual, AsReal, Providers, allowedDependency
<1>2. Lists(x) = Lists(c) /\ x.seed = c.seed
  BY DEF SameTree, Lists
<1>. QED
  BY <1>1, <1>2 DEF Missing

LEMMA MissingStays ==
  ASSUME UNCHANGED <<inherit, packages, provides, pruned, build, not_build>>, NEW x, Unmet(x)
  PROVE  Unmet(x)'
<1>1. ASSUME NEW dep, Missing(x, dep) PROVE Missing(x, dep)'
  BY <1>1 DEF Missing, VirtualFirst, AsVirtual, AsReal, checkVersionedDependency, Providers,
              allowedDependency, Lists, Inner, innerSeeds
<1>. QED
  BY <1>1 DEF Unmet, Alternatives

LEMMA TreesAfterCall ==
  ASSUME ParseInv, PlantInv, SeedsInv, ArchiveInv, StackInv, ListsInv, TreesInv, CallStep,
         phase \in {"grow", "grown"}
  PROVE  TreesInv'
<1>1. /\ Pushes /\ stack # <<>> /\ stack \in Seq(CallSet)
      /\ UNCHANGED <<phase, inherit, packages, provides, pruned>>
  BY CallPushes DEF StackInv, Growing
<1>2. PICK calls \in Seq(CallSet) : stack' = calls \o Tail(stack) /\ Pushed(calls)
  BY <1>1 DEF Pushes
<1>. DEFINE C == CallSet
            r == stack'
<1>3. /\ r = calls \o Tail(stack) /\ calls \in Seq(C) /\ stack \in Seq(C) /\ stack # <<>>
      /\ Deep(stack)
  BY <1>1, <1>2 DEF TreesInv
<1>4. CallSet = C
  OBVIOUS
<1>. HIDE DEF C, r
<1>5. CASE \A x \in ToSet(calls) : x.op = "tree" => x.next = 0
  <2>1. OnlyUntouched(calls)
    BY <1>5 DEF OnlyUntouched, Untouched
  <2>2. AllUntouched(r)
    BY <1>3, <2>1, PushDeep
  <2>3. r \in Seq(C)
    BY <1>1, <1>3, Replaced
  <2>4. r # <<>> => 1 \in 1..Len(r)
    BY <2>3, EmptySeq
  <2>5. Deep(r) /\ (r # <<>> => Untouched(r[1]))
    <3>1. \A i \in 2..Len(r) : i \in 1..Len(r)
      BY <2>3
    <3>. QED
      BY <2>2, <2>4, <3>1 DEF Deep, AllUntouched
  <2>6. stack' # <<>> => Untouched(stack'[1])
    BY <2>5 DEF r
  <2>. QED
    BY <2>5, <2>6 DEF r, TreesInv, Deep, Fruitless, Untouched
<1>6. CASE /\ call.op = "tree" /\ OneFurther(calls, call, Current, DOMAIN packages)
           /\ call.next = 0 => Unsatisfied(call)
  <2>. DEFINE c == call
  <2>1. stack[1] = c /\ c \in C
    BY <1>1, <1>4, InnermostCall DEF call
  <2>2. PICK x \in TreeCalls(Current, DOMAIN packages) :
          /\ calls = <<x>> /\ SameTree(x, c) /\ x.clauses = c.clauses /\ x.next = c.next + 1
          /\ c.next # 2 * Alternatives(c)
    BY <1>6 DEF OneFurther
  <2>3. ~addPackage
    <3>1. Running("package") => call.op = "package"
      BY HeadCall
    <3>. QED
      BY <1>6, <3>1 DEF addPackage
  <2>4. UNCHANGED addedVars
    BY <2>3, OnlyAddPackage
  <2>5. c.next # 0 => Unmet(c)
    BY <1>1, <1>6, <2>1 DEF TreesInv, Fruitless
  <2>6. c \in TreeCalls(Current, DOMAIN packages)
    BY <1>4, <1>6, <2>1, CallKinds DEF CallSet
  <2>7. /\ c.next \in Nat /\ Alternatives(c) \in Nat /\ Alternatives(x) = Alternatives(c)
    BY <2>2, <2>6, TreeFields, ClausesParts DEF Alternatives
  <2>8. \A i \in 1..Alternatives(c) : Missing(c, c.clauses[1][i])
    <3>1. CASE c.next = 0
      BY <1>6, <3>1, UnsatisfiedMisses
    <3>. QED
      BY <2>5, <3>1 DEF Unmet
  <2>9. c.next <= 2 * Alternatives(c)
    BY <2>5, <2>7 DEF Unmet
  <2>. HIDE DEF c
  <2>10. Unmet(x)
    <3>1. \A i \in 1..Alternatives(x) : Missing(x, x.clauses[1][i])
      BY <2>2, <2>7, <2>8, SameMisses
    <3>2. x.next <= 2 * Alternatives(x)
      BY <2>2, <2>7, <2>9
    <3>. QED
      BY <3>1, <3>2 DEF Unmet
  <2>11. Unmet(x)'
    BY <1>1, <2>4, <2>10, MissingStays DEF addedVars
  <2>12. x \in C
    <3>1. calls # <<>> /\ calls[1] = x
      BY <2>2
    <3>. QED
      BY <1>3, <3>1, InnermostCall
  <2>13. Starts(r, x)
    BY <1>3, <2>2, <2>12, PushDeep
  <2>14. stack' # <<>> /\ stack'[1] = x /\ Deep(stack)'
    BY <2>13 DEF r, Deep, Starts
  <2>. QED
    BY <2>11, <2>14 DEF TreesInv, Fruitless
<1>. QED
  BY <1>2, <1>5, <1>6 DEF Pushed

(* The calls a seed starts to grow with have not asked anything yet.       *)
LEMMA NoTrees ==
  ASSUME NEW C, stack' \in Seq(C), \A x \in ToSet(stack') : x.op # "tree"
  PROVE  TreesInv'
<1>. DEFINE r == stack'
<1>1. r \in Seq(C) /\ \A x \in ToSet(r) : x.op # "tree"
  OBVIOUS
<1>. HIDE DEF r
<1>2. \A i \in 1..Len(r) : r[i].op # "tree"
  BY <1>1 DEF ToSet
<1>3. Len(r) \in Nat /\ (r # <<>> => 1 \in 1..Len(r))
  BY <1>1, EmptySeq
<1>4. \A i \in 2..Len(r) : i \in 1..Len(r)
  BY <1>3
<1>5. Deep(r) /\ (r # <<>> => r[1].op # "tree")
  BY <1>2, <1>3, <1>4 DEF Deep, Untouched
<1>. QED
  BY <1>5 DEF TreesInv, Deep, Fruitless, r

LEMMA TreesKept ==
  ASSUME ParseInv, PlantInv, SeedsInv, ArchiveInv, StackInv, ListsInv, TreesInv,
         [RdependsNext]_rdependsAllVars
  PROVE  TreesInv'
<1>0. stack' = <<>> => TreesInv'
  <2>1. <<>> \in Seq({}) /\ ToSet(<<>>) = {}
    BY ToSetProperties
  <2>. QED
    BY <2>1, NoTrees
<1>1. CASE plantSeed \/ readLine \/ plantPackage \/ plantHints \/ prune
  <2>1. phase' \notin {"grow", "grown"} \/ stack' = <<>>
    <3>1. CASE readLine \/ plantPackage \/ plantHints
      <4>1. phase' = phase /\ Running("text")
        BY <3>1 DEF readLine, plantPackage, plantHints
      <4>2. phase \notin Growing
        <5>1. ASSUME phase \in Growing PROVE FALSE
          <6>1. stack # <<>> /\ stack \in Seq(CallSet) /\ stack[1].op = "text"
            BY <4>1, <5>1 DEF Running, StackInv
          <6>. DEFINE C == CallSet
          <6>2. stack # <<>> /\ stack \in Seq(C)
            BY <6>1
          <6>3. CallSet = C
            OBVIOUS
          <6>. HIDE DEF C
          <6>4. stack[1] \in C
            BY <6>2, InnermostCall
          <6>. QED
            BY <6>1, <6>3, <6>4, CallKinds DEF CallSet
        <5>. QED
          BY <5>1
      <4>. QED
        BY <4>1, <4>2 DEF Growing
    <3>2. CASE plantSeed
      BY <3>2 DEF plantSeed
    <3>3. CASE prune
      BY <3>3 DEF prune
    <3>. QED
      BY <1>1, <3>1, <3>2, <3>3
  <2>. QED
    BY <1>0, <2>1 DEF TreesInv
<1>2. CASE growSeed
  <2>1. PICK pk, rs : /\ stack' = pk \o rs /\ pk \in Seq(CallSet') /\ rs \in Seq(CallSet')
                      /\ \A x \in ToSet(pk) : \E s, p : Fresh(x, s, p)
                      /\ \A x \in ToSet(rs) : x.op = "rescue"
    BY <1>2, GrowSeedIs
  <2>. DEFINE C == CallSet'
  <2>2. pk \in Seq(C) /\ rs \in Seq(C)
    BY <2>1
  <2>. HIDE DEF C
  <2>3. (pk \o rs) \in Seq(C) /\ ToSet(pk \o rs) = ToSet(pk) \cup ToSet(rs)
    BY <2>2, ConcatProperties, ToSetConcat
  <2>4. \A x \in ToSet(stack') : x.op # "tree"
    BY <2>1, <2>3 DEF Fresh
  <2>. QED
    BY <2>1, <2>3, <2>4, NoTrees
<1>3. CASE rescueForBuild
  <2>1. PICK x \in CallSet' : stack' = <<x>> /\ x.op = "rescue"
    BY <1>3, RescueForBuildStack
  <2>2. <<x>> \in Seq({x}) /\ ToSet(<<x>>) = {x}
    BY Single
  <2>. QED
    BY <2>1, <2>2, NoTrees
<1>4. CASE CallStep /\ phase \in {"grow", "grown"}
  BY <1>4, TreesAfterCall
<1>5. CASE CallStep /\ phase \notin {"grow", "grown"}
  BY <1>5, CallPushes DEF TreesInv
<1>6. CASE addExtras
  BY <1>6 DEF addExtras, TreesInv
<1>7. CASE extraPass
  <2>1. phase = "extras" /\ phase' = phase
    <3>1. Running("pass") /\ phase' = phase
      BY <1>7 DEF extraPass
    <3>. QED
      BY <3>1, HeadCall, CallKinds DEF CallSet, Mode
  <2>. QED
    BY <2>1 DEF TreesInv
<1>8. CASE extraBinary
  BY <1>8, ExtraBinaryIs DEF TreesInv
<1>9. CASE Quiet
  <2>1. CASE phase \in Before
    <3>1. stack' = <<>>
      BY <1>9, <2>1 DEF StackInv, Quiet, Before, Growing
    <3>. QED
      BY <1>0, <3>1
  <2>2. CASE phase \notin Before /\ phase' = phase
    <3>1. /\ UNCHANGED <<stack, inherit, packages, provides, pruned, build, not_build>>
      BY <1>9, <2>2 DEF Quiet, archiveVars, addedVars
    <3>2. stack # <<>> /\ Fruitless(stack[1]) => Fruitless(stack[1])'
      BY <3>1, MissingStays DEF Fruitless
    <3>. QED
      BY <2>2, <3>1, <3>2 DEF TreesInv, Deep
  <2>3. CASE phase \notin Before /\ phase' # phase
    BY <1>9, <2>3 DEF Quiet, TreesInv, Told
  <2>. QED
    BY <2>1, <2>2, <2>3
<1>. QED
  BY <1>1, <1>2, <1>3, <1>4, <1>5, <1>6, <1>7, <1>8, <1>9, Steps

LEMMA TreesAlways == RdependsSpec => []TreesInv
<1>1. RdependsInit => TreesInv
  BY DEF RdependsInit, Init, TreesInv
<1>2. /\ ParseInv /\ PlantInv /\ SeedsInv /\ ArchiveInv /\ StackInv /\ ListsInv /\ TreesInv
      /\ [RdependsNext]_rdependsAllVars
      => TreesInv'
  BY TreesKept
<1>. QED
  BY <1>1, <1>2, ParseAlways, PlantAlways, SeedsAlways, ArchiveAlways, StackAlways, PTL
     DEF RdependsSpec

-----------------------------------------------------------------------------
(* A build dependency is listed before _addPackage gets to it. While a     *)
(* seed grows, the calls that add it are those to run next: what is added  *)
(* for run time finds no build dependency that is still to come.           *)
BuildsFirst(st) == \A i, j \in 1..Len(st) : i < j /\ st[j].tree => st[i].tree
Coming(p) == \E x \in ToSet(stack) : x.op = "package" /\ x.pkg = p /\ x.tree /\ Accepted(x)
PendingInv ==
  phase = "grow" =>
    BuildsFirst(stack) /\ \A s \in ToSet(seeds) : \A p \in build_depends[s] \ all : Coming(p)

SameTrees(calls, tree) ==
  \/ \A x \in ToSet(calls) : x.tree = tree
  \/ \A x \in ToSet(calls) : x.tree = TRUE

LEMMA PushOrdered ==
  ASSUME NEW C, NEW st \in Seq(C), st # <<>>, BuildsFirst(st), NEW calls \in Seq(C),
         SameTrees(calls, st[1].tree), NEW r, r = calls \o Tail(st)
  PROVE  BuildsFirst(r)
<1>1. /\ r \in Seq(C) /\ Len(r) = Len(calls) + Len(st) - 1
      /\ Len(st) \in Nat \ {0} /\ Len(calls) \in Nat /\ Len(r) \in Nat
      /\ \A i \in 1..Len(calls) : i \in 1..Len(r) /\ r[i] = calls[i]
      /\ \A i \in Len(calls) + 1 .. Len(r) :
           i - Len(calls) + 1 \in 2..Len(st) /\ r[i] = st[i - Len(calls) + 1]
  BY Replaced
<1>2. ASSUME NEW i \in 1..Len(r), NEW j \in 1..Len(r), i < j, r[j].tree PROVE r[i].tree
  <2>1. CASE j \in 1..Len(calls)
    <3>1. i \in 1..Len(calls) /\ r[i] = calls[i] /\ r[j] = calls[j]
      BY <1>1, <1>2, <2>1
    <3>2. calls[i] \in ToSet(calls) /\ calls[j] \in ToSet(calls)
      BY <2>1, <3>1 DEF ToSet
    <3>3. calls[i].tree = calls[j].tree \/ calls[i].tree = TRUE
      BY <3>2 DEF SameTrees
    <3>. QED
      BY <1>2, <3>1, <3>3
  <2>2. CASE j \in Len(calls) + 1 .. Len(r)
    <3>. DEFINE k == j - Len(calls) + 1
    <3>1. k \in 2..Len(st) /\ r[j] = st[k] /\ k = j - Len(calls) + 1
      BY <1>1, <2>2
    <3>. HIDE DEF k
    <3>2. st[k].tree /\ k \in 1..Len(st) /\ 1 \in 1..Len(st) /\ 1 < k
      BY <1>1, <1>2, <3>1
    <3>3. st[1].tree
      BY <3>2 DEF BuildsFirst
    <3>4. CASE i \in 1..Len(calls)
      <4>1. calls[i] \in ToSet(calls) /\ r[i] = calls[i]
        BY <1>1, <3>4 DEF ToSet
      <4>2. calls[i].tree = st[1].tree \/ calls[i].tree = TRUE
        BY <4>1 DEF SameTrees
      <4>. QED
        BY <3>3, <4>1, <4>2
    <3>5. CASE i \in Len(calls) + 1 .. Len(r)
      <4>. DEFINE h == i - Len(calls) + 1
      <4>1. h \in 2..Len(st) /\ r[i] = st[h] /\ h = i - Len(calls) + 1
        BY <1>1, <3>5
      <4>. HIDE DEF h
      <4>2. h \in 1..Len(st) /\ h < k
        BY <1>1, <1>2, <3>1, <4>1
      <4>3. st[h].tree
        BY <3>2, <4>2 DEF BuildsFirst
      <4>. QED
        BY <4>1, <4>3
    <3>. QED
      BY <1>1, <3>4, <3>5
  <2>. QED
    BY <1>1, <2>1, <2>2
<1>. QED
  BY <1>2 DEF BuildsFirst

(* When what runs is not for building, nothing that is to come is.         *)
LEMMA NothingComes ==
  ASSUME NEW C, stack \in Seq(C), stack # <<>>, BuildsFirst(stack), ~stack[1].tree, NEW p
  PROVE  ~Coming(p)
<1>1. ASSUME NEW x \in ToSet(stack) PROVE ~x.tree
  <2>1. PICK i \in 1..Len(stack) : stack[i] = x
    BY DEF ToSet
  <2>2. i \in Nat /\ (i = 1 \/ 1 < i) /\ 1 \in 1..Len(stack)
    BY <2>1
  <2>. QED
    BY <2>1, <2>2 DEF BuildsFirst
<1>. QED
  BY <1>1 DEF Coming

LEMMA AcceptedStays ==
  ASSUME UNCHANGED <<pruned, options, names, inherit, structure>>, NEW x
  PROVE  Accepted(x)' <=> Accepted(x)
BY DEF Accepted, Admits, supported, Outer, StrictlyOuter, Blacklist

(* A package call stays until it runs.                                     *)
LEMMA ComingStays ==
  ASSUME ParseInv, PlantInv, SeedsInv, ArchiveInv, StackInv, ListsInv, CallStep,
         NEW p, Coming(p), call.op = "package" /\ Accepted(call) => call.pkg # p
  PROVE  Coming(p)'
<1>1. /\ Pushes /\ stack # <<>> /\ stack \in Seq(CallSet)
      /\ UNCHANGED <<pruned, options, names, inherit, structure>>
  BY CallPushes DEF StackInv
<1>2. PICK calls \in Seq(CallSet) : stack' = calls \o Tail(stack)
  BY <1>1 DEF Pushes
<1>3. PICK x \in ToSet(stack) : x.op = "package" /\ x.pkg = p /\ x.tree /\ Accepted(x)
  BY DEF Coming
<1>4. stack[1] = call
  <2>. DEFINE C == CallSet
  <2>1. stack \in Seq(C)
    BY <1>1
  <2>. HIDE DEF C
  <2>. QED
    BY <1>1, <2>1, InnermostCall DEF call
<1>5. x \in ToSet(stack')
  <2>. DEFINE C == CallSet
              r == stack'
  <2>1. stack \in Seq(C) /\ calls \in Seq(C) /\ r = calls \o Tail(stack)
    BY <1>1, <1>2
  <2>. HIDE DEF C, r
  <2>2. ToSet(stack) \subseteq ToSet(r) \cup {stack[1]}
    BY <1>1, <2>1, PushedSets
  <2>3. x # stack[1]
    BY <1>3, <1>4
  <2>. QED
    BY <2>2, <2>3 DEF r
<1>6. Accepted(x)'
  BY <1>1, <1>3, AcceptedStays
<1>. QED
  BY <1>3, <1>5, <1>6 DEF Coming

(* What a tree takes to build with is in no list that the seed's packages  *)
(* look into, and will be accepted.                                        *)
Taken(W) ==
  \A p \in W : /\ \A t \in Inner(call.seed) : p \notin build[t]
               /\ \E x \in ToSet(stack') :
                    x.op = "package" /\ x.pkg = p /\ x.tree /\ Accepted(x)
Takes ==
  \/ UNCHANGED build_depends
  \/ \E W : /\ build_depends' = [build_depends EXCEPT ![call.seed] = @ \cup W]
            /\ Taken(W)

LEMMA AddDependencyTakes ==
  ASSUME ArchiveInv, StackInv, TreesInv, phase \in {"grow", "grown"}, Running("tree"),
         NEW i \in 1..Alternatives(call), call.next # 0,
         NEW pkgs \in Seq(DOMAIN packages),
         ToSet(pkgs) \subseteq ToSet(VirtualFirst(call, call.clauses[1][i])),
         addDependency(call, pkgs)
  PROVE  Takes
<1>. DEFINE c == call
            P == DOMAIN packages
            W == White(c, pkgs)
<1>1. c \in CallSet /\ c.op = "tree" /\ stack[1] = c /\ stack # <<>> /\ stack \in Seq(CallSet)
  BY HeadCall
<1>2. c \in TreeCalls(Current, P) /\ (c.tree => c.second)
  BY <1>1, CallKinds DEF CallSet, Mode
<1>3. /\ c.seed = Current /\ c.second \in BOOLEAN /\ c.tree \in BOOLEAN
  BY <1>2, TreeFields
<1>4. Unmet(c)
  BY <1>1 DEF TreesInv, Fruitless
<1>5. Missing(c, c.clauses[1][i])
  BY <1>4 DEF Unmet
<1>6. \/ UNCHANGED build_depends
      \/ DependsGrow(c, W) /\ Adding(c, W, Current, P)
  BY <1>2, AddDependencyIs DEF dependVars
<1>7. CASE DependsGrow(c, W) /\ Adding(c, W, Current, P) /\ c.tree
  <2>1. build_depends' = [build_depends EXCEPT ![c.seed] = @ \cup W]
    BY <1>7 DEF DependsGrow
  <2>2. PICK pk, rest : /\ stack' = (pk \o rest) \o Tail(stack)
                        /\ PackagesOf(pk, c, W, Current, P) /\ Rest(rest, c, Current, P)
    BY <1>7 DEF Adding
  <2>3. rest \in Seq(CallSet) /\ pk \in Seq(CallSet)
    <3>1. rest \in Seq(CallSet)
      BY <1>1, <2>2, TreeCallsFit
    <3>2. pk \in Seq(CallSet)
      BY <1>1, <2>2, PackageCallsFit
    <3>. QED
      BY <3>1, <3>2
  <2>4. ToSet(pk) \subseteq ToSet(stack')
    <3>. DEFINE C == CallSet
                both == pk \o rest
                r == stack'
    <3>1. pk \in Seq(C) /\ rest \in Seq(C) /\ stack \in Seq(C)
      BY <1>1, <2>3
    <3>2. r = both \o Tail(stack)
      BY <2>2
    <3>. HIDE DEF C
    <3>3. both \in Seq(C) /\ ToSet(both) = ToSet(pk) \cup ToSet(rest)
      BY <3>1, ConcatProperties, ToSetConcat
    <3>. HIDE DEF both, r
    <3>4. ToSet(both) \subseteq ToSet(r)
      BY <1>1, <3>1, <3>2, <3>3, PushedSets
    <3>. QED
      BY <3>3, <3>4 DEF r
  <2>5. ASSUME NEW p \in W
        PROVE  /\ \A t \in Inner(c.seed) : p \notin build[t]
               /\ \E x \in ToSet(stack') : x.op = "package" /\ x.pkg = p /\ x.tree /\ Accepted(x)
    <3>1. p \in ToSet(VirtualFirst(c, c.clauses[1][i])) /\ Admits(c.seed, c.tree, p)
      BY <2>5 DEF White
    <3>2. \A t \in Inner(c.seed) : p \notin build[t]
      BY <1>2, <1>5, <1>7, <3>1 DEF Missing, Lists
    <3>3. allowedDependency(c, p)
      BY <3>1, SatisfyingTyped
    <3>4. PICK x \in ToSet(pk) : x.pkg = p
      BY <2>2, <2>5 DEF PackagesOf
    <3>5. x.op = "package" /\ x.seed = Current /\ x.tree = c.second
      BY <2>2, <3>4 DEF PackagesOf
    <3>6. Accepted(x)
      <4>1. x.tree = c.tree
        BY <1>2, <1>3, <1>7, <3>5
      <4>2. c.seed \notin pruned[p]
        BY <3>3 DEF allowedDependency
      <4>. QED
        BY <1>3, <3>1, <3>4, <3>5, <4>1, <4>2 DEF Accepted
    <3>. QED
      BY <1>2, <1>7, <2>4, <3>2, <3>4, <3>5, <3>6
  <2>6. Taken(W)
    <3>. HIDE DEF W
    <3>. QED
      BY <2>5 DEF Taken
  <2>. HIDE DEF W
  <2>. QED
    BY <2>1, <2>6 DEF Takes
<1>8. CASE DependsGrow(c, W) /\ ~c.tree
  BY <1>8 DEF DependsGrow, Takes
<1>. QED
  BY <1>6, <1>7, <1>8 DEF Takes

LEMMA TreeTakes ==
  ASSUME ArchiveInv, StackInv, TreesInv, phase \in {"grow", "grown"},
         promoteDependency \/ newDependency
  PROVE  Takes
<1>. DEFINE c == call
            n == Alternatives(c)
<1>1. Running("tree")
  BY DEF promoteDependency, newDependency
<1>2. c \in CallSet /\ c.op = "tree" /\ stack[1] = c /\ stack # <<>>
  BY <1>1, HeadCall
<1>3. c \in TreeCalls(Current, DOMAIN packages)
  BY <1>2, CallKinds DEF CallSet
<1>4. c.next \in Nat /\ n \in Nat
  BY <1>3, TreeFields, ClausesParts DEF Alternatives
<1>5. CASE promoteDependency
  <2>1. c.next \in 1..n
    BY <1>5 DEF promoteDependency
  <2>2. CASE UNCHANGED dependVars
    BY <2>2 DEF Takes, dependVars
  <2>3. CASE ~UNCHANGED dependVars
    <3>1. PICK p \in ToSet(RealFirst(c, c.clauses[1][c.next])) : addDependency(c, <<p>>)
      BY <1>5, <2>3, PromoteIs
    <3>2. p \in ToSet(VirtualFirst(c, c.clauses[1][c.next]))
      BY <3>1, SatisfyingTyped
    <3>. DEFINE one == <<p>>
    <3>3. one \in Seq(DOMAIN packages) /\ ToSet(one) = {p}
      <4>1. p \in DOMAIN packages
        BY SatisfyingTyped, ToSetProperties
      <4>. QED
        BY <4>1, Single
    <3>4. addDependency(c, one)
      BY <3>1
    <3>. HIDE DEF one, n
    <3>5. c.next # 0
      BY <1>4, <2>1
    <3>. QED
      BY <1>1, <2>1, <3>2, <3>3, <3>4, <3>5, AddDependencyTakes DEF n
  <2>. QED
    BY <2>2, <2>3
<1>6. CASE newDependency
  <2>. DEFINE i == c.next - n
              pkgs == Chosen(c, c.clauses[1][i])
  <2>1. c.next > n /\ addDependency(c, pkgs)
    BY <1>6 DEF newDependency
  <2>2. c.next # 0
    BY <1>4, <2>1
  <2>3. c.next <= 2 * n
    BY <1>2, <2>2 DEF TreesInv, Fruitless, Unmet
  <2>4. i \in 1..n
    BY <1>4, <2>1, <2>3
  <2>5. /\ pkgs \in Seq(DOMAIN packages)
        /\ ToSet(pkgs) \subseteq ToSet(VirtualFirst(c, c.clauses[1][i]))
    BY SatisfyingTyped
  <2>. HIDE DEF i, pkgs
  <2>. QED
    BY <1>1, <2>1, <2>2, <2>4, <2>5, AddDependencyTakes DEF pkgs
<1>. QED
  BY <1>5, <1>6

-----------------------------------------------------------------------------
(* What a step of a call does to the lists.                                *)
Blank(s) ==
  /\ build[s] = {} /\ not_build[s] = {} /\ not_build_srcs[s] = {}
  /\ build_depends[s] = {} /\ build_sourcepkgs[s] = {} /\ DOMAIN why[s] = {}
UngrownInv ==
  phase \in {"plant", "grow"} => \A i \in grown + 1 .. Len(seeds) : Blank(seeds[i])

Contains1(s) ==
  /\ not_build[s] \subseteq InnerOf(build, s) /\ DOMAIN why[s] \subseteq InnerOf(build, s)
  /\ build[s] \subseteq all /\ not_build_srcs[s] \subseteq build_srcs[s]
  /\ build_sourcepkgs[s] \subseteq all_srcs
ContainedInv == \A s \in ToSet(seeds) : Contains1(s)

Others(f, g, s) == \A t \in ToSet(seeds) : t # s => g[t] = f[t]
Grows(f, g, s, x) ==
  /\ Others(f, g, s) /\ f[s] \subseteq g[s] /\ g[s] \subseteq f[s] \cup {x}
  /\ g = f \/ \A t \in Inner(s) : x \notin f[t]
  /\ \E t \in Inner(s) : x \in g[t]

LEMMA AddIfNewIs ==
  ASSUME NEW f, DOMAIN f = ToSet(seeds), NEW s \in ToSet(seeds), s \in Inner(s), NEW x,
         NEW g, g = AddIfNew(f, s, x)
  PROVE  Grows(f, g, s, x)
<1>1. CASE \E t \in Inner(s) : x \in f[t]
  BY <1>1 DEF AddIfNew, Grows, Others
<1>2. CASE ~\E t \in Inner(s) : x \in f[t]
  <2>1. g = [f EXCEPT ![s] = @ \cup {x}]
    BY <1>2 DEF AddIfNew
  <2>2. g[s] = f[s] \cup {x} /\ Others(f, g, s)
    BY <2>1 DEF Others
  <2>. QED
    BY <1>2, <2>2 DEF Grows
<1>. QED
  BY <1>1, <1>2

PackageJoins ==
  /\ call.op = "package" /\ Accepted(call) /\ all' = all \cup {call.pkg}
  /\ Grows(build, build', call.seed, call.pkg)
  /\ \/ call.tree /\ not_build' = not_build
     \/ ~call.tree /\ Grows(not_build, not_build', call.seed, call.pkg)
  /\ \A t \in ToSet(seeds) : build_depends'[t] \subseteq build_depends[t]
  /\ ~call.tree /\ call.pkg \in all => \A t \in Inner(call.seed) : call.pkg \notin build_depends'[t]
  /\ \A t \in ToSet(seeds) : t # call.seed => DOMAIN why'[t] = DOMAIN why[t]
  /\ DOMAIN why'[call.seed] \subseteq DOMAIN why[call.seed] \cup {call.pkg}
  /\ UNCHANGED sourceVars

LEMMA RememberDomain ==
  ASSUME NEW list, NEW c
  PROVE  DOMAIN rememberWhy(list, c) \subseteq DOMAIN why[list] \cup {c.pkg}
BY DEF rememberWhy, Put

LEMMA PackageJoinsLists ==
  ASSUME ParseInv, PlantInv, SeedsInv, ArchiveInv, StackInv, addPackage
  PROVE  PackageJoins
<1>. DEFINE c == call
            S == ToSet(seeds)
<1>1. /\ c \in CallSet /\ c.op = "package" /\ phase \in Growing /\ stack # <<>>
  BY HeadCall DEF addPackage
<1>2. c.seed = Current /\ c.tree \in BOOLEAN
  <2>1. c \in PackageCalls(Current, DOMAIN packages)
    BY AddPackageIs
  <2>. QED
    BY <2>1, PackageFields
<1>3. /\ c.seed \in S /\ c.seed # "all" /\ "all" \notin S
      /\ Inner(c.seed) \subseteq S /\ c.seed \in Inner(c.seed)
      /\ SeedDomains(S)
  BY <1>1, <1>2, CurrentIs
<1>4. /\ why' = [why EXCEPT ![c.seed] = rememberWhy(c.seed, c), !["all"] = rememberWhy("all", c)]
      /\ not_build' = IF c.tree THEN not_build ELSE AddIfNew(not_build, c.seed, c.pkg)
      /\ build' = AddIfNew(build, c.seed, c.pkg)
      /\ build_depends' = BuildDependsWithout(c)
      /\ Accepted(c) /\ all' = all \cup {c.pkg} /\ UNCHANGED sourceVars
  BY DEF addPackage
<1>. HIDE DEF c
<1>5. /\ \A t \in S : t # c.seed => DOMAIN why'[t] = DOMAIN why[t]
      /\ DOMAIN why'[c.seed] \subseteq DOMAIN why[c.seed] \cup {c.pkg}
  <2>1. why'[c.seed] = rememberWhy(c.seed, c)
    BY <1>3, <1>4 DEF SeedDomains
  <2>2. \A t \in S : t # c.seed => why'[t] = why[t]
    BY <1>3, <1>4 DEF SeedDomains
  <2>. QED
    BY <2>1, <2>2, RememberDomain
<1>6. Grows(build, build', c.seed, c.pkg)
  <2>. DEFINE g == build'
  <2>1. DOMAIN build = S /\ g = AddIfNew(build, c.seed, c.pkg)
    BY <1>3, <1>4 DEF SeedDomains
  <2>. HIDE DEF g
  <2>2. Grows(build, g, c.seed, c.pkg)
    BY <1>3, <2>1, AddIfNewIs
  <2>. QED
    BY <2>2 DEF g
<1>7. ~c.tree => Grows(not_build, not_build', c.seed, c.pkg)
  <2>. DEFINE g == not_build'
  <2>1. DOMAIN not_build = S /\ (~c.tree => g = AddIfNew(not_build, c.seed, c.pkg))
    BY <1>3, <1>4 DEF SeedDomains
  <2>. HIDE DEF g
  <2>2. ~c.tree => Grows(not_build, g, c.seed, c.pkg)
    BY <1>3, <2>1, AddIfNewIs
  <2>. QED
    BY <2>2 DEF g
<1>8. c.tree => not_build' = not_build
  BY <1>4
<1>9. /\ \A t \in S : build_depends'[t] \subseteq build_depends[t]
      /\ ~c.tree /\ c.pkg \in all => \A t \in Inner(c.seed) : c.pkg \notin build_depends'[t]
  <2>1. DOMAIN build_depends = S
    BY <1>3 DEF SeedDomains
  <2>. QED
    BY <1>3, <1>4, <2>1 DEF BuildDependsWithout
<1>. QED
  BY <1>1, <1>2, <1>4, <1>5, <1>6, <1>7, <1>8, <1>9 DEF PackageJoins, c

SourceJoins(src) ==
  /\ call.op = "source" /\ UNCHANGED <<addedVars, dependVars>>
  /\ all_srcs' = all_srcs \cup {src}
  /\ Others(build_srcs, build_srcs', call.seed)
  /\ build_srcs'[call.seed] = build_srcs[call.seed] \cup {src}
  /\ \A t \in Inner(call.seed) : src \notin not_build_srcs[t]
  /\ \/ /\ call.tree /\ not_build_srcs' = not_build_srcs
        /\ Others(build_sourcepkgs, build_sourcepkgs', call.seed)
        /\ build_sourcepkgs'[call.seed] \subseteq build_sourcepkgs[call.seed] \cup {src}
     \/ /\ ~call.tree
        /\ Others(not_build_srcs, not_build_srcs', call.seed)
        /\ not_build_srcs'[call.seed] = not_build_srcs[call.seed] \cup {src}
        /\ \A t \in ToSet(seeds) : build_sourcepkgs'[t] \subseteq build_sourcepkgs[t] \ {src}

LEMMA SourceJoinsLists ==
  ASSUME ParseInv, PlantInv, SeedsInv, ArchiveInv, StackInv, ContainedInv, addSource
  PROVE  UNCHANGED <<addedVars, dependVars, sourceVars>> \/ \E src : SourceJoins(src)
<1>. DEFINE c == call
            S == ToSet(seeds)
            src == packages[c.pkg].source
<1>1. /\ c \in CallSet /\ c.op = "source" /\ phase \in Growing /\ stack # <<>>
  BY HeadCall DEF addSource
<1>2. c.seed = Current /\ c.tree \in BOOLEAN
  <2>1. c \in PackageCalls(Current, DOMAIN packages)
    BY AddSourceIs
  <2>. QED
    BY <2>1, PackageFields
<1>3. /\ c.seed \in S /\ Inner(c.seed) \subseteq S /\ SeedDomains(S)
  BY <1>1, <1>2, CurrentIs
<1>4. UNCHANGED <<addedVars, dependVars>>
  BY DEF addSource
<1>5. CASE SourceIsHad(c)
  BY <1>4, <1>5 DEF SourceIsHad, addSource
<1>6. CASE ~SourceIsHad(c)
  <2>1. /\ all_srcs' = all_srcs \cup {src}
        /\ build_srcs' = [build_srcs EXCEPT ![c.seed] = @ \cup {src}]
        /\ c.tree =>
             /\ build_sourcepkgs' = [build_sourcepkgs EXCEPT ![c.seed] = @ \cup {src}]
             /\ UNCHANGED not_build_srcs
        /\ ~c.tree =>
             /\ build_sourcepkgs' = IF src \in all_srcs
                  THEN [s \in DOMAIN build_sourcepkgs |-> build_sourcepkgs[s] \ {src}]
                  ELSE build_sourcepkgs
             /\ not_build_srcs' = [not_build_srcs EXCEPT ![c.seed] = @ \cup {src}]
    BY <1>6 DEF addSource, SourceIsHad
  <2>2. \A t \in Inner(c.seed) : src \notin (IF c.second \/ c.tree THEN build_srcs ELSE not_build_srcs)[t]
    BY <1>6 DEF SourceIsHad
  <2>. HIDE DEF c, src
  <2>3. \A t \in Inner(c.seed) : src \notin not_build_srcs[t]
    BY <1>3, <2>2 DEF ContainedInv, Contains1
  <2>4. /\ Others(build_srcs, build_srcs', c.seed)
        /\ build_srcs'[c.seed] = build_srcs[c.seed] \cup {src}
    BY <1>3, <2>1 DEF SeedDomains, Others
  <2>5. ASSUME c.tree
        PROVE  /\ not_build_srcs' = not_build_srcs
               /\ Others(build_sourcepkgs, build_sourcepkgs', c.seed)
               /\ build_sourcepkgs'[c.seed] \subseteq build_sourcepkgs[c.seed] \cup {src}
    BY <1>3, <2>1, <2>5 DEF SeedDomains, Others
  <2>6. ASSUME ~c.tree
        PROVE  /\ Others(not_build_srcs, not_build_srcs', c.seed)
               /\ not_build_srcs'[c.seed] = not_build_srcs[c.seed] \cup {src}
               /\ \A t \in S : build_sourcepkgs'[t] \subseteq build_sourcepkgs[t] \ {src}
    <3>1. /\ Others(not_build_srcs, not_build_srcs', c.seed)
          /\ not_build_srcs'[c.seed] = not_build_srcs[c.seed] \cup {src}
      BY <1>3, <2>1, <2>6 DEF SeedDomains, Others
    <3>2. DOMAIN build_sourcepkgs = S
      BY <1>3 DEF SeedDomains
    <3>3. \A t \in S : src \notin all_srcs => src \notin build_sourcepkgs[t]
      BY DEF ContainedInv, Contains1
    <3>4. \A t \in S : build_sourcepkgs'[t] \subseteq build_sourcepkgs[t] \ {src}
      BY <2>1, <2>6, <3>2, <3>3
    <3>. QED
      BY <3>1, <3>4
  <2>. QED
    BY <1>1, <1>2, <1>4, <2>1, <2>3, <2>4, <2>5, <2>6 DEF SourceJoins, c
<1>. QED
  BY <1>5, <1>6

(* The other calls only add to the build dependencies of their own seed.   *)
Needs(W) ==
  \A p \in W : /\ \A t \in Inner(call.seed) : p \notin build[t]
               /\ phase = "grow" => \E x \in ToSet(stack') :
                    x.op = "package" /\ x.pkg = p /\ x.tree /\ Accepted(x)
DependsJoin ==
  /\ call.op \notin {"package", "source"} \/ ~Accepted(call)
  /\ UNCHANGED <<addedVars, sourceVars>>
  /\ \/ UNCHANGED build_depends
     \/ \E W : /\ build_depends' = [build_depends EXCEPT ![call.seed] = @ \cup W]
               /\ phase # "extras" => Needs(W)

LEMMA TreeJoinsLists ==
  ASSUME ArchiveInv, StackInv, TreesInv, promoteDependency \/ newDependency
  PROVE  DependsJoin
<1>. DEFINE c == call
<1>1. Running("tree") /\ UNCHANGED <<addedVars, sourceVars>>
  BY DEF promoteDependency, newDependency
<1>2. c \in CallSet /\ c.op = "tree" /\ phase \in Growing
  BY <1>1, HeadCall
<1>3. c \in TreeCalls(Current, DOMAIN packages)
  BY <1>2, CallKinds DEF CallSet
<1>4. CASE phase # "extras"
  <2>1. Takes
    BY <1>2, <1>4, TreeTakes DEF Growing
  <2>2. ASSUME NEW W, Taken(W) PROVE Needs(W)
    BY <2>2 DEF Taken, Needs
  <2>. QED
    BY <1>1, <1>2, <1>4, <2>1, <2>2 DEF Takes, DependsJoin
<1>5. CASE phase = "extras"
  <2>1. ASSUME NEW pkgs \in Seq(DOMAIN packages), addDependency(c, pkgs)
        PROVE  \/ UNCHANGED build_depends
               \/ \E W : build_depends' = [build_depends EXCEPT ![c.seed] = @ \cup W]
    <3>1. \/ UNCHANGED dependVars
          \/ DependsGrow(c, White(c, pkgs))
      BY <1>3, <2>1, AddDependencyIs
    <3>. QED
      BY <3>1 DEF DependsGrow, dependVars
  <2>2. CASE promoteDependency
    <3>1. CASE UNCHANGED dependVars
      BY <1>1, <1>2, <3>1 DEF dependVars, DependsJoin
    <3>2. CASE ~UNCHANGED dependVars
      <4>1. PICK p \in ToSet(RealFirst(c, c.clauses[1][c.next])) : addDependency(c, <<p>>)
        BY <2>2, <3>2, PromoteIs
      <4>. DEFINE one == <<p>>
      <4>2. one \in Seq(DOMAIN packages) /\ addDependency(c, one)
        <5>1. p \in DOMAIN packages
          BY SatisfyingTyped, ToSetProperties
        <5>. QED
          BY <4>1, <5>1, Single
      <4>. HIDE DEF one
      <4>. QED
        BY <1>1, <1>2, <1>5, <2>1, <4>2 DEF DependsJoin
    <3>. QED
      BY <3>1, <3>2
  <2>3. CASE newDependency
    <3>. DEFINE pkgs == Chosen(c, c.clauses[1][c.next - Alternatives(c)])
    <3>1. addDependency(c, pkgs) /\ pkgs \in Seq(DOMAIN packages)
      BY <2>3, SatisfyingTyped DEF newDependency
    <3>. HIDE DEF pkgs
    <3>. QED
      BY <1>1, <1>2, <1>5, <2>1, <3>1 DEF DependsJoin
  <2>. QED
    BY <2>2, <2>3
<1>. QED
  BY <1>4, <1>5

LEMMA RescueJoinsLists ==
  ASSUME ParseInv, PlantInv, SeedsInv, StackInv, ContainedInv,
         startRescue \/ rescueSource \/ rescuePackage
  PROVE  DependsJoin
<1>. DEFINE c == call
<1>1. /\ Running("rescue") \/ Running("rescuing")
      /\ UNCHANGED <<addedVars, sourceVars>>
  BY DEF startRescue, rescueSource, rescuePackage
<1>2. c \in CallSet /\ c.op \in {"rescue", "rescuing"} /\ phase \in Growing /\ stack # <<>>
  BY <1>1, HeadCall
<1>3. phase = "grow" => ~c.tree
  <2>1. c \in RescueCalls(Current, DOMAIN packages, DOMAIN sources, ToSet(seeds) \cup {Extra})
        /\ Mode(c, phase)
    BY <1>2, CallKinds DEF CallSet
  <2>2. c.tree \in BOOLEAN
    BY <2>1, RescueFields
  <2>. QED
    BY <1>2, <2>1, <2>2 DEF Mode
<1>4. c.seed = Current /\ Inner(c.seed) \subseteq ToSet(seeds)
  <2>1. c.seed = Current
    BY <1>2, CurrentIs DEF Plain
  <2>. QED
    BY <1>2, <2>1, CurrentIs
<1>5. CASE startRescue \/ rescueSource
  <2>1. UNCHANGED dependVars
    BY <1>5 DEF startRescue, rescueSource
  <2>. QED
    BY <1>1, <1>2, <2>1 DEF DependsJoin, dependVars
<1>6. CASE rescuePackage
  <2>1. PICK p \in c.pkgs :
          \/ UNCHANGED build_depends
          \/ /\ p \notin all /\ c.tree
             /\ build_depends' = [build_depends EXCEPT ![c.seed] = @ \cup {p}]
    BY <1>6 DEF rescuePackage, dependVars
  <2>2. CASE UNCHANGED build_depends
    BY <1>1, <1>2, <2>2 DEF DependsJoin
  <2>3. CASE /\ p \notin all /\ c.tree
             /\ build_depends' = [build_depends EXCEPT ![c.seed] = @ \cup {p}]
    <3>1. \A t \in Inner(c.seed) : p \notin build[t]
      BY <1>4, <2>3 DEF ContainedInv, Contains1
    <3>2. Needs({p})
      BY <1>3, <2>3, <3>1 DEF Needs
    <3>. QED
      BY <1>1, <1>2, <2>3, <3>2 DEF DependsJoin
  <2>. QED
    BY <2>1, <2>2, <2>3
<1>. QED
  BY <1>5, <1>6

ASourceJoins == \E src : SourceJoins(src)
NothingJoins == UNCHANGED <<addedVars, dependVars, sourceVars>> /\ call.op # "package"

LEMMA CallJoins ==
  ASSUME ParseInv, PlantInv, SeedsInv, ArchiveInv, StackInv, TreesInv, ContainedInv, CallStep
  PROVE  PackageJoins \/ ASourceJoins \/ DependsJoin \/ NothingJoins
<1>1. CASE addPackage
  BY <1>1, PackageJoinsLists
<1>2. CASE addSource
  <2>1. call.op = "source"
    BY <1>2, HeadCall DEF addSource
  <2>. QED
    BY <1>2, <2>1, SourceJoinsLists DEF ASourceJoins, NothingJoins
<1>3. CASE refusePackage
  BY <1>3 DEF refusePackage, DependsJoin, dependVars
<1>4. CASE checkSatisfied
  <2>1. Running("tree") /\ UNCHANGED <<addedVars, dependVars, sourceVars>>
    BY <1>4 DEF checkSatisfied
  <2>2. call.op = "tree"
    BY <2>1, HeadCall
  <2>. QED
    BY <2>1, <2>2 DEF NothingJoins
<1>5. CASE promoteDependency \/ newDependency
  BY <1>5, TreeJoinsLists
<1>6. CASE startRescue \/ rescueSource \/ rescuePackage
  BY <1>6, RescueJoinsLists
<1>. QED
  BY <1>1, <1>2, <1>3, <1>4, <1>5, <1>6 DEF CallStep

-----------------------------------------------------------------------------
(* The invariants after a step of a call. The lists of the other seeds do  *)
(* not grow.                                                               *)
Elsewhere(t) ==
  /\ build'[t] = build[t] /\ not_build'[t] = not_build[t] /\ build_srcs'[t] = build_srcs[t]
  /\ not_build_srcs'[t] = not_build_srcs[t] /\ DOMAIN why'[t] = DOMAIN why[t]
  /\ build_depends'[t] \subseteq build_depends[t]
  /\ build_sourcepkgs'[t] \subseteq build_sourcepkgs[t]

Joins == PackageJoins \/ ASourceJoins \/ DependsJoin \/ NothingJoins

(* While calls are in progress: the seed they are for, and what it         *)
(* inherits from.                                                          *)
LEMMA Called ==
  ASSUME ParseInv, PlantInv, SeedsInv, ArchiveInv, StackInv, ListsInv, TreesInv, ContainedInv,
         CallStep
  PROVE  /\ Joins /\ call \in CallSet /\ call.op \in Plain /\ call.seed = Current
         /\ call.tree \in BOOLEAN /\ phase \in Growing /\ stack # <<>> /\ stack[1] = call
         /\ SeedDomains(ToSet(seeds)) /\ call.seed \in ToSet(seeds)
         /\ UNCHANGED <<phase, seeds, grown, names, inherit, structure>>
         /\ phase = "grown" => call.tree
<1>1. /\ phase \in Growing /\ stack # <<>>
      /\ UNCHANGED <<phase, seeds, grown, names, inherit, structure>>
  BY CallPushes
<1>2. Joins
  BY CallJoins DEF Joins
<1>3. call \in CallSet /\ call.op \in Plain /\ stack[1] = call
  <2>1. \E op \in Plain : Running(op)
    BY DEF CallStep, Plain, refusePackage, addPackage, addSource, checkSatisfied, promoteDependency,
           newDependency, startRescue, rescueSource, rescuePackage
  <2>. QED
    BY <2>1, HeadCall DEF Plain
<1>4. call.seed = Current /\ Current \in ToSet(seeds) /\ SeedDomains(ToSet(seeds))
  BY <1>1, <1>3, CurrentIs
<1>5. call.tree \in BOOLEAN /\ (phase = "grown" => call.tree)
  <2>1. \/ call \in PackageCalls(Current, DOMAIN packages)
        \/ call \in TreeCalls(Current, DOMAIN packages)
        \/ call \in RescueCalls(Current, DOMAIN packages, DOMAIN sources, ToSet(seeds) \cup {Extra})
    BY <1>3, CallKinds DEF CallSet, Plain
  <2>2. Mode(call, phase)
    BY <1>3, CallKinds DEF CallSet
  <2>3. call.tree \in BOOLEAN
    BY <2>1, PackageFields, TreeFields, RescueFields
  <2>. QED
    BY <1>3, <2>2, <2>3 DEF Mode, Plain
<1>. QED
  BY <1>1, <1>2, <1>3, <1>4, <1>5

LEMMA ElsewhereStays ==
  ASSUME Joins, SeedDomains(ToSet(seeds)), NEW t \in ToSet(seeds), t # call.seed
  PROVE  Elsewhere(t)
<1>1. CASE PackageJoins
  BY <1>1 DEF PackageJoins, Grows, Others, Elsewhere, sourceVars
<1>2. CASE ASourceJoins
  <2>1. PICK src : SourceJoins(src)
    BY <1>2 DEF ASourceJoins
  <2>2. UNCHANGED <<addedVars, dependVars>> /\ build_srcs'[t] = build_srcs[t]
    BY <2>1 DEF SourceJoins, Others
  <2>3. /\ not_build_srcs'[t] = not_build_srcs[t]
        /\ build_sourcepkgs'[t] \subseteq build_sourcepkgs[t]
    BY <2>1 DEF SourceJoins, Others
  <2>. QED
    BY <2>2, <2>3 DEF Elsewhere, addedVars, dependVars
<1>3. CASE DependsJoin
  <2>1. build_depends'[t] = build_depends[t]
    BY <1>3 DEF DependsJoin, SeedDomains
  <2>. QED
    BY <1>3, <2>1 DEF DependsJoin, Elsewhere, addedVars, sourceVars
<1>4. CASE NothingJoins
  BY <1>4 DEF NothingJoins, Elsewhere, addedVars, dependVars, sourceVars
<1>. QED
  BY <1>1, <1>2, <1>3, <1>4 DEF Joins

LEMMA UngrownSeeds ==
  ASSUME ParseInv, PlantInv, SeedsInv, StackInv, phase = "grow", stack # <<>>
  PROVE  /\ grown \in 1..Len(seeds) /\ Current = seeds[grown]
         /\ \A i \in grown + 1 .. Len(seeds) : seeds[i] \in ToSet(seeds) /\ seeds[i] # Current
<1>1. grown \in 1..Len(seeds) /\ seeds \in Seq(SeedName)
  BY DEF StackInv, SeedsInv
<1>2. Distinct(seeds) /\ DOMAIN seeds = 1..Len(seeds)
  BY <1>1, InnerSeeds DEF Early
<1>3. Current = seeds[grown]
  BY DEF Current
<1>4. ASSUME NEW i \in grown + 1 .. Len(seeds) PROVE seeds[i] \in ToSet(seeds) /\ seeds[i] # Current
  <2>1. i \in 1..Len(seeds) /\ i # grown
    BY <1>1
  <2>. QED
    BY <1>1, <1>2, <1>3, <2>1 DEF Distinct, ToSet
<1>. QED
  BY <1>1, <1>3, <1>4

LEMMA UngrownAfterCall ==
  ASSUME ParseInv, PlantInv, SeedsInv, ArchiveInv, StackInv, ListsInv, TreesInv, ContainedInv,
         UngrownInv, CallStep
  PROVE  UngrownInv'
<1>1. /\ Joins /\ SeedDomains(ToSet(seeds)) /\ call.seed = Current /\ phase \in Growing
      /\ stack # <<>> /\ UNCHANGED <<phase, seeds, grown>>
  BY Called
<1>2. CASE phase = "grow"
  <2>1. ASSUME NEW i \in grown + 1 .. Len(seeds) PROVE Blank(seeds[i])'
    <3>. DEFINE t == seeds[i]
    <3>1. t \in ToSet(seeds) /\ t # call.seed
      BY <1>1, <1>2, UngrownSeeds
    <3>2. Blank(t)
      BY <1>2 DEF UngrownInv
    <3>3. seeds'[i] = t
      BY <1>1
    <3>. HIDE DEF t
    <3>4. Elsewhere(t)
      BY <1>1, <3>1, ElsewhereStays
    <3>. QED
      BY <3>2, <3>3, <3>4 DEF Elsewhere, Blank
  <2>. QED
    BY <1>1, <2>1 DEF UngrownInv
<1>3. CASE phase # "grow"
  BY <1>1, <1>3 DEF UngrownInv, Growing
<1>. QED
  BY <1>2, <1>3

LEMMA ContainedAfterCall ==
  ASSUME ParseInv, PlantInv, SeedsInv, ArchiveInv, StackInv, ListsInv, TreesInv, ContainedInv,
         CallStep
  PROVE  ContainedInv'
<1>. DEFINE c == call
            S == ToSet(seeds)
<1>1. /\ Joins /\ SeedDomains(S) /\ c.seed = Current /\ phase \in Growing
      /\ c.seed \in S /\ UNCHANGED <<phase, seeds, inherit>>
  BY Called
<1>2. \A s \in S : s \in Inner(s) /\ Inner(s) \subseteq S
  BY <1>1, InnerSeeds DEF Growing, Early, Late
<1>3. \A s \in S : Inner(s)' = Inner(s)
  BY <1>1 DEF Inner, innerSeeds
<1>4. build[c.seed] \subseteq build'[c.seed]
  <2>1. CASE PackageJoins
    BY <2>1 DEF PackageJoins, Grows
  <2>2. CASE ~PackageJoins
    BY <1>1, <2>2 DEF Joins, ASourceJoins, SourceJoins, DependsJoin, NothingJoins, addedVars
  <2>. QED
    BY <2>1, <2>2
<1>5. \A t \in S : build[t] \subseteq build'[t]
  <2>1. \A t \in S : t # c.seed => Elsewhere(t)
    BY <1>1, ElsewhereStays
  <2>. QED
    BY <1>4, <2>1 DEF Elsewhere
<1>6. ASSUME NEW s \in S PROVE InnerOf(build, s) \subseteq InnerOf(build, s)'
  BY <1>2, <1>3, <1>5 DEF InnerOf
<1>7. all \subseteq all' /\ all_srcs \subseteq all_srcs'
  BY <1>1 DEF Joins, PackageJoins, ASourceJoins, SourceJoins, DependsJoin, NothingJoins,
              addedVars, sourceVars
<1>8. ASSUME NEW s \in S, s # c.seed PROVE Contains1(s)'
  <2>1. Elsewhere(s)
    BY <1>1, <1>8, ElsewhereStays
  <2>2. Contains1(s)
    BY DEF ContainedInv
  <2>. QED
    BY <1>6, <1>7, <2>1, <2>2 DEF Elsewhere, Contains1
<1>9. ASSUME NEW s \in S, s = c.seed PROVE Contains1(s)'
  <2>1. Contains1(s) /\ InnerOf(build, s) \subseteq InnerOf(build, s)'
    BY <1>6 DEF ContainedInv
  <2>2. CASE PackageJoins
    <3>1. c.pkg \in InnerOf(build, s)'
      <4>1. PICK t \in Inner(s) : c.pkg \in build'[t]
        BY <1>9, <2>2 DEF PackageJoins, Grows
      <4>2. t \in Inner(s)'
        BY <1>3
      <4>. QED
        BY <4>1, <4>2 DEF InnerOf
    <3>2. /\ not_build'[s] \subseteq not_build[s] \cup {c.pkg}
          /\ DOMAIN why'[s] \subseteq DOMAIN why[s] \cup {c.pkg}
          /\ build'[s] \subseteq build[s] \cup {c.pkg} /\ all' = all \cup {c.pkg}
          /\ UNCHANGED sourceVars
      BY <1>9, <2>2 DEF PackageJoins, Grows
    <3>. QED
      BY <2>1, <3>1, <3>2 DEF Contains1, sourceVars
  <2>3. CASE ASourceJoins
    <3>1. PICK src : SourceJoins(src)
      BY <2>3 DEF ASourceJoins
    <3>2. /\ UNCHANGED addedVars
          /\ build_srcs'[s] = build_srcs[s] \cup {src} /\ all_srcs' = all_srcs \cup {src}
          /\ not_build_srcs'[s] \subseteq not_build_srcs[s] \cup {src}
          /\ build_sourcepkgs'[s] \subseteq build_sourcepkgs[s] \cup {src}
      BY <1>1, <1>9, <3>1 DEF SourceJoins
    <3>. QED
      BY <2>1, <3>2 DEF Contains1, addedVars
  <2>4. CASE DependsJoin \/ NothingJoins
    <3>1. UNCHANGED <<addedVars, sourceVars>>
      BY <2>4 DEF DependsJoin, NothingJoins
    <3>. QED
      BY <2>1, <3>1 DEF Contains1, addedVars, sourceVars
  <2>. QED
    BY <1>1, <2>2, <2>3, <2>4 DEF Joins
<1>. QED
  BY <1>1, <1>8, <1>9 DEF ContainedInv

LEMMA PendingAfterCall ==
  ASSUME ParseInv, PlantInv, SeedsInv, ArchiveInv, StackInv, ListsInv, TreesInv, ContainedInv,
         PendingInv, CallStep
  PROVE  PendingInv'
<1>. DEFINE c == call
            S == ToSet(seeds)
<1>1. /\ Joins /\ SeedDomains(S) /\ c.seed = Current /\ phase \in Growing /\ stack # <<>>
      /\ c.seed \in S /\ stack[1] = c /\ UNCHANGED <<phase, seeds>>
  BY Called
<1>2. CASE phase # "grow"
  BY <1>1, <1>2 DEF PendingInv
<1>3. CASE phase = "grow"
  <2>1. BuildsFirst(stack) /\ \A s \in S : \A p \in build_depends[s] \ all : Coming(p)
    BY <1>3 DEF PendingInv
  <2>2. BuildsFirst(stack)'
    <3>1. PICK calls \in Seq(CallSet) : stack' = calls \o Tail(stack) /\ Pushed(calls)
      BY CallPushes DEF Pushes
    <3>2. SameTrees(calls, stack[1].tree)
      BY <1>1, <1>3, <3>1 DEF Pushed, SameTrees
    <3>. DEFINE C == CallSet
                r == stack'
    <3>3. r = calls \o Tail(stack) /\ calls \in Seq(C) /\ stack \in Seq(C)
      BY <1>1, <3>1 DEF StackInv
    <3>. HIDE DEF C, r
    <3>4. BuildsFirst(r)
      BY <1>1, <2>1, <3>2, <3>3, PushOrdered
    <3>. QED
      BY <3>4 DEF r, BuildsFirst
  <2>3. ASSUME NEW p, Coming(p), c.op # "package" \/ ~Accepted(c) \/ c.pkg # p
        PROVE  Coming(p)'
    BY <2>3, ComingStays
  <2>4. ASSUME NEW s \in S, NEW p \in build_depends'[s], p \notin all'
        PROVE  Coming(p)'
    <3>1. CASE PackageJoins
      <4>1. p \in build_depends[s] \ all /\ p # c.pkg
        BY <2>4, <3>1 DEF PackageJoins
      <4>. QED
        BY <2>1, <2>3, <4>1
    <3>2. CASE ASourceJoins
      <4>1. PICK src : SourceJoins(src)
        BY <3>2 DEF ASourceJoins
      <4>2. c.op # "package" /\ build_depends' = build_depends /\ all' = all
        BY <4>1 DEF SourceJoins, addedVars, dependVars
      <4>. QED
        BY <2>1, <2>3, <2>4, <4>2
    <3>3. CASE NothingJoins
      <4>1. c.op # "package" /\ build_depends' = build_depends /\ all' = all
        BY <3>3 DEF NothingJoins, addedVars, dependVars
      <4>. QED
        BY <2>1, <2>3, <2>4, <4>1
    <3>4. CASE DependsJoin
      <4>1. all' = all /\ (c.op # "package" \/ ~Accepted(c))
        BY <3>4 DEF DependsJoin, addedVars
      <4>2. CASE p \in build_depends[s]
        BY <2>1, <2>3, <2>4, <4>1, <4>2
      <4>3. CASE p \notin build_depends[s]
        <5>1. PICK W : /\ build_depends' = [build_depends EXCEPT ![c.seed] = @ \cup W]
                       /\ phase # "extras" => Needs(W)
          BY <2>4, <3>4, <4>3 DEF DependsJoin
        <5>2. p \in W
          <6>1. DOMAIN build_depends = S
            BY <1>1 DEF SeedDomains
          <6>. QED
            BY <1>1, <2>4, <4>3, <5>1, <6>1
        <5>3. PICK x \in ToSet(stack') : x.op = "package" /\ x.pkg = p /\ x.tree /\ Accepted(x)
          BY <1>3, <5>1, <5>2 DEF Needs
        <5>4. Accepted(x)'
          <6>1. UNCHANGED <<pruned, options, names, inherit, structure>>
            BY CallPushes
          <6>. QED
            BY <5>3, <6>1, AcceptedStays
        <5>. QED
          BY <5>3, <5>4 DEF Coming
      <4>. QED
        BY <4>2, <4>3
    <3>. QED
      BY <1>1, <3>1, <3>2, <3>3, <3>4 DEF Joins
  <2>. QED
    BY <1>1, <2>2, <2>4 DEF PendingInv
<1>. QED
  BY <1>2, <1>3

-----------------------------------------------------------------------------
(* What two seeds have in their lists, one of which inherits from the      *)
(* other: InnermostList, for one such pair.                                *)
Apart(s, t) ==
  /\ not_build[s] \cap not_build[t] = {} /\ not_build_srcs[s] \cap not_build_srcs[t] = {}
  /\ t # supported => build[s] \cap build[t] = {}
OnlyBuilds(s, t) ==
  t = s \/ t # supported => /\ not_build[s] \cap build_depends[t] = {}
                            /\ not_build_srcs[s] \cap build_sourcepkgs[t] = {}
ApartInv ==
  \A s \in ToSet(seeds) \ {Extra} : /\ \A t \in ToSet(inherit[s]) : Apart(s, t)
                                    /\ \A t \in Inner(s) : OnlyBuilds(s, t)
ExtraInv ==
  Extra \in ToSet(seeds) =>
    \A s \in ToSet(seeds) \ {Extra} : build[Extra] \cap (build[s] \cup DOMAIN why[s]) = {}

(* What a seed adds for run time is no build dependency any more of any    *)
(* seed it inherits from.                                                  *)
LEMMA RunTimeLeaves ==
  ASSUME ParseInv, PlantInv, SeedsInv, ArchiveInv, StackInv, ListsInv, TreesInv, ContainedInv,
         PendingInv, CallStep, PackageJoins, phase # "extras", ~call.tree,
         NEW t \in ToSet(seeds), t \in Inner(call.seed)
  PROVE  call.pkg \notin build_depends'[t]
<1>. DEFINE c == call
<1>1. /\ phase \in Growing /\ stack # <<>> /\ stack[1] = c /\ (phase = "grown" => c.tree)
  BY Called
<1>2. phase = "grow"
  BY <1>1 DEF Growing
<1>3. CASE c.pkg \in all
  BY <1>3 DEF PackageJoins
<1>4. CASE c.pkg \notin all
  <2>1. ~Coming(c.pkg)
    <3>. DEFINE C == CallSet
                p == c.pkg
    <3>1. stack \in Seq(C) /\ BuildsFirst(stack) /\ ~stack[1].tree
      BY <1>1, <1>2 DEF StackInv, PendingInv
    <3>. HIDE DEF C, p
    <3>2. ~Coming(p)
      BY <1>1, <3>1, NothingComes
    <3>. QED
      BY <3>2 DEF p
  <2>2. c.pkg \notin build_depends[t]
    BY <1>2, <1>4, <2>1 DEF PendingInv
  <2>3. build_depends'[t] \subseteq build_depends[t]
    BY DEF PackageJoins
  <2>. QED
    BY <2>2, <2>3
<1>. QED
  BY <1>3, <1>4

LEMMA Kin ==
  ASSUME ParseInv, PlantInv, SeedsInv, phase \in Growing, NEW s \in ToSet(seeds), s # Extra
  PROVE  /\ s \in Inner(s) /\ Inner(s) = ToSet(inherit[s]) \cup {s}
         /\ Inner(s) \subseteq ToSet(seeds) /\ Extra \notin Inner(s)
         /\ s \notin ToSet(inherit[s])
<1>1. phase \in Early \cup Late /\ phase # "plant"
  BY DEF Growing, Early, Late
<1>2. /\ s \in Inner(s) /\ Inner(s) = ToSet(inherit[s]) \cup {s} /\ Inner(s) \subseteq ToSet(seeds)
      /\ \A t \in ToSet(inherit[s]) : t # s /\ t # Extra
  BY <1>1, InnerSeeds
<1>. QED
  BY <1>2

(* A seed that inherits from the one that grows has not grown.             *)
LEMMA HeirsAreBlank ==
  ASSUME ParseInv, PlantInv, SeedsInv, StackInv, UngrownInv', phase = "grow", stack # <<>>,
         UNCHANGED <<phase, seeds, grown>>,
         NEW s \in ToSet(seeds), s # Extra, Current \in ToSet(inherit[s])
  PROVE  Blank(s)'
<1>1. /\ Distinct(seeds) /\ DOMAIN seeds = 1..Len(seeds)
      /\ \E i \in 1..Len(seeds) : seeds[i] = s /\ \A t \in ToSet(inherit[s]) :
                 \E j \in 1 .. i - 1 : seeds[j] = t
  <2>1. seeds \in Seq(SeedName)
    BY DEF SeedsInv
  <2>2. DOMAIN seeds = 1..Len(seeds)
    BY <2>1
  <2>. QED
    BY <2>2, InnerSeeds DEF Early
<1>2. grown \in 1..Len(seeds) /\ Current = seeds[grown] /\ Len(seeds) \in Nat
  <2>1. Len(seeds) \in Nat
    BY DEF SeedsInv
  <2>. QED
    BY <2>1, UngrownSeeds
<1>3. PICK i \in 1..Len(seeds) : seeds[i] = s /\ \A t \in ToSet(inherit[s]) :
                 \E j \in 1 .. i - 1 : seeds[j] = t
  BY <1>1
<1>4. PICK j \in 1 .. i - 1 : seeds[j] = Current
  BY <1>3
<1>5. j \in 1..Len(seeds)
  BY <1>2, <1>3, <1>4
<1>6. j = grown
  BY <1>1, <1>2, <1>4, <1>5 DEF Distinct
<1>7. i \in grown + 1 .. Len(seeds)
  BY <1>2, <1>3, <1>4, <1>6
<1>. QED
  BY <1>3, <1>7 DEF UngrownInv

(* The seed whose calls run, and one it inherits from.                     *)
LEMMA ApartHere ==
  ASSUME ParseInv, PlantInv, SeedsInv, ArchiveInv, StackInv, ListsInv, TreesInv, ContainedInv,
         PendingInv, ApartInv, CallStep, phase # "extras", NEW s, s = call.seed
  PROVE  /\ \A t \in ToSet(inherit[s]) : Apart(s, t)'
         /\ \A t \in Inner(s) : OnlyBuilds(s, t)'
<1>. DEFINE c == call
            S == ToSet(seeds)
            p == c.pkg
<1>1. /\ Joins /\ SeedDomains(S) /\ c.seed = Current /\ phase \in Growing
      /\ c.seed \in S /\ UNCHANGED <<phase, seeds, inherit, structure>>
  BY Called
<1>2. s # Extra
  BY <1>1, SeedsPlanted DEF Growing, Early
<1>3. /\ s \in Inner(s) /\ Inner(s) = ToSet(inherit[s]) \cup {s} /\ Inner(s) \subseteq S
      /\ s \notin ToSet(inherit[s])
  BY <1>1, <1>2, Kin
<1>4. supported' = supported
  BY <1>1 DEF supported
<1>5. \A t \in ToSet(inherit[s]) : t \in S /\ t # s /\ t \in Inner(s) /\ Elsewhere(t) /\ Apart(s, t)
  BY <1>1, <1>2, <1>3, ElsewhereStays DEF ApartInv
<1>6. \A t \in Inner(s) : OnlyBuilds(s, t) /\ t \in S /\ (t # s => Elsewhere(t))
  BY <1>1, <1>2, <1>3, ElsewhereStays DEF ApartInv
<1>7. CASE PackageJoins
  <2>1. ASSUME NEW t \in ToSet(inherit[s]) PROVE Apart(s, t)'
    <3>1. build'[s] \cap build[t] \subseteq build[s] \cap build[t]
      BY <1>5, <1>7 DEF PackageJoins, Grows
    <3>2. not_build'[s] \cap not_build[t] \subseteq not_build[s] \cap not_build[t]
      BY <1>5, <1>7 DEF PackageJoins, Grows
    <3>3. not_build_srcs' = not_build_srcs
      BY <1>7 DEF PackageJoins, sourceVars
    <3>4. build'[t] = build[t] /\ not_build'[t] = not_build[t]
      BY <1>5 DEF Elsewhere
    <3>. QED
      BY <1>4, <1>5, <3>1, <3>2, <3>3, <3>4 DEF Apart
  <2>2. ASSUME NEW t \in Inner(s) PROVE OnlyBuilds(s, t)'
    <3>1. /\ not_build'[s] \subseteq not_build[s] \cup {p}
          /\ c.tree => not_build'[s] = not_build[s]
          /\ build_depends'[t] \subseteq build_depends[t]
          /\ not_build_srcs' = not_build_srcs /\ build_sourcepkgs' = build_sourcepkgs
      BY <1>6, <1>7 DEF PackageJoins, Grows, sourceVars
    <3>2. ~c.tree => p \notin build_depends'[t]
      BY <1>6, <1>7, RunTimeLeaves
    <3>3. OnlyBuilds(s, t)
      BY <1>6
    <3>. HIDE DEF c, p
    <3>. QED
      BY <1>4, <3>1, <3>2, <3>3 DEF OnlyBuilds
  <2>. QED
    BY <2>1, <2>2
<1>8. CASE ASourceJoins
  <2>1. PICK src : SourceJoins(src)
    BY <1>8 DEF ASourceJoins
  <2>2. UNCHANGED <<build, not_build, build_depends>>
    BY <2>1 DEF SourceJoins, addedVars, dependVars
  <2>3. ASSUME NEW t \in ToSet(inherit[s]) PROVE Apart(s, t)'
    <3>1. /\ not_build_srcs'[s] \subseteq not_build_srcs[s] \cup {src}
          /\ src \notin not_build_srcs[t] /\ not_build_srcs'[t] = not_build_srcs[t]
      BY <1>5, <2>1 DEF SourceJoins, Elsewhere
    <3>2. Apart(s, t)
      BY <1>5
    <3>. QED
      BY <1>4, <2>2, <3>1, <3>2 DEF Apart
  <2>4. ASSUME NEW t \in Inner(s) PROVE OnlyBuilds(s, t)'
    <3>1. OnlyBuilds(s, t) /\ t \in S /\ (t # s => Elsewhere(t))
      BY <1>6
    <3>2. CASE ~c.tree
      <4>1. /\ not_build_srcs'[s] = not_build_srcs[s] \cup {src}
            /\ build_sourcepkgs'[t] \subseteq build_sourcepkgs[t] \ {src}
        BY <2>1, <3>1, <3>2 DEF SourceJoins
      <4>. QED
        BY <1>4, <2>2, <3>1, <4>1 DEF OnlyBuilds
    <3>3. CASE c.tree
      <4>1. /\ not_build_srcs' = not_build_srcs /\ src \notin not_build_srcs[s]
            /\ build_sourcepkgs'[s] \subseteq build_sourcepkgs[s] \cup {src}
        BY <1>3, <2>1, <3>3 DEF SourceJoins
      <4>2. t # s => build_sourcepkgs'[t] \subseteq build_sourcepkgs[t]
        BY <3>1 DEF Elsewhere
      <4>3. build_sourcepkgs'[t] \subseteq build_sourcepkgs[t] \cup {src}
        BY <4>1, <4>2
      <4>. QED
        BY <1>4, <2>2, <3>1, <4>1, <4>3 DEF OnlyBuilds
    <3>. QED
      BY <3>2, <3>3
  <2>. QED
    BY <2>3, <2>4
<1>9. CASE DependsJoin
  <2>1. UNCHANGED <<addedVars, sourceVars>>
    BY <1>9 DEF DependsJoin
  <2>2. ASSUME NEW t \in ToSet(inherit[s]) PROVE Apart(s, t)'
    BY <1>4, <1>5, <2>1 DEF Apart, addedVars, sourceVars
  <2>3. ASSUME NEW t \in Inner(s) PROVE OnlyBuilds(s, t)'
    <3>1. OnlyBuilds(s, t) /\ t \in S
      BY <1>6
    <3>2. not_build[s] \cap build_depends'[t] \subseteq not_build[s] \cap build_depends[t]
      <4>1. CASE UNCHANGED build_depends
        BY <4>1
      <4>2. CASE ~UNCHANGED build_depends
        <5>1. PICK W : build_depends' = [build_depends EXCEPT ![c.seed] = @ \cup W] /\ Needs(W)
          BY <1>9, <4>2 DEF DependsJoin
        <5>2. W \cap not_build[s] = {}
          <6>1. not_build[s] \subseteq InnerOf(build, s)
            BY <1>1 DEF ContainedInv, Contains1
          <6>. QED
            BY <5>1, <6>1 DEF Needs, InnerOf
        <5>3. build_depends'[t] \subseteq build_depends[t] \cup W
          BY <1>1, <3>1, <5>1 DEF SeedDomains
        <5>. QED
          BY <5>2, <5>3
      <4>. QED
        BY <4>1, <4>2
    <3>. QED
      BY <1>4, <2>1, <3>1, <3>2 DEF OnlyBuilds, addedVars, sourceVars
  <2>. QED
    BY <2>2, <2>3
<1>10. CASE NothingJoins
  BY <1>4, <1>5, <1>6, <1>10 DEF NothingJoins, Apart, OnlyBuilds, addedVars, dependVars, sourceVars
<1>. QED
  BY <1>1, <1>7, <1>8, <1>9, <1>10 DEF Joins

LEMMA ApartAfterCall ==
  ASSUME ParseInv, PlantInv, SeedsInv, ArchiveInv, StackInv, ListsInv, TreesInv, ContainedInv,
         UngrownInv, UngrownInv', PendingInv, ApartInv, CallStep
  PROVE  ApartInv'
<1>. DEFINE S == ToSet(seeds)
<1>1. /\ Joins /\ SeedDomains(S) /\ call.seed = Current /\ phase \in Growing /\ stack # <<>>
      /\ call.seed \in S /\ (phase = "grown" => call.tree)
      /\ UNCHANGED <<phase, seeds, grown, inherit, structure>>
  BY Called
<1>2. supported' = supported /\ \A s \in S : Inner(s)' = Inner(s)
  BY <1>1 DEF supported, Inner, innerSeeds
<1>3. ASSUME NEW s \in S, s # Extra
      PROVE  (\A t \in ToSet(inherit[s]) : Apart(s, t)') /\ (\A t \in Inner(s) : OnlyBuilds(s, t)')
  <2>1. /\ s \in Inner(s) /\ Inner(s) = ToSet(inherit[s]) \cup {s} /\ Inner(s) \subseteq S
        /\ Extra \notin Inner(s) /\ s \notin ToSet(inherit[s])
    BY <1>1, <1>3, Kin
  <2>2. CASE s = call.seed
    <3>1. phase # "extras"
      BY <1>1, <1>3, <2>2 DEF Current
    <3>. QED
      BY <2>2, <3>1, ApartHere
  <2>3. CASE s # call.seed
    <3>1. Elsewhere(s)
      BY <1>1, <2>3, ElsewhereStays
    <3>2. ASSUME NEW t \in Inner(s), t # call.seed
          PROVE  (t # s => Apart(s, t)') /\ OnlyBuilds(s, t)'
      <4>1. Elsewhere(t)
        BY <1>1, <2>1, <3>2, ElsewhereStays
      <4>2. (t # s => Apart(s, t)) /\ OnlyBuilds(s, t)
        BY <1>3, <2>1 DEF ApartInv
      <4>3. t # s => Apart(s, t)'
        BY <1>2, <3>1, <4>1, <4>2 DEF Elsewhere, Apart
      <4>4. OnlyBuilds(s, t)'
        BY <1>2, <3>1, <4>1, <4>2 DEF Elsewhere, OnlyBuilds
      <4>. QED
        BY <4>3, <4>4
    <3>3. ASSUME NEW t \in Inner(s), t = call.seed PROVE Apart(s, t)' /\ OnlyBuilds(s, t)'
      <4>1. t \in ToSet(inherit[s]) /\ t # s
        BY <2>1, <2>3, <3>3
      <4>2. CASE phase = "grow"
        <5>1. Blank(s)'
          BY <1>1, <1>3, <3>3, <4>1, <4>2, HeirsAreBlank
        <5>. QED
          BY <5>1 DEF Blank, Apart, OnlyBuilds
      <4>3. CASE phase = "grown"
        <5>1. t = supported /\ call.tree
          BY <1>1, <3>3, <4>3 DEF Current
        <5>2. not_build' = not_build /\ not_build_srcs' = not_build_srcs
          <6>1. not_build' = not_build
            BY <1>1, <5>1 DEF Joins, PackageJoins, ASourceJoins, SourceJoins, DependsJoin,
                              NothingJoins, addedVars
          <6>2. not_build_srcs' = not_build_srcs
            BY <1>1, <5>1 DEF Joins, PackageJoins, ASourceJoins, SourceJoins, DependsJoin,
                              NothingJoins, sourceVars
          <6>. QED
            BY <6>1, <6>2
        <5>3. Apart(s, t)
          BY <1>3, <4>1 DEF ApartInv
        <5>. QED
          BY <1>2, <4>1, <5>1, <5>2, <5>3 DEF Apart, OnlyBuilds
      <4>4. CASE phase = "extras"
        <5>1. t = Extra
          BY <1>1, <3>3, <4>4 DEF Current
        <5>. QED
          BY <2>1, <5>1
      <4>. QED
        BY <1>1, <4>2, <4>3, <4>4 DEF Growing
    <3>. QED
      BY <2>1, <3>2, <3>3
  <2>. QED
    BY <2>2, <2>3
<1>. QED
  BY <1>1, <1>2, <1>3 DEF ApartInv

LEMMA ExtraAfterCall ==
  ASSUME ParseInv, PlantInv, SeedsInv, ArchiveInv, StackInv, ListsInv, TreesInv, ContainedInv,
         ExtraInv, CallStep
  PROVE  ExtraInv'
<1>. DEFINE S == ToSet(seeds)
<1>1. /\ Joins /\ SeedDomains(S) /\ call.seed = Current /\ phase \in Growing /\ stack # <<>>
      /\ call.seed \in S /\ UNCHANGED <<phase, seeds>>
  BY Called
<1>2. CASE phase # "extras"
  BY <1>1, <1>2, SeedsPlanted DEF ExtraInv, Growing, Early
<1>3. CASE phase = "extras"
  <2>1. call.seed = Extra /\ Extra \in S
    BY <1>1, <1>3 DEF Current
  <2>2. ASSUME NEW s \in S, s # Extra PROVE build'[Extra] \cap (build'[s] \cup DOMAIN why'[s]) = {}
    <3>1. Elsewhere(s)
      BY <1>1, <2>1, <2>2, ElsewhereStays
    <3>2. build[Extra] \cap (build[s] \cup DOMAIN why[s]) = {}
      BY <2>1, <2>2 DEF ExtraInv
    <3>3. CASE ~PackageJoins
      <4>1. build' = build
        BY <1>1, <3>3 DEF Joins, ASourceJoins, SourceJoins, DependsJoin, NothingJoins, addedVars
      <4>. QED
        BY <3>1, <3>2, <4>1 DEF Elsewhere
    <3>4. CASE PackageJoins
      <4>1. /\ build'[Extra] \subseteq build[Extra] \cup {call.pkg}
            /\ build' = build \/ \A t \in Inner(Extra) : call.pkg \notin build[t]
        BY <2>1, <3>4 DEF PackageJoins, Grows
      <4>2. S \subseteq Inner(Extra)
        <5>1. Inner(Extra) = ToSet(inherit[Extra]) \cup {Extra}
          BY <1>3, <2>1, InnerSeeds DEF Late
        <5>2. ToSet(inherit[Extra]) = S
          BY <1>3, SeedsPlanted DEF PlantInv, Late
        <5>. QED
          BY <5>1, <5>2
      <4>3. Inner(s) \subseteq S
        BY <1>1, <2>2, Kin
      <4>4. DOMAIN why[s] \subseteq InnerOf(build, s)
        BY DEF ContainedInv, Contains1
      <4>5. build' # build => call.pkg \notin build[s] \cup DOMAIN why[s]
        BY <4>1, <4>2, <4>3, <4>4 DEF InnerOf
      <4>. QED
        BY <3>1, <3>2, <4>1, <4>5 DEF Elsewhere
    <3>. QED
      BY <3>3, <3>4
  <2>. QED
    BY <1>1, <2>2 DEF ExtraInv
<1>. QED
  BY <1>2, <1>3

-----------------------------------------------------------------------------
(* The other steps: new seeds have nothing, the lists stay as they are.    *)
PlaceInv == UngrownInv /\ ContainedInv /\ PendingInv /\ ApartInv /\ ExtraInv

LEMMA BlankIsFine ==
  ASSUME \A s \in ToSet(seeds') : Blank(s)', Extra \notin ToSet(seeds')
  PROVE  ContainedInv' /\ ApartInv' /\ ExtraInv'
<1>1. ASSUME NEW s \in ToSet(seeds')
      PROVE  Contains1(s)' /\ \A t : Apart(s, t)' /\ OnlyBuilds(s, t)'
  BY DEF Blank, Contains1, Apart, OnlyBuilds
<1>. QED
  BY <1>1 DEF ContainedInv, ApartInv, ExtraInv

LEMMA BlankWhilePlanting ==
  ASSUME PlaceInv, SeedsInv, phase = "plant"
  PROVE  grown = 0 /\ \A i \in 1..Len(seeds) : Blank(seeds[i])
BY DEF PlaceInv, UngrownInv, SeedsInv

LEMMA ListsSame ==
  ASSUME PlaceInv, UNCHANGED <<seeds, inherit, structure, addedVars, dependVars, sourceVars>>
  PROVE  ContainedInv' /\ ApartInv' /\ ExtraInv'
<1>1. supported' = supported /\ \A s : Inner(s)' = Inner(s)
  BY DEF supported, Inner, innerSeeds
<1>2. ASSUME NEW s, NEW t
      PROVE  /\ Apart(s, t)' <=> Apart(s, t)
             /\ OnlyBuilds(s, t)' <=> OnlyBuilds(s, t)
             /\ Contains1(s)' <=> Contains1(s)
  BY <1>1 DEF Apart, OnlyBuilds, Contains1, InnerOf, addedVars, dependVars, sourceVars
<1>3. ContainedInv'
  BY <1>2 DEF PlaceInv, ContainedInv
<1>4. ApartInv'
  BY <1>1, <1>2 DEF PlaceInv, ApartInv
<1>5. ExtraInv'
  BY DEF PlaceInv, ExtraInv, addedVars
<1>. QED
  BY <1>3, <1>4, <1>5

LEMMA NewSeedPlaces ==
  ASSUME ParseInv, PlantInv, SeedsInv, StackInv, PlaceInv, plantSeed \/ addExtras
  PROVE  PlaceInv'
<1>. DEFINE S == ToSet(seeds)
<1>0. UNCHANGED <<grown, structure>>
  BY NewSeedStep
<1>1. CASE plantSeed /\ NothingPlanted
  <2>1. UNCHANGED inherit
    BY <1>1 DEF plantSeed, structureVars, parseVars
  <2>2. UNCHANGED <<seeds, addedVars, dependVars, sourceVars>> /\ phase' = "noSeed"
    BY <1>1 DEF NothingPlanted
  <2>3. ContainedInv' /\ ApartInv' /\ ExtraInv'
    BY <1>0, <2>1, <2>2, ListsSame
  <2>. QED
    BY <2>2, <2>3 DEF PlaceInv, UngrownInv, PendingInv
<1>2. ASSUME NEW s, Planted(s)
      PROVE  /\ seeds' = Append(seeds, s) /\ seeds \in Seq(SeedName) /\ Blank(s)'
             /\ \A t \in S : Blank(t) => Blank(t)'
             /\ \A t \in S : /\ build'[t] = build[t] /\ not_build'[t] = not_build[t]
                             /\ not_build_srcs'[t] = not_build_srcs[t] /\ why'[t] = why[t]
                             /\ build_srcs'[t] = build_srcs[t]
                             /\ build_depends'[t] = build_depends[t]
                             /\ build_sourcepkgs'[t] = build_sourcepkgs[t]
             /\ UNCHANGED <<all, all_srcs>>
  <2>1. NewSeed(s) /\ s \notin S
    BY <1>2 DEF Planted
  <2>2. \A t \in S : t # s
    BY <2>1
  <2>3. DOMAIN why'[s] = {}
    BY <2>1 DEF NewSeed
  <2>. QED
    BY <2>1, <2>2, <2>3 DEF NewSeed, Blank, SeedsInv
<1>3. CASE plantSeed /\ UNCHANGED <<phase, names, inherit>> /\ \E s : Planted(s) /\ s # Extra
  <2>1. PICK s : Planted(s) /\ s # Extra
    BY <1>3
  <2>2. phase = "plant" /\ phase' = phase
    BY <1>3 DEF plantSeed
  <2>3. grown = 0 /\ \A i \in 1..Len(seeds) : Blank(seeds[i])
    BY <2>2, BlankWhilePlanting
  <2>4. \A t \in S : Blank(t)
    BY <2>3 DEF ToSet
  <2>5. ToSet(seeds') = S \cup {s}
    BY <2>1 DEF Planted
  <2>6. \A t \in ToSet(seeds') : Blank(t)'
    BY <1>2, <2>1, <2>4, <2>5
  <2>7. Extra \notin ToSet(seeds')
    BY <2>1, <2>2, <2>5, SeedsPlanted DEF Early
  <2>8. ContainedInv' /\ ApartInv' /\ ExtraInv'
    BY <2>6, <2>7, BlankIsFine
  <2>9. UngrownInv'
    <3>1. \A i \in 1..Len(seeds') : seeds'[i] \in ToSet(seeds')
      BY DEF ToSet
    <3>2. grown' = 0
      BY <1>0, <2>3
    <3>. QED
      BY <2>6, <3>1, <3>2 DEF UngrownInv
  <2>. QED
    BY <2>2, <2>8, <2>9 DEF PlaceInv, PendingInv
<1>4. CASE addExtras /\ Planted(Extra)
  <2>1. phase = "grown" /\ phase' = "extras"
    BY <1>4 DEF addExtras
  <2>2. Extra \notin S /\ ToSet(seeds') = S \cup {Extra} /\ Blank(Extra)'
        /\ UNCHANGED <<all, all_srcs>>
    BY <1>2, <1>4 DEF Planted
  <2>3. ASSUME NEW s \in S
        PROVE  s # Extra /\ inherit'[s] = inherit[s] /\ Inner(s)' = Inner(s) /\ Inner(s) \subseteq S
               /\ ToSet(inherit[s]) \subseteq S
    <3>1. inherit' = Put(inherit, Extra, InheritedByExtra) /\ s # Extra
      BY <1>4, <2>2 DEF addExtras
    <3>2. s \in DOMAIN inherit
      BY <2>1, SeedsPlanted DEF PlantInv, Early
    <3>3. inherit'[s] = inherit[s]
      BY <3>1, <3>2 DEF Put
    <3>4. Inner(s) \subseteq S /\ Inner(s) = ToSet(inherit[s]) \cup {s}
      BY <2>1, <3>1, Kin DEF Growing
    <3>. QED
      BY <3>1, <3>3, <3>4 DEF Inner, innerSeeds
  <2>4. supported' = supported
    BY <1>0 DEF supported
  <2>5. ContainedInv'
    <3>1. ASSUME NEW s \in S PROVE Contains1(s)'
      <4>1. Contains1(s)
        BY DEF PlaceInv, ContainedInv
      <4>2. InnerOf(build, s)' = InnerOf(build, s)
        BY <1>2, <1>4, <2>3 DEF InnerOf
      <4>. QED
        BY <1>2, <1>4, <2>2, <4>1, <4>2 DEF Contains1
    <3>2. Contains1(Extra)'
      BY <2>2 DEF Blank, Contains1
    <3>. QED
      BY <2>2, <3>1, <3>2 DEF ContainedInv
  <2>6. ApartInv'
    <3>1. ASSUME NEW s \in S, NEW t \in S
          PROVE  (Apart(s, t) => Apart(s, t)') /\ (OnlyBuilds(s, t) => OnlyBuilds(s, t)')
      BY <1>2, <1>4, <2>4 DEF Apart, OnlyBuilds
    <3>2. ASSUME NEW s \in S
          PROVE  /\ \A t \in ToSet(inherit'[s]) : Apart(s, t)'
                 /\ \A t \in Inner(s)' : OnlyBuilds(s, t)'
      BY <2>3, <3>1 DEF PlaceInv, ApartInv
    <3>. QED
      BY <2>2, <3>2 DEF ApartInv
  <2>7. ExtraInv'
    BY <2>2 DEF ExtraInv, Blank
  <2>. QED
    BY <2>1, <2>5, <2>6, <2>7 DEF PlaceInv, UngrownInv, PendingInv
<1>. QED
  BY <1>1, <1>3, <1>4, NewSeedStep

LEMMA OrderedIfNone ==
  ASSUME NEW C, stack' \in Seq(C), \A x \in ToSet(stack') : ~x.tree
  PROVE  BuildsFirst(stack)'
<1>. DEFINE r == stack'
<1>1. r \in Seq(C) /\ \A x \in ToSet(r) : ~x.tree
  OBVIOUS
<1>. HIDE DEF r
<1>2. \A i \in 1..Len(r) : ~r[i].tree
  BY <1>1 DEF ToSet
<1>. QED
  BY <1>2 DEF BuildsFirst, r

LEMMA GrowSeedPlaces ==
  ASSUME ParseInv, PlantInv, SeedsInv, StackInv, ListsInv, PlaceInv, growSeed
  PROVE  PlaceInv'
<1>1. /\ phase = "grow" /\ phase' = phase /\ stack = <<>> /\ grown' = grown + 1
      /\ UNCHANGED <<seeds, inherit, structure, addedVars, dependVars, sourceVars>>
  BY DEF growSeed, structureVars, parseVars, plantVars
<1>2. ContainedInv' /\ ApartInv' /\ ExtraInv'
  BY <1>1, ListsSame
<1>3. UngrownInv'
  <2>1. grown \in Nat /\ Len(seeds) \in Nat
    BY DEF SeedsInv
  <2>2. \A i \in grown + 2 .. Len(seeds) : i \in grown + 1 .. Len(seeds)
    BY <2>1
  <2>3. \A i \in grown' + 1 .. Len(seeds') : i \in grown + 1 .. Len(seeds)
    BY <1>1, <2>1, <2>2
  <2>4. \A t : Blank(t) => Blank(t)'
    BY <1>1 DEF Blank, addedVars, dependVars, sourceVars
  <2>. QED
    BY <1>1, <2>3, <2>4 DEF PlaceInv, UngrownInv
<1>4. BuildsFirst(stack)'
  <2>1. PICK pk, rs : /\ stack' = pk \o rs /\ pk \in Seq(CallSet') /\ rs \in Seq(CallSet')
                      /\ \A x \in ToSet(pk) : \E s, p : Fresh(x, s, p)
                      /\ \A x \in ToSet(rs) : x.op = "rescue"
    BY GrowSeedIs
  <2>. DEFINE C == CallSet'
  <2>2. pk \in Seq(C) /\ rs \in Seq(C)
    BY <2>1
  <2>3. \A x \in C : x.op = "rescue" => ~x.tree
    <3>1. ASSUME NEW x \in Calls(Current', DOMAIN packages', DOMAIN sources',
                                 ToSet(seeds') \cup {Extra}, phase'),
                 x.op = "rescue"
          PROVE  ~x.tree
      <4>1. /\ x \in RescueCalls(Current', DOMAIN packages', DOMAIN sources',
                                 ToSet(seeds') \cup {Extra})
            /\ Mode(x, phase')
        BY <3>1, CallKinds
      <4>2. x.tree \in BOOLEAN
        BY <4>1, RescueFields
      <4>. QED
        BY <1>1, <3>1, <4>1, <4>2 DEF Mode
    <3>. QED
      BY <3>1 DEF CallSet
  <2>. HIDE DEF C
  <2>4. \A x \in ToSet(rs) : x \in C
    BY <2>2, ToSetProperties
  <2>5. (pk \o rs) \in Seq(C) /\ ToSet(pk \o rs) = ToSet(pk) \cup ToSet(rs)
    BY <2>2, ConcatProperties, ToSetConcat
  <2>6. \A x \in ToSet(stack') : ~x.tree
    BY <2>1, <2>3, <2>4, <2>5 DEF Fresh
  <2>. QED
    BY <2>1, <2>5, <2>6, OrderedIfNone
<1>5. PendingInv'
  <2>1. \A s \in ToSet(seeds) : build_depends[s] \subseteq all
    <3>1. ToSet(<<>>) = {}
      BY ToSetProperties
    <3>. QED
      BY <1>1, <3>1 DEF PlaceInv, PendingInv, Coming
  <2>. QED
    BY <1>1, <1>4, <2>1 DEF PendingInv, addedVars, dependVars
<1>. QED
  BY <1>2, <1>3, <1>5 DEF PlaceInv

LEMMA PlaceKept ==
  ASSUME ParseInv, PlantInv, SeedsInv, ArchiveInv, StackInv, ListsInv, TreesInv, PlaceInv,
         [RdependsNext]_rdependsAllVars
  PROVE  PlaceInv'
<1>1. CASE plantSeed \/ addExtras
  BY <1>1, NewSeedPlaces
<1>2. CASE growSeed
  BY <1>2, GrowSeedPlaces
<1>3. CASE CallStep
  BY <1>3, UngrownAfterCall, ContainedAfterCall, PendingAfterCall, ApartAfterCall, ExtraAfterCall
     DEF PlaceInv
<1>4. ASSUME UNCHANGED <<seeds, grown, inherit, structure, addedVars, dependVars, sourceVars>>,
             phase' = phase \/ phase' \notin {"plant", "grow"},
             phase # "grow" \/ phase' # phase
      PROVE  PlaceInv'
  <2>1. ContainedInv' /\ ApartInv' /\ ExtraInv'
    BY <1>4, ListsSame
  <2>2. \A t : Blank(t) => Blank(t)'
    BY <1>4 DEF Blank, addedVars, dependVars, sourceVars
  <2>3. UngrownInv'
    BY <1>4, <2>2 DEF PlaceInv, UngrownInv
  <2>. QED
    BY <1>4, <2>1, <2>3 DEF PlaceInv, PendingInv
<1>5. CASE readLine \/ plantPackage \/ plantHints
  <2>1. /\ UNCHANGED <<phase, seeds, grown, inherit, structure, addedVars, dependVars, sourceVars>>
        /\ Running("text")
    BY <1>5 DEF readLine, plantPackage, plantHints, structureVars, parseVars, plantVars
  <2>2. phase # "grow"
    <3>1. ASSUME phase = "grow" PROVE FALSE
      <4>. DEFINE C == CallSet
      <4>1. stack # <<>> /\ stack \in Seq(C) /\ stack[1].op = "text"
        BY <2>1, <3>1 DEF Running, StackInv, Growing
      <4>2. \A x \in C : x.op # "text"
        BY CallKinds DEF CallSet
      <4>. HIDE DEF C
      <4>. QED
        BY <4>1, <4>2, InnermostCall
    <3>. QED
      BY <3>1
  <2>. QED
    BY <1>4, <2>1, <2>2
<1>6. CASE extraPass \/ extraBinary
  <2>1. UNCHANGED <<phase, seeds, grown, inherit, structure, addedVars, dependVars, sourceVars>>
    BY <1>6 DEF extraPass, extraBinary, structureVars, parseVars, plantVars
  <2>2. phase # "grow"
    <3>1. CASE extraBinary
      BY <3>1, ExtraBinaryIs
    <3>2. CASE extraPass
      <4>1. Running("pass")
        BY <3>2 DEF extraPass
      <4>. QED
        BY <4>1, HeadCall, CallKinds DEF CallSet, Mode
    <3>. QED
      BY <1>6, <3>1, <3>2
  <2>. QED
    BY <1>4, <2>1, <2>2
<1>7. CASE rescueForBuild
  <2>1. /\ UNCHANGED <<seeds, grown, inherit, structure, addedVars, dependVars, sourceVars>>
        /\ phase' = "grown" /\ phase = "grow"
    BY <1>7 DEF rescueForBuild, structureVars, parseVars, plantVars
  <2>. QED
    BY <1>4, <2>1
<1>8. CASE prune
  <2>1. /\ UNCHANGED <<seeds, grown, inherit, structure, addedVars, dependVars, sourceVars>>
        /\ phase = "plant" /\ phase' = "grow" /\ stack' = <<>>
    BY <1>8 DEF prune, structureVars, parseVars
  <2>2. ContainedInv' /\ ApartInv' /\ ExtraInv'
    BY <2>1, ListsSame
  <2>3. \A i \in 1..Len(seeds) : Blank(seeds[i])
    BY <2>1, BlankWhilePlanting
  <2>4. UngrownInv'
    <3>1. \A t : Blank(t) => Blank(t)'
      BY <2>1 DEF Blank, addedVars, dependVars, sourceVars
    <3>. QED
      BY <2>1, <3>1 DEF PlaceInv, UngrownInv
  <2>5. PendingInv'
    <3>1. \A s \in ToSet(seeds) : build_depends'[s] = {}
      <4>1. \A s \in ToSet(seeds) : Blank(s)
        BY <2>3 DEF ToSet
      <4>. QED
        BY <2>1, <4>1 DEF Blank, dependVars
    <3>2. BuildsFirst(stack)'
      <4>1. <<>> \in Seq({}) /\ ToSet(<<>>) = {}
        BY ToSetProperties
      <4>. QED
        BY <2>1, <4>1, OrderedIfNone
    <3>. QED
      BY <2>1, <3>1, <3>2 DEF PendingInv
  <2>. QED
    BY <2>2, <2>4, <2>5 DEF PlaceInv
<1>9. CASE Quiet
  <2>1. UNCHANGED <<seeds, grown, options, addedVars, dependVars, sourceVars, stack>>
    BY <1>9 DEF Quiet
  <2>2. CASE phase \in Before
    <3>1. seeds' = <<>> /\ ToSet(seeds') = {} /\ phase' # "grow"
      <4>1. ToSet(<<>>) = {}
        BY ToSetProperties
      <4>. QED
        BY <1>9, <2>1, <2>2, <4>1 DEF Quiet, SeedsInv, Before, Told
    <3>2. ContainedInv' /\ ApartInv' /\ ExtraInv'
      BY <3>1, BlankIsFine
    <3>3. UngrownInv'
      <4>1. Len(<<>>) = 0 /\ grown = 0
        BY <2>2 DEF SeedsInv
      <4>. QED
        BY <2>1, <3>1, <4>1 DEF UngrownInv
    <3>. QED
      BY <3>1, <3>2, <3>3 DEF PlaceInv, PendingInv
  <2>3. CASE phase \notin Before
    <3>1. /\ UNCHANGED <<names, inherit, structure, pruned>>
          /\ phase' = phase \/ phase' \notin {"plant", "grow"}
      BY <1>9, <2>3 DEF Quiet, Told
    <3>2. CASE phase # "grow" \/ phase' # phase
      BY <1>4, <2>1, <3>1, <3>2
    <3>3. CASE phase = "grow" /\ phase' = phase
      <4>1. ContainedInv' /\ ApartInv' /\ ExtraInv'
        BY <2>1, <3>1, ListsSame
      <4>2. \A t : Blank(t) => Blank(t)'
        BY <2>1 DEF Blank, addedVars, dependVars, sourceVars
      <4>3. UngrownInv'
        BY <2>1, <3>3, <4>2 DEF PlaceInv, UngrownInv
      <4>4. \A p : Coming(p) => Coming(p)'
        BY <2>1, <3>1, AcceptedStays DEF Coming
      <4>5. PendingInv'
        BY <2>1, <3>3, <4>4 DEF PlaceInv, PendingInv, BuildsFirst, addedVars, dependVars
      <4>. QED
        BY <4>1, <4>3, <4>5 DEF PlaceInv
    <3>. QED
      BY <3>2, <3>3
  <2>. QED
    BY <2>2, <2>3
<1>. QED
  BY <1>1, <1>2, <1>3, <1>5, <1>6, <1>7, <1>8, <1>9, Steps

LEMMA PlaceAlways == RdependsSpec => []PlaceInv
<1>1. RdependsInit => PlaceInv
  <2>. SUFFICES ASSUME Init PROVE PlaceInv
    BY DEF RdependsInit
  <2>1. seeds = <<>> /\ phase \in {"parse", "archive"} /\ ToSet(<<>>) = {}
    BY ToSetProperties DEF Init
  <2>. QED
    BY <2>1 DEF PlaceInv, UngrownInv, ContainedInv, PendingInv, ApartInv, ExtraInv
<1>2. /\ ParseInv /\ PlantInv /\ SeedsInv /\ ArchiveInv /\ StackInv /\ ListsInv /\ TreesInv
      /\ PlaceInv /\ [RdependsNext]_rdependsAllVars
      => PlaceInv'
  BY PlaceKept
<1>. QED
  BY <1>1, <1>2, ParseAlways, PlantAlways, SeedsAlways, ArchiveAlways, StackAlways, TreesAlways,
     PTL DEF RdependsSpec

(* Each package and each source is in the one list of highest priority     *)
(* that it belongs in, what is needed at run time is not a build           *)
(* dependency as well, and extra has only what no other seed has taken     *)
(* (README:59-61, 108-110), whatever is seeded, promoted, refused and      *)
(* rescued in between.                                                     *)
THEOREM InnermostListed == RdependsSpec => []InnermostList
<1>1. PlaceInv => InnermostList
  BY DEF PlaceInv, ApartInv, ExtraInv, Apart, OnlyBuilds, InnermostList, InnermostOnly,
         BuildDependsAreOnlyThat, ExtraIsLowest
<1>. QED
  BY <1>1, PlaceAlways, PTL
-----------------------------------------------------------------------------
(* What a list is closed under: what a seed has, or is going to have from  *)
(* the calls that are still to come. To build with (b), it counts whether  *)
(* it is needed at run time or not.                                        *)
Joining(b, s, p) ==
  \E x \in ToSet(stack) :
    x.op = "package" /\ x.seed = s /\ x.pkg = p /\ (x.tree => b) /\ Accepted(x)
Has(b, s, p) == \E t \in Inner(s) : p \in (IF b THEN build ELSE not_build)[t]
Comes(b, s, p) == Has(b, s, p) \/ Joining(b, s, p)

Query(b, s, p) == [seed |-> s, pkg |-> p, bd |-> b, tree |-> b]
Hopeless(c, cl) == \A dep \in ToSet(cl) : Acceptable(c, dep) = {}
Settled(b, s, p, cl) ==
  \/ \E dep \in ToSet(cl) : \E q \in ToSet(VirtualFirst(Query(b, s, p), dep)) : Comes(b, s, q)
  \/ Hopeless(Query(b, s, p), cl)
Asks(x, b, s, p) == x.op = "tree" /\ x.seed = s /\ x.pkg = p /\ x.bd = b /\ x.tree = b
Asked(b, s, p, cl) == \E x \in ToSet(stack) : Asks(x, b, s, p) /\ cl \in ToSet(x.clauses)
Met(b, s, p, cl) == Settled(b, s, p, cl) \/ Asked(b, s, p, cl)

(* A tree has refused the alternatives that it has gone through.           *)
Refused(x) ==
  /\ x.next <= 2 * Alternatives(x)
  /\ \A j \in 1..Alternatives(x) :
       x.next > Alternatives(x) + j => Acceptable(x, x.clauses[1][j]) = {}

HasGrown(s) == s = Extra \/ \E i \in 1..grown : seeds[i] = s
SeededInv ==
  \A s \in ToSet(seeds) : HasGrown(s) =>
    \A q \in Seeded(s) : s \in pruned[q] \/ Comes(s = Extra, s, q)
DependsInv ==
  \A s \in ToSet(seeds) \ {Extra} : \A p \in not_build[s] :
    \A cl \in ToSet(ClausesOf(s, p)) : Met(FALSE, s, p, cl)
Built(s, p, src) ==
  /\ Has(TRUE, s, p) /\ packages[p].source = src
  /\ \A cl \in ToSet(sources[src].builddeps) : Met(TRUE, s, p, cl)
BuildInv ==
  \A s \in ToSet(seeds) : \A src \in build_srcs[s] :
    \E p \in DOMAIN packages : Built(s, p, src)
CallsInv ==
  \A x \in ToSet(stack) : /\ x.op = "source" => Has(TRUE, x.seed, x.pkg)
                          /\ x.op = "tree" => Refused(x)

Grown == Growing \cup Late
ClosedInv ==
  /\ phase \in Before \cup {"plant"} => all_srcs = {}
  /\ Extra \in ToSet(seeds) => options[Extra].blacklist = {}
  /\ phase \in Grown => SeededInv /\ DependsInv /\ BuildInv /\ CallsInv

(* What a step leaves to a seed: how its dependencies are judged, and what *)
(* it has already.                                                         *)
Firm(s) ==
  /\ UNCHANGED <<packages, provides, sources, pruned, structure>>
  /\ options'[s] = options[s] /\ Inner(s)' = Inner(s)
  /\ \A tree \in BOOLEAN : \A p : Admits(s, tree, p)' <=> Admits(s, tree, p)
Kept(s) ==
  /\ Firm(s)
  /\ \A t \in Inner(s) : build[t] \subseteq build'[t] /\ not_build[t] \subseteq not_build'[t]

LEMMA AnswersSame ==
  ASSUME NEW c, Firm(c.seed), c.tree \in BOOLEAN, NEW dep
  PROVE  /\ VirtualFirst(c, dep)' = VirtualFirst(c, dep)
         /\ Acceptable(c, dep)' = Acceptable(c, dep)
<1>1. \A q : allowedDependency(c, q)' <=> allowedDependency(c, q)
  BY DEF allowedDependency, Firm
<1>2. /\ (AsReal(c, dep)' <=> AsReal(c, dep)) /\ (AsVirtual(c, dep)' <=> AsVirtual(c, dep))
      /\ Providers(c, dep)' = Providers(c, dep)
  BY <1>1 DEF AsReal, AsVirtual, Providers, checkVersionedDependency, Firm
<1>3. /\ VirtualFirst(c, dep)' = VirtualFirst(c, dep)
      /\ RealFirst(c, dep)' = RealFirst(c, dep)
  BY <1>2 DEF VirtualFirst, RealFirst
<1>4. Chosen(c, dep)' = Chosen(c, dep)
  <2>1. options'[c.seed] = options[c.seed] /\ packages' = packages
    BY DEF Firm
  <2>. QED
    BY <1>2, <1>3, <2>1 DEF Chosen
<1>5. \A q : Admits(c.seed, c.tree, q)' <=> Admits(c.seed, c.tree, q)
  BY DEF Firm
<1>. QED
  BY <1>3, <1>4, <1>5 DEF Acceptable

LEMMA QuerySame ==
  ASSUME NEW b \in BOOLEAN, NEW s, Firm(s), NEW p
  PROVE  /\ \A dep : VirtualFirst(Query(b, s, p), dep)' = VirtualFirst(Query(b, s, p), dep)
         /\ \A cl : Hopeless(Query(b, s, p), cl) => Hopeless(Query(b, s, p), cl)'
         /\ ClausesOf(s, p)' = ClausesOf(s, p)
<1>1. PICK c : c = Query(b, s, p)
  OBVIOUS
<1>2. c.seed = s /\ c.tree = b
  BY <1>1 DEF Query
<1>3. \A dep : /\ VirtualFirst(c, dep)' = VirtualFirst(c, dep)
               /\ Acceptable(c, dep)' = Acceptable(c, dep)
  BY <1>2, AnswersSame
<1>4. \A cl : Hopeless(c, cl) => Hopeless(c, cl)'
  BY <1>3 DEF Hopeless
<1>5. Query(b, s, p)' = Query(b, s, p)
  BY DEF Query
<1>6. ClausesOf(s, p)' = ClausesOf(s, p)
  BY DEF ClausesOf, followRecommends, Firm
<1>. QED
  BY <1>1, <1>3, <1>4, <1>5, <1>6

LEMMA HasStays ==
  ASSUME NEW b \in BOOLEAN, NEW s, Kept(s), NEW p, Has(b, s, p)
  PROVE  Has(b, s, p)'
BY DEF Has, Kept, Firm

(* What the calls of one step have been for is done, or still to come.     *)
PackagesRun(b, s) ==
  \A x \in ToSet(stack) : x.op = "package" /\ x.seed = s /\ (x.tree => b) /\ Accepted(x) =>
    x \in ToSet(stack') \/ Has(b, s, x.pkg)'
TreesRun(b, s, p) ==
  \A x \in ToSet(stack) : Asks(x, b, s, p) =>
    x \in ToSet(stack') \/ \A cl \in ToSet(x.clauses) : Met(b, s, p, cl)'

LEMMA AcceptedFirm ==
  ASSUME NEW s, Firm(s), NEW x, x.seed = s, x.tree \in BOOLEAN
  PROVE  Accepted(x)' <=> Accepted(x)
BY DEF Firm, Accepted

LEMMA ComesAfter ==
  ASSUME NEW b \in BOOLEAN, NEW s, Kept(s), PackagesRun(b, s), NEW p, Comes(b, s, p),
         \A x \in ToSet(stack) : x.op = "package" => x.tree \in BOOLEAN
  PROVE  Comes(b, s, p)'
<1>1. CASE Has(b, s, p)
  BY <1>1, HasStays DEF Comes
<1>2. CASE Joining(b, s, p)
  <2>1. PICK x \in ToSet(stack) :
          x.op = "package" /\ x.seed = s /\ x.pkg = p /\ (x.tree => b) /\ Accepted(x)
    BY <1>2 DEF Joining
  <2>2. x \in ToSet(stack') \/ Has(b, s, p)'
    BY <2>1 DEF PackagesRun
  <2>3. Accepted(x)'
    BY <2>1, AcceptedFirm DEF Kept
  <2>. QED
    BY <2>1, <2>2, <2>3 DEF Comes, Joining
<1>. QED
  BY <1>1, <1>2 DEF Comes

LEMMA MetAfter ==
  ASSUME NEW b \in BOOLEAN, NEW s, Kept(s), PackagesRun(b, s), NEW p, TreesRun(b, s, p),
         NEW cl, Met(b, s, p, cl),
         \A x \in ToSet(stack) : x.op = "package" => x.tree \in BOOLEAN
  PROVE  Met(b, s, p, cl)'
<1>1. CASE Settled(b, s, p, cl)
  <2>1. \A q : Comes(b, s, q) => Comes(b, s, q)'
    BY ComesAfter
  <2>2. /\ \A dep : VirtualFirst(Query(b, s, p), dep)' = VirtualFirst(Query(b, s, p), dep)
        /\ Hopeless(Query(b, s, p), cl) => Hopeless(Query(b, s, p), cl)'
    BY QuerySame DEF Kept
  <2>. QED
    BY <1>1, <2>1, <2>2 DEF Met, Settled
<1>2. CASE Asked(b, s, p, cl)
  <2>1. PICK x \in ToSet(stack) : Asks(x, b, s, p) /\ cl \in ToSet(x.clauses)
    BY <1>2 DEF Asked
  <2>2. x \in ToSet(stack') \/ Met(b, s, p, cl)'
    BY <2>1 DEF TreesRun
  <2>. QED
    BY <2>1, <2>2 DEF Met, Asked, Asks
<1>. QED
  BY <1>1, <1>2 DEF Met

-----------------------------------------------------------------------------
(* A step of a tree: it goes on to the next alternative, having nothing    *)
(* that is acceptable to add, or has found its clause satisfied, or adds   *)
(* what satisfies it.                                                      *)
Passed(c) ==
  \A j \in 1..Alternatives(c) :
    c.next = Alternatives(c) + j => Acceptable(c, c.clauses[1][j]) = {}
AddsFor(c, dep) ==
  \E pkgs \in Seq(DOMAIN packages) :
    /\ ToSet(pkgs) \subseteq ToSet(VirtualFirst(c, dep))
    /\ White(c, pkgs) # {} /\ Adding(c, White(c, pkgs), Current, DOMAIN packages)
    /\ DependsGrow(c, White(c, pkgs))
TreeTurns(c) ==
  \/ Passed(c) /\ stack' = NextAlternative(c) \o Tail(stack) /\ UNCHANGED dependVars
  \/ /\ \E dep \in ToSet(c.clauses[1]) : alreadySatisfied(c, dep)
     /\ stack' = NextClause(c) \o Tail(stack) /\ UNCHANGED dependVars
  \/ \E dep \in ToSet(c.clauses[1]) : AddsFor(c, dep)

LEMMA AddsOrPasses ==
  ASSUME NEW c \in TreeCalls(Current, DOMAIN packages), NEW dep \in ToSet(c.clauses[1]),
         NEW pkgs \in Seq(DOMAIN packages), ToSet(pkgs) \subseteq ToSet(VirtualFirst(c, dep)),
         addDependency(c, pkgs), White(c, pkgs) = {} => Passed(c)
  PROVE  TreeTurns(c)
<1>1. \/ /\ White(c, pkgs) = {} /\ stack' = NextAlternative(c) \o Tail(stack)
         /\ UNCHANGED dependVars
      \/ /\ White(c, pkgs) # {} /\ Adding(c, White(c, pkgs), Current, DOMAIN packages)
         /\ DependsGrow(c, White(c, pkgs))
  BY AddDependencyIs
<1>. QED
  BY <1>1 DEF TreeTurns, AddsFor

LEMMA TreeTurn ==
  ASSUME ArchiveInv, StackInv, NEW c, c = call, Refused(c),
         checkSatisfied \/ promoteDependency \/ newDependency
  PROVE  c \in TreeCalls(Current, DOMAIN packages) /\ c.op = "tree" /\ TreeTurns(c)
<1>. DEFINE P == DOMAIN packages
            n == Alternatives(c)
<1>1. Running("tree")
  BY DEF checkSatisfied, promoteDependency, newDependency
<1>2. c \in CallSet /\ c.op = "tree"
  BY <1>1, HeadCall
<1>3. c \in TreeCalls(Current, P)
  BY <1>2, CallKinds DEF CallSet
<1>4. /\ c.next \in Nat /\ n \in Nat /\ c.next <= 2 * n
      /\ \A i \in 1..n : c.clauses[1][i] \in ToSet(c.clauses[1])
  <2>1. c.next \in Nat /\ n \in Nat /\ DOMAIN c.clauses[1] = 1..n
    BY <1>3, TreeFields, ClausesParts DEF Alternatives
  <2>2. c.next <= 2 * n
    BY DEF Refused
  <2>. QED
    BY <2>1, <2>2 DEF ToSet
<1>5. CASE checkSatisfied
  <2>1. c.next = 0
    BY <1>5 DEF checkSatisfied
  <2>2. Passed(c)
    <3>1. \A j \in 1..n : c.next # n + j
      BY <1>4, <2>1
    <3>. QED
      BY <3>1 DEF Passed
  <2>3. CASE \E i \in 1..n : alreadySatisfied(c, c.clauses[1][i])
    <3>1. stack' = NextClause(c) \o Tail(stack) /\ UNCHANGED dependVars
      BY <1>5, <2>3 DEF checkSatisfied, Calling
    <3>. QED
      BY <1>2, <1>3, <1>4, <2>3, <3>1 DEF TreeTurns
  <2>4. CASE ~\E i \in 1..n : alreadySatisfied(c, c.clauses[1][i])
    <3>1. stack' = NextAlternative(c) \o Tail(stack) /\ UNCHANGED dependVars
      BY <1>5, <2>4 DEF checkSatisfied, Calling
    <3>. QED
      BY <1>2, <1>3, <2>2, <3>1 DEF TreeTurns
  <2>. QED
    BY <1>2, <1>3, <2>3, <2>4
<1>6. CASE promoteDependency
  <2>1. c.next \in 1..n
    BY <1>6 DEF promoteDependency
  <2>2. Passed(c)
    <3>1. \A j \in 1..n : c.next # n + j
      BY <1>4, <2>1
    <3>. QED
      BY <3>1 DEF Passed
  <2>3. CASE stack' = NextAlternative(c) \o Tail(stack) /\ UNCHANGED dependVars
    BY <1>2, <1>3, <2>2, <2>3 DEF TreeTurns
  <2>4. CASE ~(stack' = NextAlternative(c) \o Tail(stack) /\ UNCHANGED dependVars)
    <3>. DEFINE dep == c.clauses[1][c.next]
    <3>1. PICK p \in ToSet(RealFirst(c, dep)) : addDependency(c, <<p>>)
      BY <1>6, <2>4, PromoteIs
    <3>2. p \in ToSet(VirtualFirst(c, dep)) /\ p \in P
      BY <3>1, SatisfyingTyped, ToSetProperties
    <3>3. PICK one \in Seq(P) : one = <<p>> /\ ToSet(one) = {p}
      BY <3>2, Single
    <3>4. dep \in ToSet(c.clauses[1])
      BY <1>4, <2>1
    <3>. HIDE DEF dep
    <3>. QED
      BY <1>2, <1>3, <2>2, <3>1, <3>2, <3>3, <3>4, AddsOrPasses
  <2>. QED
    BY <2>3, <2>4
<1>7. CASE newDependency
  <2>. DEFINE i == c.next - n
              dep == c.clauses[1][i]
              pkgs == Chosen(c, dep)
  <2>1. c.next > n /\ addDependency(c, pkgs)
    BY <1>7 DEF newDependency
  <2>2. i \in 1..n /\ c.next = n + i
    BY <1>4, <2>1
  <2>3. dep \in ToSet(c.clauses[1])
    BY <1>4, <2>2
  <2>4. pkgs \in Seq(P) /\ ToSet(pkgs) \subseteq ToSet(VirtualFirst(c, dep))
    BY SatisfyingTyped
  <2>5. ASSUME White(c, pkgs) = {} PROVE Passed(c)
    <3>1. Acceptable(c, dep) = {}
      BY <2>5 DEF White, Acceptable
    <3>2. ASSUME NEW j \in 1..n, c.next = n + j PROVE j = i
      BY <1>4, <3>2
    <3>. QED
      BY <3>1, <3>2 DEF Passed
  <2>. HIDE DEF pkgs, dep, i
  <2>. QED
    BY <1>2, <1>3, <2>1, <2>3, <2>4, <2>5, AddsOrPasses
<1>. QED
  BY <1>5, <1>6, <1>7

SameAnswers(d, c) ==
  \A dep : VirtualFirst(d, dep) = VirtualFirst(c, dep) /\ Acceptable(d, dep) = Acceptable(c, dep)

LEMMA SameAnswersAre ==
  ASSUME NEW d, NEW c, d.seed = c.seed, d.pkg = c.pkg, d.bd = c.bd, d.tree = c.tree
  PROVE  SameAnswers(d, c)
<1>1. \A p : allowedDependency(d, p) <=> allowedDependency(c, p)
  BY DEF allowedDependency
<1>2. ASSUME NEW dep
      PROVE  /\ AsReal(d, dep) <=> AsReal(c, dep)
             /\ AsVirtual(d, dep) <=> AsVirtual(c, dep)
             /\ Providers(d, dep) = Providers(c, dep)
  BY <1>1 DEF AsReal, AsVirtual, Providers
<1>3. \A dep : /\ VirtualFirst(d, dep) = VirtualFirst(c, dep)
               /\ RealFirst(d, dep) = RealFirst(c, dep)
  BY <1>2 DEF VirtualFirst, RealFirst
<1>4. \A dep : Chosen(d, dep) = Chosen(c, dep)
  BY <1>2, <1>3 DEF Chosen
<1>5. \A dep : Acceptable(d, dep) = Acceptable(c, dep)
  BY <1>4 DEF Acceptable
<1>. QED
  BY <1>3, <1>5 DEF SameAnswers

LEMMA QueryIs ==
  ASSUME NEW b, NEW c, Asks(c, b, c.seed, c.pkg)
  PROVE  SameAnswers(Query(b, c.seed, c.pkg), c)
<1>1. PICK d : d = Query(b, c.seed, c.pkg)
  OBVIOUS
<1>2. d.seed = c.seed /\ d.pkg = c.pkg /\ d.bd = c.bd /\ d.tree = c.tree
  BY <1>1 DEF Query, Asks
<1>. QED
  BY <1>1, <1>2, SameAnswersAre

LEMMA CallTrees ==
  ASSUME StackInv, phase \in Growing, NEW x \in ToSet(stack)
  PROVE  /\ x \in CallSet /\ (x.op \in Plain => x.seed = Current /\ x.tree \in BOOLEAN)
         /\ x.op = "tree" => x \in TreeCalls(Current, DOMAIN packages)
         /\ Mode(x, phase)
<1>. DEFINE C == CallSet
<1>1. stack \in Seq(C)
  BY DEF StackInv
<1>2. x \in C
  <2>. HIDE DEF C
  <2>. QED
    BY <1>1, ToSetProperties
<1>3. /\ x.op = "tree" => x \in TreeCalls(Current, DOMAIN packages)
      /\ Mode(x, phase)
  BY <1>2, CallKinds DEF CallSet
<1>4. ASSUME x.op \in Plain PROVE x.seed = Current /\ x.tree \in BOOLEAN
  <2>1. \/ x \in PackageCalls(Current, DOMAIN packages)
        \/ x \in TreeCalls(Current, DOMAIN packages)
        \/ x \in RescueCalls(Current, DOMAIN packages, DOMAIN sources, ToSet(seeds) \cup {Extra})
    BY <1>2, <1>4, CallKinds DEF CallSet, Plain
  <2>. QED
    BY <2>1, PackageFields, TreeFields, RescueFields
<1>. QED
  BY <1>2, <1>3, <1>4

LEMMA InItsPlace ==
  ASSUME StackInv, phase \in Growing, stack # <<>>, NEW xs \in Seq(CallSet),
         stack' = xs \o Tail(stack)
  PROVE  /\ ToSet(xs) \subseteq ToSet(stack') /\ ToSet(stack') \subseteq ToSet(xs) \cup ToSet(stack)
         /\ ToSet(stack) \subseteq ToSet(stack') \cup {call} /\ call \in ToSet(stack)
<1>. DEFINE C == CallSet
            r == stack'
<1>1. stack \in Seq(C) /\ xs \in Seq(C) /\ r = xs \o Tail(stack)
  BY DEF StackInv
<1>. HIDE DEF C, r
<1>2. /\ ToSet(xs) \subseteq ToSet(r) /\ ToSet(r) \subseteq ToSet(xs) \cup ToSet(stack)
      /\ ToSet(stack) \subseteq ToSet(r) \cup {stack[1]}
  BY <1>1, PushedSets
<1>3. stack[1] = call
  BY <1>1, InnermostCall DEF call
<1>4. stack[1] \in ToSet(stack)
  BY <1>1, EmptySeq DEF ToSet
<1>. QED
  BY <1>2, <1>3, <1>4 DEF r

(* The clauses of a tree that goes on are still to be asked about.         *)
LEMMA TreeEnds ==
  ASSUME NEW b, NEW P, NEW c, Asks(c, b, c.seed, c.pkg), NEW xs, ToSet(xs) \subseteq ToSet(stack'),
         \/ OneFurther(xs, c, Current, P)
         \/ Rest(xs, c, Current, P) /\ Settled(b, c.seed, c.pkg, c.clauses[1])',
         NEW cl \in ToSet(c.clauses)
  PROVE  Met(b, c.seed, c.pkg, cl)'
<1>1. CASE OneFurther(xs, c, Current, P)
  <2>1. PICK x \in TreeCalls(Current, P) : xs = <<x>> /\ SameTree(x, c) /\ x.clauses = c.clauses
    BY <1>1 DEF OneFurther
  <2>2. x \in ToSet(stack')
    BY <2>1, Single
  <2>3. Asks(x, b, c.seed, c.pkg) /\ cl \in ToSet(x.clauses)
    BY <2>1 DEF Asks, SameTree
  <2>. QED
    BY <2>2, <2>3 DEF Met, Asked, Asks
<1>2. CASE Rest(xs, c, Current, P) /\ Settled(b, c.seed, c.pkg, c.clauses[1])'
  <2>1. CASE cl = c.clauses[1]
    BY <1>2, <2>1 DEF Met
  <2>2. CASE cl # c.clauses[1]
    <3>1. PICK i \in 1..Len(xs) : cl \in ToSet(xs[i].clauses) /\ SameTree(xs[i], c)
      BY <1>2, <2>2 DEF Rest
    <3>2. xs[i] \in ToSet(xs)
      BY <1>2 DEF Rest, ToSet
    <3>3. Asks(xs[i], b, c.seed, c.pkg)
      BY <3>1 DEF Asks, SameTree
    <3>. QED
      BY <3>1, <3>2, <3>3 DEF Met, Asked, Asks
  <2>. QED
    BY <2>1, <2>2
<1>. QED
  BY <1>1, <1>2

(* After the last alternative none is acceptable.                          *)
LEMMA LastRefused ==
  ASSUME NEW s, NEW P, NEW c \in TreeCalls(s, P), Refused(c), Passed(c),
         c.next = 2 * Alternatives(c)
  PROVE  Hopeless(c, c.clauses[1])
<1>. DEFINE n == Alternatives(c)
<1>1. n \in Nat /\ c.next = 2 * n /\ DOMAIN c.clauses[1] = 1..n
  BY TreeFields, ClausesParts DEF Alternatives
<1>2. ASSUME NEW j \in 1..n PROVE Acceptable(c, c.clauses[1][j]) = {}
  <2>1. CASE j < n
    <3>1. c.next > n + j
      BY <1>1, <2>1
    <3>. QED
      BY <3>1 DEF Refused
  <2>2. CASE j = n
    <3>1. c.next = n + j
      BY <1>1, <2>2
    <3>. QED
      BY <3>1 DEF Passed
  <2>. QED
    BY <1>1, <2>1, <2>2
<1>. HIDE DEF n
<1>. QED
  BY <1>1, <1>2 DEF Hopeless, ToSet

LEMMA TreeMeets ==
  ASSUME ArchiveInv, StackInv, NEW c, c = call, Refused(c),
         checkSatisfied \/ promoteDependency \/ newDependency,
         NEW b \in BOOLEAN, Asks(c, b, c.seed, c.pkg), c.second = b,
         Kept(c.seed), PackagesRun(b, c.seed),
         \A q \in Seeded(c.seed) : c.seed \in pruned[q] \/ Comes(b, c.seed, q),
         NEW cl \in ToSet(c.clauses)
  PROVE  Met(b, c.seed, c.pkg, cl)'
<1>. DEFINE P == DOMAIN packages
            s == c.seed
            one == c.clauses[1]
<1>1. c \in TreeCalls(Current, P) /\ c.op = "tree" /\ TreeTurns(c)
  BY TreeTurn
<1>2. phase \in Growing /\ stack # <<>> /\ c \in CallSet
  <2>1. Running("tree")
    BY DEF checkSatisfied, promoteDependency, newDependency
  <2>. QED
    BY <2>1, HeadCall
<1>3. c.seed = Current
  BY <1>1, TreeFields
<1>4. /\ \A dep : VirtualFirst(Query(b, s, c.pkg), dep)' = VirtualFirst(c, dep)
      /\ \A dep : Query(b, s, c.pkg)' = Query(b, s, c.pkg)
      /\ Hopeless(c, one) => Hopeless(Query(b, s, c.pkg), one)'
  <2>1. /\ \A dep : VirtualFirst(Query(b, s, c.pkg), dep) = VirtualFirst(c, dep)
        /\ \A dep : Acceptable(Query(b, s, c.pkg), dep) = Acceptable(c, dep)
    BY QueryIs DEF SameAnswers
  <2>2. /\ \A dep : VirtualFirst(Query(b, s, c.pkg), dep)' = VirtualFirst(Query(b, s, c.pkg), dep)
        /\ Hopeless(Query(b, s, c.pkg), one) => Hopeless(Query(b, s, c.pkg), one)'
    BY QuerySame DEF Kept
  <2>3. Hopeless(c, one) => Hopeless(Query(b, s, c.pkg), one)
    BY <2>1 DEF Hopeless
  <2>. QED
    BY <2>1, <2>2, <2>3 DEF Query
<1>5. CASE Passed(c) /\ stack' = NextAlternative(c) \o Tail(stack)
  <2>. DEFINE xs == NextAlternative(c)
  <2>1. \/ c.next = 2 * Alternatives(c) /\ Rest(xs, c, Current, P)
        \/ OneFurther(xs, c, Current, P)
    BY <1>1, NextAlternativeIs
  <2>2. stack' = xs \o Tail(stack)
    BY <1>5
  <2>. HIDE DEF xs
  <2>3. xs \in Seq(CallSet)
    BY <1>1, <1>2, <2>1, TreeCallsFit
  <2>4. ToSet(xs) \subseteq ToSet(stack')
    BY <1>2, <2>2, <2>3, InItsPlace
  <2>5. ASSUME c.next = 2 * Alternatives(c) PROVE Settled(b, s, c.pkg, one)'
    <3>1. Hopeless(c, one)
      BY <1>1, <1>5, <2>5, LastRefused
    <3>. QED
      BY <1>4, <3>1 DEF Settled
  <2>. QED
    BY <2>1, <2>4, <2>5, TreeEnds
<1>6. CASE \E dep \in ToSet(one) : alreadySatisfied(c, dep) /\ stack' = NextClause(c) \o Tail(stack)
  <2>. DEFINE xs == NextClause(c)
  <2>1. Rest(xs, c, Current, P)
    BY <1>1, NextClauseIs
  <2>2. stack' = xs \o Tail(stack)
    BY <1>6
  <2>3. PICK dep \in ToSet(one) : alreadySatisfied(c, dep)
    BY <1>6
  <2>. HIDE DEF xs
  <2>4. xs \in Seq(CallSet)
    BY <1>1, <1>2, <2>1, TreeCallsFit
  <2>5. ToSet(xs) \subseteq ToSet(stack')
    BY <1>2, <2>2, <2>4, InItsPlace
  <2>6. PICK q \in ToSet(VirtualFirst(c, dep)) :
          \/ \E t \in Inner(s) : q \in IF c.second THEN build[t] ELSE not_build[t]
          \/ q \in Seeded(s)
    BY <2>3 DEF alreadySatisfied
  <2>7. s \notin pruned[q]
    BY <2>6, SatisfyingTyped DEF allowedDependency
  <2>8. Comes(b, s, q)
    BY <2>6, <2>7 DEF Comes, Has
  <2>9. Comes(b, s, q)'
    <3>1. \A x \in ToSet(stack) : x.op = "package" => x.tree \in BOOLEAN
      BY <1>2, CallTrees DEF Plain
    <3>. QED
      BY <2>8, <3>1, ComesAfter
  <2>10. Settled(b, s, c.pkg, one)'
    BY <1>4, <2>3, <2>6, <2>9 DEF Settled
  <2>. QED
    BY <2>1, <2>5, <2>10, TreeEnds
<1>7. CASE \E dep \in ToSet(one) : AddsFor(c, dep)
  <2>1. PICK dep \in ToSet(one) : AddsFor(c, dep)
    BY <1>7
  <2>2. PICK pkgs \in Seq(P) :
          /\ ToSet(pkgs) \subseteq ToSet(VirtualFirst(c, dep))
          /\ White(c, pkgs) # {} /\ Adding(c, White(c, pkgs), Current, P)
    BY <2>1 DEF AddsFor
  <2>3. PICK pk, rest : /\ stack' = (pk \o rest) \o Tail(stack)
                        /\ PackagesOf(pk, c, White(c, pkgs), Current, P) /\ Rest(rest, c, Current, P)
    BY <2>2 DEF Adding
  <2>4. pk \in Seq(CallSet) /\ rest \in Seq(CallSet)
    BY <1>1, <1>2, <2>3, TreeCallsFit, PackageCallsFit
  <2>5. /\ pk \o rest \in Seq(CallSet) /\ ToSet(pk) \subseteq ToSet(pk \o rest)
        /\ ToSet(rest) \subseteq ToSet(pk \o rest)
    <3>. DEFINE C == CallSet
    <3>1. pk \in Seq(C) /\ rest \in Seq(C)
      BY <2>4
    <3>. HIDE DEF C
    <3>2. pk \o rest \in Seq(C) /\ ToSet(pk \o rest) = ToSet(pk) \cup ToSet(rest)
      BY <3>1, ConcatProperties, ToSetConcat
    <3>. QED
      BY <3>2 DEF C
  <2>6. ToSet(pk \o rest) \subseteq ToSet(stack')
    BY <1>2, <2>3, <2>5, InItsPlace
  <2>7. PICK q \in White(c, pkgs) : TRUE
    BY <2>2
  <2>8. q \in ToSet(VirtualFirst(c, dep)) /\ Admits(s, c.tree, q) /\ s \notin pruned[q]
    BY <2>2, <2>7, SatisfyingTyped DEF White, allowedDependency
  <2>9. PICK x \in ToSet(pk) : x.pkg = q
    BY <2>3, <2>7 DEF PackagesOf
  <2>10. x.op = "package" /\ x.seed = s /\ x.tree = b /\ c.tree = b /\ x \in ToSet(stack')
    BY <1>3, <2>3, <2>5, <2>6, <2>9 DEF PackagesOf, Asks
  <2>11. Accepted(x)
    BY <2>8, <2>9, <2>10 DEF Accepted
  <2>12. Accepted(x)'
    BY <2>10, <2>11, AcceptedFirm DEF Kept
  <2>13. Comes(b, s, q)'
    BY <2>9, <2>10, <2>12 DEF Comes, Joining
  <2>14. Settled(b, s, c.pkg, one)'
    BY <1>4, <2>8, <2>13 DEF Settled
  <2>15. ToSet(rest) \subseteq ToSet(stack')
    BY <2>5, <2>6
  <2>. QED
    BY <2>3, <2>14, <2>15, TreeEnds
<1>. QED
  BY <1>1, <1>5, <1>6, <1>7 DEF TreeTurns

(* What a tree has refused, it and the calls it makes go on refusing.      *)
LEMMA RefusedFirm ==
  ASSUME NEW x, Firm(x.seed), x.tree \in BOOLEAN, Refused(x)
  PROVE  Refused(x)'
<1>1. \A dep : Acceptable(x, dep)' = Acceptable(x, dep)
  BY AnswersSame
<1>2. Alternatives(x)' = Alternatives(x)
  BY DEF Alternatives
<1>. QED
  BY <1>1, <1>2 DEF Refused

LEMMA UnaskedRefused ==
  ASSUME NEW s, NEW P, NEW x \in TreeCalls(s, P), x.next = 0
  PROVE  Refused(x)
<1>1. Alternatives(x) \in Nat
  BY TreeFields, ClausesParts DEF Alternatives
<1>. QED
  BY <1>1 DEF Refused

LEMMA FurtherRefused ==
  ASSUME NEW s, NEW P, NEW c \in TreeCalls(s, P), Refused(c), Passed(c), NEW xs,
         OneFurther(xs, c, s, P), NEW y \in ToSet(xs)
  PROVE  Refused(y)
<1>1. PICK x \in TreeCalls(s, P) :
        /\ xs = <<x>> /\ SameTree(x, c) /\ x.clauses = c.clauses /\ x.next = c.next + 1
        /\ c.next # 2 * Alternatives(c)
  BY DEF OneFurther
<1>2. y = x
  BY <1>1, Single
<1>3. /\ Alternatives(x) = Alternatives(c) /\ Alternatives(c) \in Nat /\ c.next \in Nat
      /\ c.next <= 2 * Alternatives(c)
  BY <1>1, TreeFields, ClausesParts DEF Alternatives, Refused
<1>4. \A dep : Acceptable(x, dep) = Acceptable(c, dep)
  <2>1. x.seed = c.seed /\ x.pkg = c.pkg /\ x.bd = c.bd /\ x.tree = c.tree
    BY <1>1 DEF SameTree
  <2>. QED
    BY <2>1, SameAnswersAre DEF SameAnswers
<1>5. ASSUME NEW j \in 1..Alternatives(c), x.next > Alternatives(c) + j
      PROVE  Acceptable(c, c.clauses[1][j]) = {}
  <2>1. c.next > Alternatives(c) + j \/ c.next = Alternatives(c) + j
    BY <1>1, <1>3, <1>5
  <2>. QED
    BY <2>1 DEF Refused, Passed
<1>6. x.next <= 2 * Alternatives(x)
  BY <1>1, <1>3
<1>. QED
  BY <1>1, <1>2, <1>3, <1>4, <1>5, <1>6 DEF Refused

LEMMA TreeRefuses ==
  ASSUME ArchiveInv, StackInv, NEW c, c = call, Refused(c),
         checkSatisfied \/ promoteDependency \/ newDependency,
         NEW y \in ToSet(stack'), y.op = "tree"
  PROVE  y \in ToSet(stack) \/ Refused(y)
<1>. DEFINE P == DOMAIN packages
<1>1. c \in TreeCalls(Current, P) /\ c.op = "tree" /\ TreeTurns(c)
  BY TreeTurn
<1>2. phase \in Growing /\ stack # <<>> /\ c \in CallSet
  <2>1. Running("tree")
    BY DEF checkSatisfied, promoteDependency, newDependency
  <2>. QED
    BY <2>1, HeadCall
<1>3. ASSUME NEW xs, Rest(xs, c, Current, P), NEW x \in ToSet(xs) PROVE Refused(x)
  <2>1. xs \in Seq(CallSet) /\ x.next = 0 /\ x.op = "tree"
    BY <1>1, <1>2, <1>3, TreeCallsFit DEF SameTree
  <2>2. x \in TreeCalls(Current, P)
    BY <1>3, ToSetProperties DEF Rest
  <2>. QED
    BY <2>1, <2>2, UnaskedRefused
<1>4. CASE Passed(c) /\ stack' = NextAlternative(c) \o Tail(stack)
  <2>. DEFINE xs == NextAlternative(c)
  <2>1. Rest(xs, c, Current, P) \/ OneFurther(xs, c, Current, P)
    BY <1>1, NextAlternativeIs
  <2>2. stack' = xs \o Tail(stack)
    BY <1>4
  <2>. HIDE DEF xs
  <2>3. xs \in Seq(CallSet)
    BY <1>1, <1>2, <2>1, TreeCallsFit
  <2>4. y \in ToSet(xs) \/ y \in ToSet(stack)
    BY <1>2, <2>2, <2>3, InItsPlace
  <2>. QED
    BY <1>1, <1>3, <1>4, <2>1, <2>4, FurtherRefused
<1>5. CASE \E dep \in ToSet(c.clauses[1]) :
             alreadySatisfied(c, dep) /\ stack' = NextClause(c) \o Tail(stack)
  <2>. DEFINE xs == NextClause(c)
  <2>1. Rest(xs, c, Current, P)
    BY <1>1, NextClauseIs
  <2>2. stack' = xs \o Tail(stack)
    BY <1>5
  <2>. HIDE DEF xs
  <2>3. xs \in Seq(CallSet)
    BY <1>1, <1>2, <2>1, TreeCallsFit
  <2>4. y \in ToSet(xs) \/ y \in ToSet(stack)
    BY <1>2, <2>2, <2>3, InItsPlace
  <2>. QED
    BY <1>3, <2>1, <2>4
<1>6. CASE \E dep \in ToSet(c.clauses[1]) : AddsFor(c, dep)
  <2>1. PICK W, pk, rest : /\ stack' = (pk \o rest) \o Tail(stack)
                           /\ PackagesOf(pk, c, W, Current, P) /\ Rest(rest, c, Current, P)
    BY <1>6 DEF AddsFor, Adding
  <2>. DEFINE C == CallSet
  <2>2. pk \in Seq(C) /\ rest \in Seq(C)
    BY <1>1, <1>2, <2>1, TreeCallsFit, PackageCallsFit
  <2>3. pk \o rest \in Seq(C) /\ ToSet(pk \o rest) = ToSet(pk) \cup ToSet(rest)
    <3>. HIDE DEF C
    <3>. QED
      BY <2>2, ConcatProperties, ToSetConcat
  <2>4. y \in ToSet(pk \o rest) \/ y \in ToSet(stack)
    BY <1>2, <2>1, <2>3, InItsPlace
  <2>5. y \notin ToSet(pk)
    BY <2>1 DEF PackagesOf
  <2>. QED
    BY <1>3, <2>1, <2>3, <2>4, <2>5
<1>. QED
  BY <1>1, <1>4, <1>5, <1>6 DEF TreeTurns

LEMMA CallRefuses ==
  ASSUME ParseInv, PlantInv, SeedsInv, ArchiveInv, StackInv, ListsInv, CallStep,
         \A x \in ToSet(stack) : x.op = "tree" => Refused(x), NEW y \in ToSet(stack'), y.op = "tree"
  PROVE  y \in ToSet(stack) \/ Refused(y)
<1>1. PICK calls \in Seq(CallSet) : stack' = calls \o Tail(stack) /\ Pushed(calls)
  BY CallPushes DEF Pushes
<1>2. phase \in Growing /\ stack # <<>>
  BY CallPushes
<1>3. y \in ToSet(calls) \/ y \in ToSet(stack)
  BY <1>1, <1>2, InItsPlace
<1>4. call \in ToSet(stack)
  BY <1>1, <1>2, InItsPlace
<1>5. CASE call.op = "tree"
  <2>1. PICK c : c = call
    OBVIOUS
  <2>2. Refused(c)
    BY <1>4, <1>5, <2>1
  <2>3. checkSatisfied \/ promoteDependency \/ newDependency
    <3>1. stack[1].op = "tree"
      <4>1. stack \in Seq(CallSet)
        BY <1>2 DEF StackInv
      <4>. QED
        BY <1>2, <1>5, <4>1, InnermostCall DEF call
    <3>. QED
      BY <3>1 DEF CallStep, refusePackage, addPackage, addSource, startRescue, rescueSource,
                  rescuePackage, Running
  <2>. QED
    BY <2>1, <2>2, <2>3, TreeRefuses
<1>6. CASE call.op # "tree" /\ y \in ToSet(calls)
  <2>1. y.next = 0
    BY <1>1, <1>6 DEF Pushed
  <2>2. y \in TreeCalls(Current, DOMAIN packages)
    <3>1. y \in CallSet
      BY <1>1, <1>6, ToSetProperties
    <3>. QED
      BY <3>1, CallKinds DEF CallSet
  <2>. QED
    BY <2>1, <2>2, UnaskedRefused
<1>. QED
  BY <1>3, <1>5, <1>6

-----------------------------------------------------------------------------
(* A step of a call: what is settled stays so, and the calls that ran have *)
(* done what they were for, or handed it on.                               *)
Basics == /\ ParseInv /\ PlantInv /\ SeedsInv /\ ArchiveInv /\ StackInv /\ ListsInv /\ TreesInv
          /\ ContainedInv
Kinship == \A s \in ToSet(seeds) : s \in Inner(s) /\ Inner(s) \subseteq ToSet(seeds)
Heirs == \A s \in ToSet(seeds) \ {Extra} : \A t \in Inner(s) : Inner(t) \subseteq Inner(s)

LEMMA CalledBasics ==
  ASSUME Basics, CallStep
  PROVE  /\ Joins /\ call \in CallSet /\ call.seed = Current /\ call \in ToSet(stack)
         /\ call.tree \in BOOLEAN /\ phase \in Growing /\ stack # <<>>
         /\ SeedDomains(ToSet(seeds)) /\ call.seed \in ToSet(seeds) /\ Kinship /\ Heirs
         /\ UNCHANGED <<phase, seeds, grown, names, inherit, structure, packages, sources,
                        provides, pruned, options>>
         /\ \A x \in ToSet(stack) :
              /\ x.op \in Plain => x.seed = Current
              /\ x.op = "package" => x.tree \in BOOLEAN
              /\ x.op = "tree" => x.tree \in BOOLEAN
<1>1. /\ Joins /\ call \in CallSet /\ call.seed = Current
      /\ call.tree \in BOOLEAN /\ phase \in Growing /\ stack # <<>>
      /\ SeedDomains(ToSet(seeds)) /\ call.seed \in ToSet(seeds)
  BY Called DEF Basics
<1>2. UNCHANGED <<phase, seeds, grown, names, inherit, structure, packages, sources,
                  provides, pruned, options>>
  BY CallPushes DEF Basics
<1>3. Kinship
  BY <1>1, InnerSeeds DEF Basics, Growing, Early, Late, Kinship
<1>4. Heirs
  BY <1>1, InnerSeeds DEF Basics, Growing, Early, Late, Heirs
<1>5. \A x \in ToSet(stack) : x.op \in Plain => x.seed = Current /\ x.tree \in BOOLEAN
  BY <1>1, CallTrees DEF Basics
<1>6. call \in ToSet(stack)
  <2>1. \E calls \in Seq(CallSet) : stack' = calls \o Tail(stack)
    BY CallPushes DEF Basics, Pushes
  <2>. QED
    BY <1>1, <2>1, InItsPlace DEF Basics
<1>. QED
  BY <1>1, <1>2, <1>3, <1>4, <1>5, <1>6 DEF Plain

LEMMA FirmIfSame ==
  ASSUME UNCHANGED <<packages, provides, sources, pruned, structure, options, names, inherit>>
  PROVE  \A s : Firm(s)
BY DEF Firm, Admits, Blacklist, Outer, StrictlyOuter, supported, Inner, innerSeeds

LEMMA CallKeeps ==
  ASSUME Basics, CallStep, NEW s \in ToSet(seeds)
  PROVE  Kept(s)
<1>1. /\ Joins /\ SeedDomains(ToSet(seeds)) /\ Kinship
      /\ UNCHANGED <<names, inherit, structure, packages, sources, provides, pruned, options>>
  BY CalledBasics
<1>2. Firm(s)
  BY <1>1, FirmIfSame
<1>3. build[call.seed] \subseteq build'[call.seed] /\ not_build[call.seed] \subseteq not_build'[call.seed]
  <2>1. CASE PackageJoins
    BY <2>1 DEF PackageJoins, Grows
  <2>2. CASE ~PackageJoins
    BY <1>1, <2>2 DEF Joins, ASourceJoins, SourceJoins, DependsJoin, NothingJoins, addedVars
  <2>. QED
    BY <2>1, <2>2
<1>4. \A t \in ToSet(seeds) : t # call.seed => build'[t] = build[t] /\ not_build'[t] = not_build[t]
  BY <1>1, ElsewhereStays DEF Elsewhere
<1>5. Inner(s) \subseteq ToSet(seeds)
  BY <1>1 DEF Kinship
<1>. QED
  BY <1>2, <1>3, <1>4, <1>5 DEF Kept

LEMMA PackagesRunInCall ==
  ASSUME Basics, CallStep, NEW b \in BOOLEAN, NEW s \in ToSet(seeds)
  PROVE  PackagesRun(b, s)
<1> SUFFICES ASSUME NEW x \in ToSet(stack), x.op = "package", x.seed = s, x.tree => b, Accepted(x)
             PROVE  x \in ToSet(stack') \/ Has(b, s, x.pkg)'
  BY DEF PackagesRun
<1>1. Joins /\ UNCHANGED inherit /\ phase \in Growing /\ stack # <<>>
  BY CalledBasics
<1>2. x \in ToSet(stack') \/ x = call
  <2>1. \E calls \in Seq(CallSet) : stack' = calls \o Tail(stack)
    BY CallPushes DEF Basics, Pushes
  <2>. QED
    BY <1>1, <2>1, InItsPlace DEF Basics
<1>3. CASE x = call
  <2>1. PackageJoins
    BY <1>1, <1>3 DEF Joins, ASourceJoins, SourceJoins, DependsJoin, NothingJoins
  <2>2. \E t \in Inner(s) : x.pkg \in build'[t]
    BY <1>3, <2>1 DEF PackageJoins, Grows
  <2>3. ASSUME ~b PROVE \E t \in Inner(s) : x.pkg \in not_build'[t]
    BY <1>3, <2>1, <2>3 DEF PackageJoins, Grows
  <2>4. Inner(s)' = Inner(s)
    BY <1>1 DEF Inner, innerSeeds
  <2>. QED
    BY <2>2, <2>3, <2>4 DEF Has
<1>. QED
  BY <1>2, <1>3

LEMMA HasToBuild ==
  ASSUME Kinship, Heirs, ContainedInv, NEW s \in ToSet(seeds), s # Extra, NEW p, Has(FALSE, s, p)
  PROVE  Has(TRUE, s, p)
<1>1. PICK t \in Inner(s) : p \in not_build[t]
  BY DEF Has
<1>2. p \in InnerOf(build, t) /\ Inner(t) \subseteq Inner(s)
  BY <1>1 DEF ContainedInv, Contains1, Kinship, Heirs
<1>. QED
  BY <1>2 DEF Has, InnerOf

LEMMA ComesToBuild ==
  ASSUME Kinship, Heirs, ContainedInv, NEW s \in ToSet(seeds), s # Extra, NEW p, Comes(FALSE, s, p)
  PROVE  Comes(TRUE, s, p)
BY HasToBuild DEF Comes, Joining

LEMMA CurrentHasGrown ==
  ASSUME Basics, phase \in Growing, stack # <<>>
  PROVE  HasGrown(Current) /\ Current \in ToSet(seeds) /\ (phase = "extras" <=> Current = Extra)
<1>1. Current \in ToSet(seeds)
  BY CurrentIs DEF Basics
<1>2. phase \in Early => Extra \notin ToSet(seeds)
  BY SeedsPlanted DEF Basics, Growing, Early, Late
<1>3. CASE phase = "grow"
  <2>1. grown \in 1..Len(seeds) /\ Current = seeds[grown]
    BY <1>3, UngrownSeeds DEF Basics
  <2>2. grown \in 1..grown
    BY <2>1
  <2>. QED
    BY <1>1, <1>2, <1>3, <2>1, <2>2 DEF HasGrown, Early
<1>4. CASE phase = "grown"
  <2>1. PICK i \in 1..Len(seeds) : seeds[i] = Current
    BY <1>1 DEF ToSet, Basics, SeedsInv
  <2>2. Current # Extra
    BY <1>1, <1>2, <1>4 DEF Early
  <2>3. i \in 1..grown
    BY <1>4, <2>1, <2>2 DEF Basics, SeedsInv
  <2>. QED
    BY <1>1, <1>4, <2>1, <2>2, <2>3 DEF HasGrown
<1>5. CASE phase = "extras"
  BY <1>1, <1>5 DEF HasGrown, Current
<1>. QED
  BY <1>3, <1>4, <1>5 DEF Growing

LEMMA TreesRunInCall ==
  ASSUME Basics, ClosedInv, CallStep, NEW b \in BOOLEAN, NEW s \in ToSet(seeds), s = Extra => b, NEW p
  PROVE  TreesRun(b, s, p)
<1> SUFFICES ASSUME NEW x \in ToSet(stack), Asks(x, b, s, p)
             PROVE  x \in ToSet(stack') \/ \A cl \in ToSet(x.clauses) : Met(b, s, p, cl)'
  BY DEF TreesRun
<1>1. /\ phase \in Growing /\ stack # <<>> /\ call \in CallSet /\ Kinship /\ Heirs
      /\ x.seed = Current /\ x.op = "tree" /\ x.tree = b
  BY CalledBasics DEF Asks, Plain
<1>2. x \in ToSet(stack') \/ x = call
  <2>1. \E calls \in Seq(CallSet) : stack' = calls \o Tail(stack)
    BY CallPushes DEF Basics, Pushes
  <2>. QED
    BY <1>1, <2>1, InItsPlace DEF Basics
<1>3. CASE x = call
  <2>1. SeededInv /\ Refused(x)
    BY <1>1 DEF ClosedInv, Grown, CallsInv
  <2>2. checkSatisfied \/ promoteDependency \/ newDependency
    <3>1. stack[1].op = "tree"
      <4>1. stack \in Seq(CallSet)
        BY <1>1 DEF Basics, StackInv
      <4>. QED
        BY <1>1, <1>3, <4>1, InnermostCall DEF call
    <3>. QED
      BY <3>1 DEF CallStep, refusePackage, addPackage, addSource, startRescue, rescueSource,
                  rescuePackage, Running
  <2>3. HasGrown(s) /\ (phase = "extras" <=> s = Extra) /\ s = x.seed /\ p = x.pkg
    BY <1>1, CurrentHasGrown DEF Asks
  <2>4. x.second = b
    <3>1. Mode(x, phase) /\ x.second \in BOOLEAN
      BY <1>1, CallTrees, TreeFields DEF Basics
    <3>2. phase = "extras" => b
      BY <2>3
    <3>. QED
      BY <1>1, <3>1, <3>2 DEF Mode
  <2>5. \A q \in Seeded(s) : s \in pruned[q] \/ Comes(b, s, q)
    <3>1. \A q \in Seeded(s) : s \in pruned[q] \/ Comes(s = Extra, s, q)
      BY <2>1, <2>3 DEF SeededInv
    <3>2. CASE s = Extra
      <4>1. b = TRUE /\ (s = Extra) = TRUE
        BY <3>2
      <4>. QED
        BY <3>1, <4>1
    <3>3. CASE s # Extra
      <4>1. (s = Extra) = FALSE
        BY <3>3
      <4>2. \A q \in Seeded(s) : s \in pruned[q] \/ Comes(FALSE, s, q)
        BY <3>1, <4>1
      <4>3. \A q : Comes(FALSE, s, q) => Comes(TRUE, s, q)
        BY <1>1, <3>3, ComesToBuild DEF Basics
      <4>4. b = TRUE \/ b = FALSE
        OBVIOUS
      <4>. QED
        BY <4>2, <4>3, <4>4
    <3>. QED
      BY <3>2, <3>3
  <2>6. Kept(s) /\ PackagesRun(b, s)
    BY CallKeeps, PackagesRunInCall
  <2>7. Asks(x, b, x.seed, x.pkg)
    BY <2>3
  <2>8. \A cl \in ToSet(x.clauses) : Met(b, x.seed, x.pkg, cl)'
    BY <1>3, <2>1, <2>2, <2>3, <2>4, <2>5, <2>6, <2>7, TreeMeets DEF Basics
  <2>. QED
    BY <2>3, <2>8
<1>. QED
  BY <1>2, <1>3

-----------------------------------------------------------------------------
(* The invariant after a step of a call.                                   *)
LEMMA MetInCall ==
  ASSUME Basics, ClosedInv, CallStep, NEW b \in BOOLEAN, NEW s \in ToSet(seeds), s = Extra => b,
         NEW p, NEW cl, Met(b, s, p, cl)
  PROVE  Met(b, s, p, cl)'
<1>1. Kept(s) /\ PackagesRun(b, s) /\ TreesRun(b, s, p)
  BY CallKeeps, PackagesRunInCall, TreesRunInCall
<1>2. \A x \in ToSet(stack) : x.op = "package" => x.tree \in BOOLEAN
  BY CalledBasics
<1>. QED
  BY <1>1, <1>2, MetAfter

LEMMA SeededAfterCall ==
  ASSUME Basics, ClosedInv, CallStep
  PROVE  SeededInv'
<1>1. /\ UNCHANGED <<seeds, grown, pruned>> /\ SeededInv
      /\ \A x \in ToSet(stack) : x.op = "package" => x.tree \in BOOLEAN
  BY CalledBasics DEF ClosedInv, Grown
<1>2. ASSUME NEW s \in ToSet(seeds), HasGrown(s), NEW q \in Seeded(s)'
      PROVE  s \in pruned[q] \/ Comes(s = Extra, s, q)'
  <2>1. q \in Seeded(s)
    BY CallsTyped DEF Basics, Seeded
  <2>2. s \in pruned[q] \/ Comes(s = Extra, s, q)
    BY <1>1, <1>2, <2>1 DEF SeededInv
  <2>3. PICK b \in BOOLEAN : b = (s = Extra)
    OBVIOUS
  <2>4. Kept(s) /\ PackagesRun(b, s)
    BY CallKeeps, PackagesRunInCall
  <2>5. Comes(b, s, q) => Comes(b, s, q)'
    BY <1>1, <2>4, ComesAfter
  <2>. QED
    BY <2>2, <2>3, <2>5
<1>3. \A s : HasGrown(s)' <=> HasGrown(s)
  BY <1>1 DEF HasGrown
<1>. QED
  BY <1>1, <1>2, <1>3 DEF SeededInv

LEMMA DependsAfterCall ==
  ASSUME Basics, ClosedInv, CallStep
  PROVE  DependsInv'
<1>. SUFFICES ASSUME NEW s \in ToSet(seeds'), s # Extra, NEW p \in not_build'[s],
                     NEW cl \in ToSet(ClausesOf(s, p)')
              PROVE  Met(FALSE, s, p, cl)'
  BY DEF DependsInv
<1>1. /\ UNCHANGED seeds /\ DependsInv /\ phase \in Growing /\ stack # <<>> /\ Kept(s)
      /\ call.tree \in BOOLEAN
  BY CalledBasics, CallKeeps DEF ClosedInv, Grown
<1>2. ClausesOf(s, p)' = ClausesOf(s, p)
  BY <1>1, QuerySame DEF Kept
<1>3. CASE p \in not_build[s]
  <2>1. Met(FALSE, s, p, cl)
    BY <1>1, <1>2, <1>3 DEF DependsInv
  <2>. QED
    BY <1>1, <2>1, MetInCall
<1>4. CASE p \notin not_build[s]
  <2>1. addPackage
    <3>1. ~addPackage => UNCHANGED not_build
      BY OnlyAddPackage DEF addedVars
    <3>. QED
      BY <1>4, <3>1
  <2>2. s = call.seed /\ p = call.pkg /\ ~call.tree
    <3>1. PackageJoins
      BY <2>1, PackageJoinsLists DEF Basics
    <3>. QED
      BY <1>1, <1>4, <3>1 DEF PackageJoins, Grows, Others
  <2>3. PICK calls \in Seq(CallSet) :
          /\ stack' = calls \o Tail(stack)
          /\ \A x \in ToSet(calls) :
               /\ x.op \in {"tree", "source"}
               /\ x.seed = call.seed /\ x.pkg = call.pkg /\ x.tree = call.tree
               /\ x.op = "tree" => x.bd = FALSE /\ x.next = 0
          /\ \A c \in ToSet(ClausesOf(call.seed, call.pkg)) :
               \E x \in ToSet(calls) : x.op = "tree" /\ c \in ToSet(x.clauses)
    BY <2>1, AddPackageIs DEF Basics
  <2>4. PICK x \in ToSet(calls) : x.op = "tree" /\ cl \in ToSet(x.clauses)
    BY <1>2, <2>2, <2>3
  <2>5. x \in ToSet(stack')
    BY <1>1, <2>3, InItsPlace DEF Basics
  <2>6. x.tree = FALSE
    BY <1>1, <2>2, <2>3
  <2>7. Asks(x, FALSE, s, p)
    BY <2>2, <2>3, <2>4, <2>6 DEF Asks
  <2>. QED
    BY <2>4, <2>5, <2>7 DEF Met, Asked, Asks
<1>. QED
  BY <1>3, <1>4

(* A source that is new among those of a seed is the package's whose call  *)
(* runs.                                                                   *)
LEMMA NewBuildSource ==
  ASSUME Basics, CallStep, NEW s \in ToSet(seeds), NEW src \in build_srcs'[s], src \notin build_srcs[s]
  PROVE  /\ addSource /\ s = call.seed /\ src = packages[call.pkg].source /\ ~SourceIsHad(call)
<1>1. SeedDomains(ToSet(seeds)) /\ call.seed \in ToSet(seeds)
  BY CalledBasics
<1>2. addSource
  BY DEF CallStep, refusePackage, addPackage, checkSatisfied, promoteDependency, newDependency,
         startRescue, rescueSource, rescuePackage, sourceVars
<1>. DEFINE c == call
            new == packages[c.pkg].source
<1>3. /\ ~SourceIsHad(c)
      /\ build_srcs' = [build_srcs EXCEPT ![c.seed] = @ \cup {new}]
  <2>1. \/ SourceIsHad(c) /\ UNCHANGED sourceVars
        \/ /\ ~SourceIsHad(c)
           /\ build_srcs' = [build_srcs EXCEPT ![c.seed] = @ \cup {new}]
    <3>1. SourceIsHad(c) <=> \/ new \notin DOMAIN sources
                             \/ \E t \in Inner(c.seed) : new \in
                                  (IF c.second \/ c.tree THEN build_srcs ELSE not_build_srcs)[t]
      BY DEF SourceIsHad
    <3>. HIDE DEF c
    <3>. QED
      BY <1>2, <3>1 DEF addSource, c
  <2>. QED
    BY <2>1 DEF sourceVars
<1>. HIDE DEF c
<1>4. s = c.seed /\ src = new
  BY <1>1, <1>3 DEF SeedDomains
<1>. QED
  BY <1>2, <1>3, <1>4 DEF c

LEMMA BuildAfterCall ==
  ASSUME Basics, ClosedInv, CallStep
  PROVE  BuildInv'
<1>. SUFFICES ASSUME NEW s \in ToSet(seeds'), NEW src \in build_srcs'[s]
              PROVE  \E p \in DOMAIN packages' : Built(s, p, src)'
  BY DEF BuildInv
<1>1. /\ UNCHANGED <<seeds, packages, sources>> /\ BuildInv /\ CallsInv
      /\ phase \in Growing /\ stack # <<>> /\ call \in ToSet(stack)
  BY CalledBasics DEF ClosedInv, Grown
<1>2. Kept(s)
  BY <1>1, CallKeeps
<1>3. CASE src \in build_srcs[s]
  <2>1. PICK p \in DOMAIN packages : Built(s, p, src)
    BY <1>1, <1>3 DEF BuildInv
  <2>2. Has(TRUE, s, p)'
    BY <1>2, <2>1, HasStays DEF Built
  <2>3. \A cl \in ToSet(sources[src].builddeps) : Met(TRUE, s, p, cl)'
    BY <1>1, <2>1, MetInCall DEF Built
  <2>. QED
    BY <1>1, <2>1, <2>2, <2>3 DEF Built
<1>4. CASE src \notin build_srcs[s]
  <2>1. addSource /\ s = call.seed /\ src = packages[call.pkg].source /\ ~SourceIsHad(call)
    BY <1>1, <1>4, NewBuildSource
  <2>2. call \in PackageCalls(Current, DOMAIN packages) /\ call.op = "source"
    BY <2>1, AddSourceIs DEF Basics
  <2>3. PICK p \in DOMAIN packages : p = call.pkg
    BY <2>2, PackageFields
  <2>4. PICK calls \in Seq(CallSet) :
              /\ stack' = calls \o Tail(stack)
              /\ \A x \in ToSet(calls) : BuildTree(call, x, Current, DOMAIN packages)
              /\ \A cl \in ToSet(sources[packages[call.pkg].source].builddeps) :
                     \E x \in ToSet(calls) : cl \in ToSet(x.clauses)
    BY <2>1, AddSourceIs DEF Basics
  <2>5. Has(TRUE, s, p)'
    BY <1>1, <1>2, <2>1, <2>2, <2>3, HasStays DEF CallsInv
  <2>6. s = Current
    BY <2>1, <2>2, PackageFields
  <2>7. ASSUME NEW cl \in ToSet(sources[src].builddeps) PROVE Met(TRUE, s, p, cl)'
    <3>1. PICK x \in ToSet(calls) : cl \in ToSet(x.clauses)
      BY <2>1, <2>4, <2>7
    <3>2. x \in ToSet(stack')
      BY <1>1, <2>4, InItsPlace DEF Basics
    <3>3. Asks(x, TRUE, s, p)
      BY <2>3, <2>4, <2>6, <3>1 DEF BuildTree, TreeFor, Asks
    <3>. QED
      BY <3>1, <3>2, <3>3 DEF Met, Asked, Asks
  <2>8. p \in DOMAIN packages'
    BY <1>1
  <2>9. Built(s, p, src)'
    BY <1>1, <2>1, <2>3, <2>5, <2>7 DEF Built
  <2>. QED
    BY <2>8, <2>9
<1>. QED
  BY <1>3, <1>4

LEMMA CallsAfterCall ==
  ASSUME Basics, ClosedInv, CallStep
  PROVE  CallsInv'
<1>. SUFFICES ASSUME NEW y \in ToSet(stack')
              PROVE  /\ y.op = "source" => Has(TRUE, y.seed, y.pkg)'
                     /\ y.op = "tree" => Refused(y)'
  BY DEF CallsInv
<1>1. /\ phase \in Growing /\ stack # <<>> /\ CallsInv
      /\ UNCHANGED <<phase, seeds, names, inherit, structure, packages, sources, provides, pruned, options>>
      /\ \A x \in ToSet(stack) : x.op \in Plain => x.seed = Current
      /\ call.seed = Current /\ call.seed \in ToSet(seeds)
  BY CalledBasics DEF ClosedInv, Grown
<1>2. PICK calls \in Seq(CallSet) : stack' = calls \o Tail(stack) /\ Pushed(calls)
  BY CallPushes DEF Basics, Pushes
<1>3. y \in ToSet(calls) \/ y \in ToSet(stack)
  BY <1>1, <1>2, InItsPlace DEF Basics
<1>4. CASE y.op = "source"
  <2>1. CASE y \in ToSet(stack)
    <3>1. y.seed \in ToSet(seeds) /\ Has(TRUE, y.seed, y.pkg)
      BY <1>1, <1>4, <2>1 DEF CallsInv, Plain
    <3>. QED
      BY <1>4, <3>1, CallKeeps, HasStays
  <2>2. CASE y \in ToSet(calls) /\ y \notin ToSet(stack)
    <3>1. stack[1].op = "package"
      <4>1. call.op = "package"
        BY <1>2, <1>4, <2>2 DEF Pushed
      <4>2. stack \in Seq(CallSet)
        BY <1>1 DEF Basics, StackInv
      <4>. QED
        BY <1>1, <4>1, <4>2, InnermostCall DEF call
    <3>2. refusePackage \/ addPackage
      BY <3>1 DEF CallStep, addSource, checkSatisfied, promoteDependency, newDependency,
                  startRescue, rescueSource, rescuePackage, Running
    <3>3. ~refusePackage
      <4>1. ASSUME refusePackage PROVE FALSE
        <5>1. stack' = Tail(stack)
          BY <4>1 DEF refusePackage, Return
        <5>2. PICK t \in Seq(CallSet) : t = Tail(stack)
          BY <1>1, InnermostCall DEF Basics, StackInv
        <5>3. ToSet(stack') \subseteq ToSet(stack)
          <6>1. stack' = <<>> \o Tail(stack) /\ <<>> \in Seq(CallSet) /\ ToSet(<<>>) = {}
            BY <5>1, <5>2, ToSetProperties
          <6>. QED
            BY <1>1, <6>1, InItsPlace DEF Basics
        <5>. QED
          BY <2>2, <5>3
      <4>. QED
        BY <4>1
    <3>4. addPackage
      BY <3>2, <3>3
    <3>5. PackageJoins
      BY <3>4, PackageJoinsLists DEF Basics
    <3>6. PICK xs \in Seq(CallSet) :
            /\ stack' = xs \o Tail(stack)
            /\ \A x \in ToSet(xs) : x.seed = call.seed /\ x.pkg = call.pkg
      BY <3>4, AddPackageIs DEF Basics
    <3>7. y \in ToSet(xs)
      BY <1>1, <2>2, <3>6, InItsPlace DEF Basics
    <3>8. y.seed = call.seed /\ y.pkg = call.pkg
      BY <3>6, <3>7
    <3>9. \E t \in Inner(y.seed) : y.pkg \in build'[t]
      BY <3>5, <3>8 DEF PackageJoins, Grows
    <3>10. Inner(y.seed)' = Inner(y.seed)
      BY <1>1 DEF Inner, innerSeeds
    <3>. QED
      BY <1>4, <3>9, <3>10 DEF Has
  <2>. QED
    BY <1>3, <2>1, <2>2
<1>5. CASE y.op = "tree"
  <2>1. Refused(y)
    <3>1. \A x \in ToSet(stack) : x.op = "tree" => Refused(x)
      BY <1>1 DEF CallsInv
    <3>. QED
      BY <1>5, <3>1, CallRefuses DEF Basics
  <2>2. y.tree \in BOOLEAN
    <3>1. y \in CallSet
      <4>1. stack \in Seq(CallSet)
        BY <1>1 DEF Basics, StackInv
      <4>. DEFINE C == CallSet
      <4>2. stack \in Seq(C) /\ calls \in Seq(C)
        BY <1>2, <4>1
      <4>. HIDE DEF C
      <4>3. y \in C
        BY <1>3, <4>2, ToSetProperties
      <4>. QED
        BY <4>3 DEF C
    <3>2. y \in TreeCalls(Current, DOMAIN packages)
      BY <1>5, <3>1, CallKinds DEF CallSet
    <3>. QED
      BY <3>2, TreeFields
  <2>3. Firm(y.seed)
    BY <1>1, FirmIfSame
  <2>. QED
    BY <1>5, <2>1, <2>2, <2>3, RefusedFirm
<1>. QED
  BY <1>4, <1>5

LEMMA ClosedAfterCall ==
  ASSUME Basics, ClosedInv, CallStep
  PROVE  ClosedInv'
<1>1. phase \in Growing /\ UNCHANGED <<phase, seeds, options>>
  BY CalledBasics
<1>2. phase' \notin Before \cup {"plant"}
  BY <1>1 DEF Growing, Before
<1>3. SeededInv' /\ DependsInv' /\ BuildInv' /\ CallsInv'
  BY SeededAfterCall, DependsAfterCall, BuildAfterCall, CallsAfterCall
<1>. QED
  BY <1>1, <1>2, <1>3 DEF ClosedInv

-----------------------------------------------------------------------------
(* The other steps run no calls: what is met for a seed stays so.          *)
Bare == \A x \in ToSet(stack) : x.op \notin {"package", "tree"}
Typed == \A x \in ToSet(stack) : x.op = "package" => x.tree \in BOOLEAN
Carries(s) == Kept(s) /\ \A b \in BOOLEAN : PackagesRun(b, s) /\ \A p : TreesRun(b, s, p)

LEMMA IdleCarries ==
  ASSUME NEW s, Kept(s), Bare \/ UNCHANGED stack
  PROVE  Carries(s)
BY DEF Carries, Bare, PackagesRun, TreesRun, Asks

LEMMA SeededCarried ==
  ASSUME SeededInv, Typed, NEW s \in ToSet(seeds), HasGrown(s), Carries(s), NEW q \in Seeded(s)
  PROVE  s \in pruned'[q] \/ Comes(s = Extra, s, q)'
<1>1. s \in pruned[q] \/ Comes(s = Extra, s, q)
  BY DEF SeededInv
<1>2. PICK b \in BOOLEAN : b = (s = Extra)
  OBVIOUS
<1>3. Comes(b, s, q) => Comes(b, s, q)'
  BY ComesAfter DEF Carries, Typed
<1>4. pruned' = pruned
  BY DEF Carries, Kept, Firm
<1>. QED
  BY <1>1, <1>2, <1>3, <1>4

LEMMA MetCarried ==
  ASSUME Typed, NEW s, Carries(s), NEW b \in BOOLEAN, NEW p, NEW cl, Met(b, s, p, cl)
  PROVE  Met(b, s, p, cl)'
BY MetAfter DEF Carries, Typed

LEMMA ListsCarried ==
  ASSUME DependsInv, BuildInv, Typed, UNCHANGED <<packages, sources>>,
         \A s \in ToSet(seeds') \ ToSet(seeds) : s = Extra /\ build_srcs'[s] = {},
         \A s \in ToSet(seeds) : /\ Carries(s) /\ not_build'[s] = not_build[s]
                                 /\ build_srcs'[s] = build_srcs[s]
  PROVE  DependsInv' /\ BuildInv'
<1>1. ASSUME NEW s \in ToSet(seeds'), s # Extra, NEW p \in not_build'[s],
             NEW cl \in ToSet(ClausesOf(s, p)')
      PROVE  Met(FALSE, s, p, cl)'
  <2>1. s \in ToSet(seeds) /\ Carries(s) /\ p \in not_build[s]
    BY <1>1
  <2>2. ClausesOf(s, p)' = ClausesOf(s, p)
    BY <2>1, QuerySame DEF Carries, Kept
  <2>3. Met(FALSE, s, p, cl)
    BY <1>1, <2>1, <2>2 DEF DependsInv
  <2>. QED
    BY <2>1, <2>3, MetCarried
<1>2. ASSUME NEW s \in ToSet(seeds'), NEW src \in build_srcs'[s]
      PROVE  \E p \in DOMAIN packages' : Built(s, p, src)'
  <2>1. s \in ToSet(seeds) /\ Carries(s) /\ src \in build_srcs[s]
    BY <1>2
  <2>2. PICK p \in DOMAIN packages : Built(s, p, src)
    BY <2>1 DEF BuildInv
  <2>3. Has(TRUE, s, p)'
    BY <2>1, <2>2, HasStays DEF Built, Carries
  <2>4. \A cl \in ToSet(sources[src].builddeps) : Met(TRUE, s, p, cl)'
    BY <2>1, <2>2, MetCarried DEF Built
  <2>. QED
    BY <2>2, <2>3, <2>4 DEF Built
<1>. QED
  BY <1>1, <1>2 DEF DependsInv, BuildInv

(* The lists stay as they are, and so do the seeds.                        *)
LEMMA ListsIdle ==
  ASSUME DependsInv, BuildInv, Typed,
         UNCHANGED <<packages, provides, sources, pruned, structure, options, names, inherit,
                     seeds, build, not_build, build_srcs>>,
         Bare \/ UNCHANGED stack
  PROVE  DependsInv' /\ BuildInv' /\ \A s : Carries(s)
<1>1. \A s : Carries(s)
  <2>1. \A s : Firm(s)
    BY FirmIfSame
  <2>2. \A s : Kept(s)
    BY <2>1 DEF Kept
  <2>. QED
    BY <2>2, IdleCarries
<1>2. \A s \in ToSet(seeds) : Carries(s) /\ not_build'[s] = not_build[s]
                                         /\ build_srcs'[s] = build_srcs[s]
  BY <1>1
<1>3. ToSet(seeds') \ ToSet(seeds) = {}
  OBVIOUS
<1>. QED
  BY <1>1, <1>2, <1>3, ListsCarried

LEMMA TypedCalls ==
  ASSUME Basics, phase \in Grown
  PROVE  Typed
<1>1. CASE phase \in Growing
  BY <1>1, CallTrees DEF Basics, Typed, Plain
<1>2. CASE phase \notin Growing
  <2>1. stack = <<>> /\ ToSet(<<>>) = {}
    BY <1>2, ToSetProperties DEF Basics, StackInv, Grown, Late
  <2>. QED
    BY <2>1 DEF Typed
<1>. QED
  BY <1>1, <1>2

(* Nothing is in use when the seeds start to grow.                         *)
LEMMA PruneCloses ==
  ASSUME Basics, UngrownInv, ClosedInv, prune
  PROVE  ClosedInv'
<1>1. /\ phase = "plant" /\ phase' = "grow" /\ stack' = <<>> /\ grown' = grown
      /\ UNCHANGED <<seeds, not_build, all_srcs, build_srcs>>
  BY DEF prune, addedVars, sourceVars
<1>2. grown = 0 /\ all_srcs = {} /\ \A s \in ToSet(seeds) : not_build[s] = {} /\ build_srcs[s] = {}
  <2>1. grown = 0 /\ all_srcs = {}
    BY <1>1 DEF Basics, SeedsInv, ClosedInv
  <2>2. \A i \in 1..Len(seeds) : Blank(seeds[i])
    BY <1>1, <2>1 DEF UngrownInv
  <2>3. \A s \in ToSet(seeds) : Blank(s)
    BY <2>2 DEF ToSet
  <2>. QED
    BY <2>1, <2>3 DEF Blank, Basics, ListsInv
<1>3. Extra \notin ToSet(seeds)
  BY <1>1, SeedsPlanted DEF Basics, Early
<1>4. \A i : i \notin 1..0
  OBVIOUS
<1>5. SeededInv'
  BY <1>1, <1>2, <1>3, <1>4 DEF SeededInv, HasGrown
<1>6. DependsInv' /\ BuildInv'
  BY <1>1, <1>2 DEF DependsInv, BuildInv
<1>7. CallsInv'
  BY <1>1, ToSetProperties DEF CallsInv
<1>8. phase' \notin Before \cup {"plant"}
  BY <1>1 DEF Before
<1>. QED
  BY <1>1, <1>3, <1>5, <1>6, <1>7, <1>8 DEF ClosedInv

(* What a seed starts to grow with is what it seeds and does not weed out. *)
LEMMA GrowCloses ==
  ASSUME Basics, ClosedInv, growSeed
  PROVE  ClosedInv'
<1>0. PICK t : t = seeds[grown + 1]
  OBVIOUS
<1>1. /\ phase = "grow" /\ phase' = phase /\ stack = <<>> /\ grown' = grown + 1 /\ grown \in Nat
      /\ UNCHANGED <<packages, provides, sources, pruned, structure, options, names, inherit,
                     seeds, build, not_build, build_srcs>>
  BY DEF growSeed, structureVars, parseVars, plantVars, archiveVars, addedVars, sourceVars, Basics,
         SeedsInv
<1>2. SeededInv /\ DependsInv /\ BuildInv /\ Bare /\ Typed
  BY <1>1, ToSetProperties DEF ClosedInv, Grown, Growing, Bare, Typed
<1>3. DependsInv' /\ BuildInv' /\ \A s : Carries(s)
  BY <1>1, <1>2, ListsIdle
<1>4. PICK pk, rs : /\ stack' = pk \o rs /\ pk \in Seq(CallSet') /\ rs \in Seq(CallSet')
                    /\ \A x \in ToSet(pk) : \E p \in ToSet(Weeded(t)) : Fresh(x, Current', p)
                    /\ \A p \in ToSet(Weeded(t)) : \E x \in ToSet(pk) : Fresh(x, Current', p)
                    /\ \A x \in ToSet(rs) : x.op = "rescue"
  BY <1>0, <1>1, GrowSeedIs DEF Basics
<1>5. Current' = t /\ t \in ToSet(seeds)
  BY <1>0, <1>1, GrowSeedIs DEF Basics
<1>6. ToSet(stack') = ToSet(pk) \cup ToSet(rs)
  <2>. DEFINE C == CallSet'
  <2>1. pk \in Seq(C) /\ rs \in Seq(C)
    BY <1>4
  <2>. HIDE DEF C
  <2>2. ToSet(pk \o rs) = ToSet(pk) \cup ToSet(rs)
    BY <2>1, ToSetConcat
  <2>. QED
    BY <1>4, <2>2
<1>7. CallsInv'
  BY <1>4, <1>6 DEF CallsInv, Fresh
<1>8. /\ SeedDomains(ToSet(seeds))
      /\ seed' = [seed EXCEPT ![t] = Weed(t, @)]
      /\ seedrecommends' = [seedrecommends EXCEPT ![t] = Weed(t, @)]
  BY <1>0 DEF growSeed, Basics, SeedsInv
<1>9. /\ ToSet(Weed(t, seed[t])) = {p \in ToSet(seed[t]) : Admits(t, FALSE, p)}
      /\ ToSet(Weed(t, seedrecommends[t])) = {p \in ToSet(seedrecommends[t]) : Admits(t, FALSE, p)}
      /\ ToSet(Weeded(t)) = {p \in Seeded(t) : Admits(t, FALSE, p)}
  BY <1>5, WeededTyped DEF Basics
<1>10. Seeded(t)' = ToSet(Weeded(t)) /\ \A s \in ToSet(seeds) : s # t => Seeded(s)' = Seeded(s)
  BY <1>5, <1>8, <1>9 DEF Seeded, SeedDomains
<1>11. ASSUME NEW q \in ToSet(Weeded(t)) PROVE t \in pruned[q] \/ Comes(t = Extra, t, q)'
  <2>1. PICK x \in ToSet(pk) : Fresh(x, t, q)
    BY <1>4, <1>5, <1>11
  <2>2. Admits(t, FALSE, q)
    BY <1>9, <1>11
  <2>3. t \notin pruned[q] => Accepted(x)
    BY <2>1, <2>2 DEF Accepted, Fresh
  <2>4. Accepted(x)' <=> Accepted(x)
    <3>1. x.seed = t /\ x.tree \in BOOLEAN /\ Firm(t)
      BY <1>3, <2>1 DEF Fresh, Carries, Kept
    <3>. QED
      BY <3>1, AcceptedFirm
  <2>. QED
    BY <1>6, <2>1, <2>3, <2>4 DEF Comes, Joining, Fresh
<1>12. SeededInv'
  <2>1. ASSUME NEW s \in ToSet(seeds), HasGrown(s)', s # t PROVE HasGrown(s)
    <3>1. \A i \in 1..grown' : i \in 1..grown \/ i = grown + 1
      BY <1>1
    <3>. QED
      BY <1>0, <1>1, <2>1, <3>1 DEF HasGrown
  <2>2. ASSUME NEW s \in ToSet(seeds), HasGrown(s)', NEW q \in Seeded(s)', s # t
        PROVE  s \in pruned'[q] \/ Comes(s = Extra, s, q)'
    BY <1>2, <1>3, <1>10, <2>1, <2>2, SeededCarried
  <2>. QED
    BY <1>1, <1>10, <1>11, <2>2 DEF SeededInv
<1>13. phase' \notin Before \cup {"plant"}
  BY <1>1 DEF Before
<1>. QED
  BY <1>1, <1>3, <1>7, <1>12, <1>13 DEF ClosedInv

LEMMA RescueCloses ==
  ASSUME Basics, ClosedInv, rescueForBuild
  PROVE  ClosedInv'
<1>1. /\ phase = "grow" /\ phase' = "grown" /\ stack = <<>> /\ grown' = grown
      /\ UNCHANGED <<packages, provides, sources, pruned, structure, options, names, inherit,
                     seeds, seed, seedrecommends, build, not_build, build_srcs>>
  BY DEF rescueForBuild, structureVars, parseVars, plantVars, archiveVars, seedVars, addedVars,
         sourceVars
<1>2. SeededInv /\ DependsInv /\ BuildInv /\ Bare /\ Typed
  BY <1>1, ToSetProperties DEF ClosedInv, Grown, Growing, Bare, Typed
<1>3. DependsInv' /\ BuildInv' /\ \A s : Carries(s)
  BY <1>1, <1>2, ListsIdle
<1>4. SeededInv'
  <2>1. \A s : HasGrown(s)' <=> HasGrown(s)
    BY <1>1 DEF HasGrown
  <2>2. \A s : Seeded(s)' = Seeded(s)
    BY <1>1 DEF Seeded
  <2>3. \A s \in ToSet(seeds) : HasGrown(s) => \A q \in Seeded(s) :
           s \in pruned'[q] \/ Comes(s = Extra, s, q)'
    BY <1>2, <1>3, SeededCarried
  <2>. QED
    BY <1>1, <2>1, <2>2, <2>3 DEF SeededInv
<1>5. CallsInv'
  <2>1. PICK x \in CallSet' : stack' = <<x>> /\ x.op = "rescue"
    BY RescueForBuildStack DEF Basics
  <2>2. ToSet(stack') = {x}
    BY <2>1, Single
  <2>. QED
    BY <2>1, <2>2 DEF CallsInv
<1>6. phase' \notin Before \cup {"plant"}
  BY <1>1 DEF Before
<1>. QED
  BY <1>1, <1>3, <1>4, <1>5, <1>6 DEF ClosedInv

(* Extra, which inherits from all seeds, blacklists nothing: what they     *)
(* accept stays as it is.                                                  *)
LEMMA ExtraIsFirm ==
  ASSUME Basics, addExtras, NEW s \in ToSet(seeds)
  PROVE  Firm(s)
<1>. DEFINE S == ToSet(seeds)
<1>1. /\ UNCHANGED <<archiveVars, pruned, structure>> /\ Planted(Extra) /\ phase = "grown"
      /\ names' = Append(names, Extra) /\ inherit' = Put(inherit, Extra, InheritedByExtra)
  <2>1. phase = "grown" /\ ~plantSeed
    BY DEF addExtras, plantSeed
  <2>2. UNCHANGED <<archiveVars, pruned, structure>> /\ Planted(Extra)
    BY <2>1, NewSeedStep DEF Basics
  <2>. QED
    BY <2>1, <2>2 DEF addExtras
<1>2. /\ DOMAIN options = S /\ DOMAIN options' = S \cup {Extra} /\ NewSeed(Extra)
      /\ Extra \notin S
  BY <1>1, NewSeedIs DEF Planted, SeedDomains, Basics, SeedsInv
<1>3. (\A t \in S : options'[t] = options[t]) /\ options'[Extra].blacklist = {}
  BY <1>2 DEF NewSeed
<1>4. /\ \A t \in S : Blacklist(t)' = Blacklist(t)
      /\ Blacklist(Extra)' = {}
  BY <1>2, <1>3 DEF Blacklist
<1>5. /\ S = ToSet(names) /\ supported \in S /\ names \in Seq(SeedName) /\ S = DOMAIN inherit
  BY <1>1, SeedsPlanted, NamesAre DEF Basics, Early
<1>6. ToSet(names') = S \cup {Extra} /\ \A t \in S : inherit'[t] = inherit[t]
  <2>1. ToSet(names') = S \cup {Extra}
    BY <1>1, <1>5, ToSetAppend DEF SeedName
  <2>. QED
    BY <1>1, <1>2, <1>5, <2>1 DEF Put
<1>7. Outer(s) \subseteq S /\ Outer(s) \subseteq Outer(s)' /\ Outer(s)' \subseteq Outer(s) \cup {Extra}
  BY <1>5, <1>6 DEF Outer, StrictlyOuter
<1>8. supported' = supported
  BY <1>1 DEF supported
<1>9. ASSUME NEW tree \in BOOLEAN, NEW p PROVE Admits(s, tree, p)' <=> Admits(s, tree, p)
  <2>1. CASE tree
    BY <1>4, <1>5, <1>8, <2>1 DEF Admits
  <2>2. CASE ~tree
    <3>1. \A o \in Outer(s)' : (o \in S /\ o \in Outer(s)) \/ o = Extra
      BY <1>7
    <3>2. \A o \in Outer(s) : o \in S /\ o \in Outer(s)'
      BY <1>7
    <3>3. (\A o \in Outer(s) : p \notin Blacklist(o))
             <=> \A o \in Outer(s)' : p \notin Blacklist(o)'
      BY <1>4, <3>1, <3>2
    <3>. QED
      BY <2>2, <3>3 DEF Admits
  <2>. QED
    BY <2>1, <2>2
<1>10. Inner(s)' = Inner(s)
  BY <1>6 DEF Inner, innerSeeds
<1>. QED
  BY <1>1, <1>3, <1>9, <1>10 DEF Firm, archiveVars

LEMMA ExtrasClose ==
  ASSUME Basics, ClosedInv, addExtras
  PROVE  ClosedInv'
<1>. DEFINE S == ToSet(seeds)
<1>1. /\ UNCHANGED <<archiveVars, pruned, structure, grown>> /\ Planted(Extra)
      /\ phase = "grown" /\ phase' = "extras" /\ stack = <<>>
  <2>1. phase = "grown" /\ phase' = "extras" /\ stack = <<>> /\ ~plantSeed
    BY DEF addExtras, plantSeed
  <2>. QED
    BY <2>1, NewSeedStep DEF Basics
<1>2. /\ NewSeed(Extra) /\ Extra \notin S /\ ToSet(seeds') = S \cup {Extra}
      /\ seeds' = Append(seeds, Extra)
  BY <1>1 DEF Planted, NewSeed
<1>3. ASSUME NEW s \in S
      PROVE  /\ s # Extra /\ not_build'[s] = not_build[s] /\ build'[s] = build[s]
             /\ build_srcs'[s] = build_srcs[s] /\ Seeded(s)' = Seeded(s)
  BY <1>2 DEF NewSeed, Seeded
<1>4. /\ build_srcs'[Extra] = {} /\ Seeded(Extra)' = {} /\ options'[Extra].blacklist = {}
  <2>1. ToSet(<<>>) = {}
    BY ToSetProperties
  <2>. QED
    BY <1>2, <2>1 DEF NewSeed, Seeded
<1>5. SeededInv /\ DependsInv /\ BuildInv /\ Bare /\ Typed
  BY <1>1, ToSetProperties DEF ClosedInv, Grown, Growing, Bare, Typed
<1>6. ASSUME NEW s \in S PROVE Carries(s)
  <2>1. Firm(s)
    BY ExtraIsFirm
  <2>2. Inner(s) \subseteq S
    BY <1>1, <1>3, Kin DEF Basics, Growing
  <2>3. Kept(s)
    BY <1>3, <2>1, <2>2 DEF Kept
  <2>. QED
    BY <1>5, <2>3, IdleCarries
<1>7. DependsInv' /\ BuildInv'
  <2>1. UNCHANGED <<packages, sources>>
    BY <1>1 DEF archiveVars
  <2>2. \A s \in ToSet(seeds') \ ToSet(seeds) : s = Extra /\ build_srcs'[s] = {}
    BY <1>2, <1>4
  <2>3. \A s \in ToSet(seeds) : Carries(s) /\ not_build'[s] = not_build[s]
                                           /\ build_srcs'[s] = build_srcs[s]
    BY <1>3, <1>6
  <2>. QED
    BY <1>5, <2>1, <2>2, <2>3, ListsCarried
<1>8. SeededInv'
  <2>1. ASSUME NEW s \in S, HasGrown(s)' PROVE HasGrown(s)
    <3>1. \A i \in 1..grown : seeds'[i] = seeds[i]
      BY <1>2 DEF Basics, SeedsInv
    <3>. QED
      BY <1>1, <1>3, <2>1, <3>1 DEF HasGrown
  <2>2. ASSUME NEW s \in S, HasGrown(s)', NEW q \in Seeded(s)'
        PROVE  s \in pruned'[q] \/ Comes(s = Extra, s, q)'
    BY <1>3, <1>5, <1>6, <2>1, <2>2, SeededCarried
  <2>. QED
    BY <1>2, <1>4, <2>2 DEF SeededInv
<1>9. CallsInv'
  <2>1. PICK x \in CallSet' : stack' = <<x>> /\ x.op = "pass"
    BY AddExtrasStack DEF Basics
  <2>2. ToSet(stack') = {x}
    BY <2>1, Single
  <2>. QED
    BY <2>1, <2>2 DEF CallsInv
<1>10. phase' \notin Before \cup {"plant"}
  BY <1>1 DEF Before
<1>. QED
  BY <1>1, <1>4, <1>7, <1>8, <1>9, <1>10 DEF ClosedInv

(* Passing over the sources leaves the lists alone, and so does listing    *)
(* a binary: what is seeded in extra is what is called for.                *)
LEMMA PassCloses ==
  ASSUME Basics, ClosedInv, extraPass
  PROVE  ClosedInv'
<1>1. /\ UNCHANGED <<packages, provides, sources, pruned, structure, options, names, inherit,
                     phase, grown, seeds, seed, seedrecommends, build, not_build, build_srcs>>
      /\ Running("pass")
  BY DEF extraPass, structureVars, parseVars, plantVars, archiveVars, seedVars, addedVars,
         sourceVars
<1>2. phase = "extras" /\ Len(stack) = 1 /\ stack \in Seq(CallSet) /\ stack[1] = call /\ call.op = "pass"
  BY <1>1, PassAlone DEF Basics, PassCalls
<1>3. \A x \in ToSet(stack) : x.op = "pass"
  BY <1>2 DEF ToSet
<1>4. SeededInv /\ DependsInv /\ BuildInv /\ Bare /\ Typed
  BY <1>2, <1>3 DEF ClosedInv, Grown, Growing, Bare, Typed
<1>5. DependsInv' /\ BuildInv' /\ \A s : Carries(s)
  BY <1>1, <1>4, ListsIdle
<1>6. SeededInv'
  <2>1. \A s : HasGrown(s)' <=> HasGrown(s)
    BY <1>1 DEF HasGrown
  <2>2. \A s : Seeded(s)' = Seeded(s)
    BY <1>1 DEF Seeded
  <2>3. \A s \in ToSet(seeds) : HasGrown(s) => \A q \in Seeded(s) :
           s \in pruned'[q] \/ Comes(s = Extra, s, q)'
    BY <1>4, <1>5, SeededCarried
  <2>. QED
    BY <1>1, <2>1, <2>2, <2>3 DEF SeededInv
<1>7. CallsInv'
  BY ExtraPassStack DEF Basics, CallsInv
<1>8. phase' \notin Before \cup {"plant"}
  BY <1>1, <1>2 DEF Before
<1>. QED
  BY <1>1, <1>4, <1>5, <1>6, <1>7, <1>8 DEF ClosedInv

LEMMA ExtraCloses ==
  ASSUME Basics, ClosedInv, extraBinary
  PROVE  ClosedInv'
<1>1. /\ UNCHANGED <<packages, provides, sources, pruned, structure, options, names, inherit,
                     phase, grown, seeds, seedrecommends, build, not_build, build_srcs>>
      /\ Running("binaries")
  BY DEF extraBinary, structureVars, parseVars, plantVars, archiveVars, addedVars, sourceVars
<1>2. /\ phase = "extras" /\ Len(stack) = 2 /\ stack \in Seq(CallSet) /\ stack[1].op = "binaries"
      /\ stack[2].op = "pass"
  BY <1>1, BinariesAbovePass DEF Basics, PassCalls, BinaryCalls
<1>3. \A x \in ToSet(stack) : x.op \in {"binaries", "pass"}
  BY <1>2 DEF ToSet
<1>4. SeededInv /\ DependsInv /\ BuildInv /\ Bare /\ Typed
  BY <1>2, <1>3 DEF ClosedInv, Grown, Growing, Bare, Typed
<1>5. DependsInv' /\ BuildInv' /\ \A s : Carries(s)
  BY <1>1, <1>4, ListsIdle
<1>6. \A s \in ToSet(seeds) : HasGrown(s) => \A q \in Seeded(s) :
         s \in pruned'[q] \/ Comes(s = Extra, s, q)'
  BY <1>4, <1>5, SeededCarried
<1>7. \A s : HasGrown(s)' <=> HasGrown(s)
  BY <1>1 DEF HasGrown
<1>8. \A x \in ToSet(stack') : \/ x.op \in {"binaries", "pass"}
                               \/ x.op = "package" /\ x.tree = FALSE
  BY <1>3, ExtraBinaryIs DEF Basics
<1>9. ASSUME UNCHANGED seed PROVE SeededInv'
  <2>1. \A s : Seeded(s)' = Seeded(s)
    BY <1>1, <1>9 DEF Seeded
  <2>. QED
    BY <1>1, <1>6, <1>7, <2>1 DEF SeededInv
<1>10. ASSUME NEW p \in DOMAIN packages, seed' = [seed EXCEPT ![Extra] = Append(@, p)], CallsFor(p)
       PROVE  SeededInv'
  <2>1. Extra \in ToSet(seeds)
    <3>1. stack # <<>>
      BY <1>1 DEF Running
    <3>. QED
      BY <1>2, <3>1, CurrentHasGrown DEF Basics, Growing
  <2>2. \A s \in ToSet(seeds) : s # Extra => Seeded(s)' = Seeded(s)
    BY <1>1, <1>10 DEF Seeded
  <2>3. Seeded(Extra)' = Seeded(Extra) \cup {p}
    <3>1. seed[Extra] \in Seq(DOMAIN packages) /\ Extra \in DOMAIN seed
      BY <2>1 DEF Basics, ListsInv, SeedsInv, SeedDomains
    <3>2. ToSet(Append(seed[Extra], p)) = ToSet(seed[Extra]) \cup {p}
      BY <3>1, ToSetAppend
    <3>. QED
      BY <1>1, <1>10, <3>1, <3>2 DEF Seeded
  <2>4. PICK x \in ToSet(stack') :
          x.op = "package" /\ x.seed = Extra /\ x.pkg = p /\ x.tree = FALSE
    BY <1>10 DEF CallsFor
  <2>5. Accepted(x)
    <3>1. Extra \notin pruned[p]
      BY <1>10 DEF Basics, ArchiveInv
    <3>2. Outer(Extra) = {Extra}
      <4>1. ASSUME NEW s \in ToSet(names), s # Extra PROVE ~Contains(inherit[s], Extra)
        <5>1. seeds = names /\ \A t \in ToSet(inherit[s]) : t # Extra
          BY <1>2, <4>1, InnerSeeds DEF Basics, Late
        <5>2. inherit[s] \in Seq(STRING)
          <6>1. /\ names \in Seq(SeedName)
                /\ \A i \in 1..Len(names) :
                     names[i] # Extra => Expanded(i, names, inherit, AllAncestors)
            BY <1>2 DEF Basics, PlantInv, Late
          <6>2. PICK i \in 1..Len(names) : names[i] = s
            BY <6>1 DEF ToSet
          <6>. QED
            BY <4>1, <6>1, <6>2 DEF Expanded
        <5>. QED
          BY <5>1, <5>2, ToSetProperties
      <4>. QED
        BY <4>1 DEF Outer, StrictlyOuter
    <3>3. Blacklist(Extra) = {}
      BY <2>1 DEF ClosedInv, Blacklist
    <3>. QED
      BY <2>4, <3>1, <3>2, <3>3 DEF Accepted, Admits
  <2>6. Accepted(x)'
    <3>1. Firm(Extra)
      BY <1>5 DEF Carries, Kept
    <3>. QED
      BY <2>4, <2>5, <3>1, AcceptedFirm
  <2>7. Comes(TRUE, Extra, p)'
    BY <2>4, <2>6 DEF Comes, Joining
  <2>8. ASSUME NEW q \in Seeded(Extra)' PROVE Extra \in pruned'[q] \/ Comes(TRUE, Extra, q)'
    <3>1. q \in Seeded(Extra) => Extra \in pruned'[q] \/ Comes(TRUE, Extra, q)'
      <4>1. HasGrown(Extra) /\ (Extra = Extra) = TRUE
        BY DEF HasGrown
      <4>. QED
        BY <1>6, <2>1, <4>1
    <3>. QED
      BY <2>3, <2>7, <2>8, <3>1
  <2>9. ASSUME NEW s \in ToSet(seeds'), HasGrown(s)', NEW q \in Seeded(s)'
        PROVE  s \in pruned'[q] \/ Comes(s = Extra, s, q)'
    <3>1. CASE s = Extra
      <4>1. (s = Extra) = TRUE
        BY <3>1
      <4>. QED
        BY <2>8, <2>9, <3>1, <4>1
    <3>2. CASE s # Extra
      BY <1>1, <1>6, <1>7, <2>2, <2>9, <3>2
    <3>. QED
      BY <3>1, <3>2
  <2>. QED
    BY <2>9 DEF SeededInv
<1>11. SeededInv'
  BY <1>9, <1>10, ExtraBinaryIs DEF Basics
<1>12. CallsInv'
  BY <1>8 DEF CallsInv
<1>13. phase' \notin Before \cup {"plant"}
  BY <1>1, <1>2 DEF Before
<1>. QED
  BY <1>1, <1>4, <1>5, <1>11, <1>12, <1>13 DEF ClosedInv

(* While a seed's text is read, none has grown.                            *)
LEMMA TextIsPlanted ==
  ASSUME StackInv, Running("text")
  PROVE  phase = "plant"
<1>1. stack # <<>> /\ stack[1].op = "text"
  BY DEF Running
<1>2. ASSUME phase \in Growing PROVE FALSE
  <2>. DEFINE C == CallSet
  <2>1. stack \in Seq(C)
    BY <1>2 DEF StackInv
  <2>2. \A x \in C : x.op # "text"
    BY CallKinds DEF CallSet
  <2>. HIDE DEF C
  <2>. QED
    BY <1>1, <2>1, <2>2, InnermostCall
<1>. QED
  BY <1>1, <1>2 DEF StackInv

LEMMA PlantCloses ==
  ASSUME Basics, ClosedInv, plantSeed \/ readLine \/ plantPackage \/ plantHints
  PROVE  ClosedInv'
<1>1. CASE readLine \/ plantPackage \/ plantHints
  <2>1. /\ phase' = phase /\ seeds' = seeds /\ all_srcs' = all_srcs
        /\ Running("text")
    BY <1>1 DEF readLine, plantPackage, plantHints, plantVars, sourceVars
  <2>2. phase = "plant"
    BY <2>1, TextIsPlanted DEF Basics
  <2>3. Extra \notin ToSet(seeds)
    BY <2>2, SeedsPlanted DEF Basics, Early
  <2>. QED
    BY <2>1, <2>2, <2>3 DEF ClosedInv, Grown, Growing, Late
<1>2. CASE plantSeed
  <2>1. phase = "plant" /\ ~addExtras
    BY <1>2 DEF plantSeed, addExtras
  <2>2. Extra \notin ToSet(seeds) /\ all_srcs = {}
    BY <2>1, SeedsPlanted DEF Basics, Early, ClosedInv
  <2>3. CASE NothingPlanted
    BY <2>2, <2>3 DEF NothingPlanted, sourceVars, ClosedInv, Grown, Growing, Late
  <2>4. ASSUME NEW s, Planted(s), s # Extra, phase' = phase PROVE ClosedInv'
    <3>1. Extra \notin ToSet(seeds)' /\ all_srcs' = {}
      BY <2>2, <2>4 DEF Planted, NewSeed
    <3>. QED
      BY <2>1, <2>4, <3>1 DEF ClosedInv, Grown, Growing, Late
  <2>. QED
    BY <1>2, <2>1, <2>3, <2>4, NewSeedStep DEF Basics
<1>. QED
  BY <1>1, <1>2

LEMMA QuietCloses ==
  ASSUME Basics, ClosedInv, Quiet
  PROVE  ClosedInv'
<1>1. /\ UNCHANGED <<seeds, options, grown, stack, seed, seedrecommends, build, not_build,
                     build_srcs, all_srcs>>
  BY DEF Quiet, seedVars, addedVars, sourceVars
<1>2. phase' \in Before \cup {"plant"} => all_srcs' = {}
  BY <1>1 DEF Quiet, ClosedInv, Before, Told
<1>3. Extra \in ToSet(seeds)' => options'[Extra].blacklist = {}
  BY <1>1 DEF ClosedInv
<1>4. ASSUME phase' \in Grown
      PROVE  SeededInv' /\ DependsInv' /\ BuildInv' /\ CallsInv'
  <2>1. /\ UNCHANGED <<names, inherit, structure, packages, provides, sources, pruned>>
        /\ phase \in Grown
    BY <1>4 DEF Quiet, Grown, Growing, Late, Before, archiveVars, Told
  <2>2. SeededInv /\ DependsInv /\ BuildInv /\ CallsInv /\ Typed
    BY <2>1, TypedCalls DEF ClosedInv
  <2>3. DependsInv' /\ BuildInv' /\ \A s : Carries(s)
    BY <1>1, <2>1, <2>2, ListsIdle
  <2>4. SeededInv'
    <3>1. \A s : HasGrown(s)' <=> HasGrown(s)
      BY <1>1 DEF HasGrown
    <3>2. \A s : Seeded(s)' = Seeded(s)
      BY <1>1 DEF Seeded
    <3>3. \A s \in ToSet(seeds) : HasGrown(s) => \A q \in Seeded(s) :
             s \in pruned'[q] \/ Comes(s = Extra, s, q)'
      BY <2>2, <2>3, SeededCarried
    <3>. QED
      BY <1>1, <3>1, <3>2, <3>3 DEF SeededInv
  <2>5. ASSUME NEW x \in ToSet(stack)
        PROVE  /\ x.op = "source" => Has(TRUE, x.seed, x.pkg)'
               /\ x.op = "tree" => Refused(x)'
    <3>1. Kept(x.seed) /\ Firm(x.seed)
      BY <2>3 DEF Carries, Kept
    <3>2. phase \in Growing
      <4>1. stack # <<>>
        BY <2>5 DEF ToSet
      <4>. QED
        BY <2>1, <4>1 DEF Basics, StackInv, Grown, Late
    <3>3. x.op = "tree" => x.tree \in BOOLEAN
      BY <3>2, CallTrees DEF Basics, Plain
    <3>4. TRUE \in BOOLEAN
      OBVIOUS
    <3>. QED
      BY <2>2, <3>1, <3>3, <3>4, HasStays, RefusedFirm DEF CallsInv
  <2>6. CallsInv'
    BY <1>1, <2>5 DEF CallsInv
  <2>. QED
    BY <2>3, <2>4, <2>6
<1>. QED
  BY <1>2, <1>3, <1>4 DEF ClosedInv

LEMMA ClosedKept ==
  ASSUME Basics, UngrownInv, ClosedInv, [RdependsNext]_rdependsAllVars
  PROVE  ClosedInv'
BY Steps, PlantCloses, PruneCloses, GrowCloses, RescueCloses, ClosedAfterCall, ExtrasClose,
   PassCloses, ExtraCloses, QuietCloses DEF Basics

LEMMA ClosedAlways == RdependsSpec => []ClosedInv
<1>1. RdependsInit => ClosedInv
  <2>. SUFFICES ASSUME Init PROVE ClosedInv
    BY DEF RdependsInit
  <2>1. /\ seeds = <<>> /\ phase \in {"parse", "archive"} /\ ToSet(<<>>) = {}
        /\ all_srcs = {}
    BY ToSetProperties DEF Init
  <2>. QED
    BY <2>1 DEF ClosedInv, Grown, Growing, Late
<1>2. /\ ParseInv /\ PlantInv /\ SeedsInv /\ ArchiveInv /\ StackInv /\ ListsInv /\ TreesInv
      /\ PlaceInv /\ ClosedInv /\ [RdependsNext]_rdependsAllVars
      => ClosedInv'
  BY ClosedKept DEF Basics, PlaceInv
<1>. QED
  BY <1>1, <1>2, ParseAlways, PlantAlways, SeedsAlways, ArchiveAlways, StackAlways, TreesAlways,
     PlaceAlways, PTL DEF RdependsSpec

(* When the lists are written no call is to come any more: what is met is  *)
(* met by what the seed, and those it inherits from, have.                 *)
LEMMA MetIsSatisfied ==
  ASSUME stack = <<>>, NEW b, NEW s, NEW p, NEW clauses,
         \A cl \in ToSet(clauses) : Met(b, s, p, cl)
  PROVE  SatisfiedIn(InnerOf(IF b THEN build ELSE not_build, s), Query(b, s, p), clauses)
<1>. DEFINE c == Query(b, s, p)
<1>1. ToSet(stack) = {}
  BY ToSetProperties
<1>2. ASSUME NEW q, Comes(b, s, q) PROVE q \in InnerOf(IF b THEN build ELSE not_build, s)
  BY <1>1, <1>2 DEF Comes, Joining, Has, InnerOf
<1>3. ASSUME NEW cl \in ToSet(clauses)
      PROVE  \/ \E dep \in ToSet(cl) :
                  ToSet(VirtualFirst(c, dep)) \cap InnerOf(IF b THEN build ELSE not_build, s) # {}
             \/ \A dep \in ToSet(cl) : Acceptable(c, dep) = {}
  <2>1. Settled(b, s, p, cl)
    BY <1>1, <1>3 DEF Met, Asked
  <2>. QED
    BY <1>2, <2>1 DEF Settled, Hopeless
<1>4. \A i \in DOMAIN clauses : clauses[i] \in ToSet(clauses)
  BY DEF ToSet
<1>. QED
  BY <1>3, <1>4 DEF SatisfiedIn

(* Every clause of what a seed has, and of the sources it builds with, is  *)
(* satisfied when the lists are written, or nothing acceptable could have  *)
(* satisfied it ("dependency-closed lists", germinator.py:2), for any      *)
(* archive, any seeds, and any order of the sets the code iterates over.   *)
THEOREM ListsAreClosed == RdependsSpec => []ListsClosed
<1>1. ASSUME StackInv, ClosedInv, phase = "done" PROVE DependencyClosed /\ BuildClosed
  <2>1. stack = <<>> /\ DependsInv /\ BuildInv /\ ToSet(stack) = {}
    BY <1>1, ToSetProperties DEF StackInv, ClosedInv, Grown, Growing, Late
  <2>2. ASSUME NEW s \in ToSet(seeds) \ {Extra}, NEW p \in not_build[s]
        PROVE  SatisfiedIn(InnerOf(not_build, s), Query(FALSE, s, p), ClausesOf(s, p))
    <3>1. \A cl \in ToSet(ClausesOf(s, p)) : Met(FALSE, s, p, cl)
      BY <2>1 DEF DependsInv
    <3>. QED
      BY <2>1, <3>1, MetIsSatisfied
  <2>3. ASSUME NEW s \in ToSet(seeds), NEW src \in build_srcs[s]
        PROVE  \E p \in InnerOf(build, s) :
                 /\ packages[p].source = src
                 /\ SatisfiedIn(InnerOf(build, s), Query(TRUE, s, p), sources[src].builddeps)
    <3>1. PICK p \in DOMAIN packages : Built(s, p, src)
      BY <2>1 DEF BuildInv
    <3>2. SatisfiedIn(InnerOf(build, s), Query(TRUE, s, p), sources[src].builddeps)
      BY <2>1, <3>1, MetIsSatisfied DEF Built
    <3>3. p \in InnerOf(build, s)
      BY <3>1 DEF Built, Has, InnerOf
    <3>. QED
      BY <3>1, <3>2, <3>3 DEF Built
  <2>. QED
    BY <2>2, <2>3 DEF DependencyClosed, BuildClosed, Query, ClausesOf
<1>2. StackInv /\ ClosedInv => ListsClosed
  BY <1>1 DEF ListsClosed, DependencyClosed, BuildClosed
<1>. QED
  BY <1>2, StackAlways, ClosedAlways, PTL

-----------------------------------------------------------------------------
(* Why something is in a dependency list: it is named by what is in the    *)
(* lists itself, and comes to them too, unless rdepends/ does not follow   *)
(* what brings it. The calls in progress have such reasons as well.        *)
Arriving(p) ==
  p \in all \/ \E x \in ToSet(stack) : x.op = "package" /\ x.pkg = p /\ Accepted(x)
NamedByOne(p) ==
  \/ \E q \in all : packages[q].kind = packages[p].kind /\ NamedIn(packages[q].depends, p)
  \/ \E src \in all_srcs : packages[p].kind = "deb" /\ NamedIn(sources[src].builddeps, p)
Provided(p) == p \in UNION {ToSet(provides[v]) : v \in DOMAIN provides}
Untold(p) ==
  \/ Provided(p)
  \/ \E q \in all : NamedIn(packages[q].recommends, p)
  \/ \E t \in ToSet(seeds), from \in ToSet(seeds) \cup {Extra} : p \in Patterns("includes", t, from)
Caused(p) == (Arriving(p) /\ NamedByOne(p)) \/ Untold(p)

Includes(x) == x.pkgs \subseteq Patterns("includes", x.seed, x.from)
Sourced(x, cl) ==
  IF x.bd THEN \E src \in all_srcs : cl \in ToSet(sources[src].builddeps)
  ELSE /\ x.pkg \in all
       /\ cl \in ToSet(packages[x.pkg].depends) \cup ToSet(packages[x.pkg].recommends)
Reasoned(x) ==
  /\ x.op = "tree" => \A cl \in ToSet(x.clauses) : Sourced(x, cl)
  /\ x.op \in {"rescue", "rescuing"} => Includes(x)

CausesInv ==
  /\ phase = "plant" => \A s \in ToSet(seeds) : depends[s] = {}
  /\ phase \in Grown =>
       /\ \A s \in ToSet(seeds) \ {Extra} : \A p \in depends[s] \cup build_depends[s] : Caused(p)
       /\ \A x \in ToSet(stack) : Reasoned(x)

(* A step of a call takes no cause away.                                   *)
LEMMA CallGrows ==
  ASSUME Basics, CallStep
  PROVE  all \subseteq all' /\ all_srcs \subseteq all_srcs'
<1>1. Joins
  BY CalledBasics
<1>. QED
  BY <1>1 DEF Joins, PackageJoins, ASourceJoins, SourceJoins, DependsJoin, NothingJoins, addedVars,
              sourceVars

LEMMA ArrivingStays ==
  ASSUME Basics, CallStep, NEW p, Arriving(p)
  PROVE  Arriving(p)'
<1>1. Joins /\ phase \in Growing /\ stack # <<>>
      /\ UNCHANGED <<pruned, options, names, inherit, structure>>
  BY CalledBasics
<1>2. CASE p \in all
  BY <1>2, CallGrows DEF Arriving
<1>3. ASSUME NEW x \in ToSet(stack), x.op = "package", x.pkg = p, Accepted(x) PROVE Arriving(p)'
  <2>1. x \in ToSet(stack') \/ x = call
    <3>1. \E calls \in Seq(CallSet) : stack' = calls \o Tail(stack)
      BY CallPushes DEF Basics, Pushes
    <3>. QED
      BY <1>1, <3>1, InItsPlace DEF Basics
  <2>2. CASE x = call
    <3>1. PackageJoins
      BY <1>1, <1>3, <2>2 DEF Joins, ASourceJoins, SourceJoins, DependsJoin, NothingJoins
    <3>. QED
      BY <1>3, <2>2, <3>1 DEF PackageJoins, Arriving
  <2>3. CASE x \in ToSet(stack')
    <3>1. Accepted(x)'
      BY <1>1, <1>3, AcceptedStays
    <3>. QED
      BY <1>3, <2>3, <3>1 DEF Arriving
  <2>. QED
    BY <2>1, <2>2, <2>3
<1>. QED
  BY <1>2, <1>3 DEF Arriving

LEMMA CausedStays ==
  ASSUME Basics, CallStep, NEW p, Caused(p)
  PROVE  Caused(p)'
<1>1. /\ UNCHANGED <<packages, sources, provides, options, seeds>>
      /\ all \subseteq all' /\ all_srcs \subseteq all_srcs'
  BY CalledBasics, CallGrows
<1>2. NamedByOne(p) => NamedByOne(p)'
  BY <1>1 DEF NamedByOne
<1>3. Untold(p) => Untold(p)'
  BY <1>1 DEF Untold, Provided, Patterns
<1>4. Arriving(p) => Arriving(p)'
  BY ArrivingStays
<1>. QED
  BY <1>2, <1>3, <1>4 DEF Caused

LEMMA ReasonedStays ==
  ASSUME Basics, CallStep, NEW x, Reasoned(x)
  PROVE  Reasoned(x)'
<1>1. /\ UNCHANGED <<packages, sources, options>>
      /\ all \subseteq all' /\ all_srcs \subseteq all_srcs'
  BY CalledBasics, CallGrows
<1>2. \A cl : Sourced(x, cl) => Sourced(x, cl)'
  BY <1>1 DEF Sourced
<1>3. Includes(x) => Includes(x)'
  BY <1>1 DEF Includes, Patterns
<1>. QED
  BY <1>2, <1>3 DEF Reasoned

(* What satisfies a dependency is what it names, or provides that.         *)
LEMMA NamedOrProvided ==
  ASSUME ArchiveInv, NEW c, NEW dep, NEW p \in ToSet(VirtualFirst(c, dep))
  PROVE  allowedDependency(c, p) /\ (p = dep.name \/ Provided(p))
<1>1. allowedDependency(c, p)
  BY SatisfyingTyped
<1>2. CASE AsVirtual(c, dep)
  <2>1. dep.name \in DOMAIN provides /\ provides[dep.name] \in Seq(DOMAIN packages)
    BY <1>2 DEF AsVirtual, ArchiveInv, ProvidersOf
  <2>2. p \in ToSet(provides[dep.name])
    <3>1. p \in ToSet(Providers(c, dep))
      BY <1>2 DEF VirtualFirst
    <3>. QED
      BY <2>1, <3>1, KeepProperties DEF Providers
  <2>. QED
    BY <1>1, <2>1, <2>2 DEF Provided
<1>3. CASE ~AsVirtual(c, dep)
  <2>1. VirtualFirst(c, dep) = <<dep.name>> \/ VirtualFirst(c, dep) = <<>>
    BY <1>3 DEF VirtualFirst
  <2>. QED
    BY <1>1, <2>1, ToSetProperties
<1>. QED
  BY <1>2, <1>3

LEMMA NamedIs ==
  ASSUME NEW clauses, NEW cl \in ToSet(clauses), NEW dep \in ToSet(cl)
  PROVE  NamedIn(clauses, dep.name)
BY DEF NamedIn, ToSet

(* What a tree adds is named by what the tree is of.                       *)
LEMMA AddedIsCaused ==
  ASSUME ArchiveInv, NEW c, NEW cl, Sourced(c, cl), NEW dep \in ToSet(cl),
         NEW p \in ToSet(VirtualFirst(c, dep))
  PROVE  NamedByOne(p) \/ Untold(p)
<1>1. allowedDependency(c, p) /\ (p = dep.name \/ Provided(p))
  BY NamedOrProvided
<1>2. CASE p = dep.name /\ c.bd
  <2>1. PICK src \in all_srcs : cl \in ToSet(sources[src].builddeps)
    BY <1>2 DEF Sourced
  <2>2. NamedIn(sources[src].builddeps, p) /\ packages[p].kind = "deb"
    BY <1>1, <1>2, <2>1, NamedIs DEF allowedDependency
  <2>. QED
    BY <2>2 DEF NamedByOne
<1>3. CASE p = dep.name /\ ~c.bd
  <2>1. c.pkg \in all /\ packages[p].kind = packages[c.pkg].kind
    BY <1>1, <1>3 DEF Sourced, allowedDependency
  <2>2. CASE cl \in ToSet(packages[c.pkg].depends)
    <3>1. NamedIn(packages[c.pkg].depends, p)
      BY <1>3, <2>2, NamedIs
    <3>. QED
      BY <2>1, <3>1 DEF NamedByOne
  <2>3. CASE cl \in ToSet(packages[c.pkg].recommends)
    <3>1. NamedIn(packages[c.pkg].recommends, p)
      BY <1>3, <2>3, NamedIs
    <3>. QED
      BY <2>1, <3>1 DEF Untold
  <2>. QED
    BY <1>3, <2>2, <2>3 DEF Sourced
<1>. QED
  BY <1>1, <1>2, <1>3 DEF Untold

(* The calls that a step puts in the place of another have their reasons.  *)
LEMMA SameReason ==
  ASSUME NEW c, c.op = "tree", Reasoned(c), NEW x, SameTree(x, c),
         ToSet(x.clauses) \subseteq ToSet(c.clauses)
  PROVE  Reasoned(x)
<1>1. x.op = "tree" /\ x.bd = c.bd /\ x.pkg = c.pkg
  BY DEF SameTree
<1>2. \A cl \in ToSet(c.clauses) : Sourced(c, cl)
  BY DEF Reasoned
<1>3. \A cl \in ToSet(x.clauses) : Sourced(x, cl)
  BY <1>1, <1>2 DEF Sourced
<1>. QED
  BY <1>1, <1>3 DEF Reasoned

LEMMA TreeReasons ==
  ASSUME ArchiveInv, StackInv, NEW c, c = call, Refused(c), Reasoned(c),
         checkSatisfied \/ promoteDependency \/ newDependency,
         NEW y \in ToSet(stack')
  PROVE  y \in ToSet(stack) \/ Reasoned(y)
<1>. DEFINE P == DOMAIN packages
<1>1. c \in TreeCalls(Current, P) /\ c.op = "tree" /\ TreeTurns(c)
  BY TreeTurn
<1>2. phase \in Growing /\ stack # <<>> /\ c \in CallSet
  <2>1. Running("tree")
    BY DEF checkSatisfied, promoteDependency, newDependency
  <2>. QED
    BY <2>1, HeadCall
<1>3. ASSUME NEW xs, Rest(xs, c, Current, P), NEW x \in ToSet(xs) PROVE Reasoned(x)
  <2>1. SameTree(x, c) /\ ToSet(x.clauses) \subseteq ToSet(c.clauses)
    <3>1. PICK T : xs \in Seq(T)
      BY <1>3 DEF Rest
    <3>2. PICK i \in 1..Len(xs) : x = xs[i]
      BY <1>3, <3>1 DEF ToSet
    <3>. QED
      BY <1>3, <3>2 DEF Rest
  <2>. QED
    BY <1>1, <2>1, SameReason
<1>4. ASSUME NEW xs, OneFurther(xs, c, Current, P), NEW x \in ToSet(xs) PROVE Reasoned(x)
  <2>1. PICK z \in TreeCalls(Current, P) : xs = <<z>> /\ SameTree(z, c) /\ z.clauses = c.clauses
    BY <1>4 DEF OneFurther
  <2>2. x = z
    BY <1>4, <2>1, Single
  <2>. QED
    BY <1>1, <2>1, <2>2, SameReason
<1>5. ASSUME NEW xs, Rest(xs, c, Current, P) \/ OneFurther(xs, c, Current, P),
             stack' = xs \o Tail(stack)
      PROVE  y \in ToSet(stack) \/ Reasoned(y)
  <2>1. xs \in Seq(CallSet)
    BY <1>1, <1>2, <1>5, TreeCallsFit
  <2>2. y \in ToSet(xs) \/ y \in ToSet(stack)
    BY <1>2, <1>5, <2>1, InItsPlace
  <2>. QED
    BY <1>3, <1>4, <1>5, <2>2
<1>6. CASE stack' = NextAlternative(c) \o Tail(stack)
  BY <1>1, <1>5, <1>6, NextAlternativeIs
<1>7. CASE stack' = NextClause(c) \o Tail(stack)
  BY <1>1, <1>5, <1>7, NextClauseIs
<1>8. CASE \E dep \in ToSet(c.clauses[1]) : AddsFor(c, dep)
  <2>1. PICK W, pk, rest : /\ stack' = (pk \o rest) \o Tail(stack)
                           /\ PackagesOf(pk, c, W, Current, P) /\ Rest(rest, c, Current, P)
    BY <1>8 DEF AddsFor, Adding
  <2>. DEFINE C == CallSet
  <2>2. pk \in Seq(C) /\ rest \in Seq(C)
    BY <1>1, <1>2, <2>1, TreeCallsFit, PackageCallsFit
  <2>3. pk \o rest \in Seq(C) /\ ToSet(pk \o rest) = ToSet(pk) \cup ToSet(rest)
    <3>. HIDE DEF C
    <3>. QED
      BY <2>2, ConcatProperties, ToSetConcat
  <2>4. y \in ToSet(pk \o rest) \/ y \in ToSet(stack)
    BY <1>2, <2>1, <2>3, InItsPlace
  <2>5. y \in ToSet(pk) => Reasoned(y)
    BY <2>1 DEF PackagesOf, Reasoned
  <2>. QED
    BY <1>3, <2>1, <2>3, <2>4, <2>5
<1>. QED
  BY <1>1, <1>6, <1>7, <1>8 DEF TreeTurns

(* A call or two in the place of the one that ran.                         *)
LEMMA OneInItsPlace ==
  ASSUME StackInv, phase \in Growing, stack # <<>>, NEW x, stack' = <<x>> \o Tail(stack),
         NEW y \in ToSet(stack')
  PROVE  y \in ToSet(stack) \/ y = x
<1>. DEFINE C == CallSet \cup {x}
            r == stack'
<1>1. stack \in Seq(C) /\ <<x>> \in Seq(C) /\ r = <<x>> \o Tail(stack)
  BY DEF StackInv
<1>3. ToSet(<<x>>) = {x}
  BY Single
<1>2. y \in ToSet(r)
  OBVIOUS
<1>. HIDE DEF C, r
<1>. QED
  BY <1>1, <1>2, <1>3, PushedSets

LEMMA TwoInItsPlace ==
  ASSUME StackInv, phase \in Growing, stack # <<>>, NEW w, NEW x,
         stack' = <<w, x>> \o Tail(stack), NEW y \in ToSet(stack')
  PROVE  y \in ToSet(stack) \/ y \in {w, x}
<1>. DEFINE C == CallSet \cup {w, x}
            r == stack'
            two == <<w, x>>
<1>1. /\ stack \in Seq(C) /\ two \in Seq(C) /\ r = two \o Tail(stack)
      /\ Len(two) = 2 /\ two[1] = w /\ two[2] = x
  BY DEF StackInv
<1>2. y \in ToSet(r)
  OBVIOUS
<1>. HIDE DEF C, r, two
<1>3. ToSet(two) = {w, x}
  BY <1>1 DEF ToSet
<1>. QED
  BY <1>1, <1>2, <1>3, PushedSets

LEMMA RescueReasons ==
  ASSUME StackInv, NEW c, c = call, Reasoned(c), startRescue \/ rescueSource \/ rescuePackage,
         NEW y \in ToSet(stack')
  PROVE  y \in ToSet(stack) \/ Reasoned(y)
<1>. DEFINE P == DOMAIN packages
            Q == DOMAIN sources
            F == ToSet(seeds) \cup {Extra}
            R == RescueCalls(Current, P, Q, F)
<1>1. c \in CallSet /\ c.op \in {"rescue", "rescuing"} /\ phase \in Growing /\ stack # <<>>
  BY HeadCall DEF startRescue, rescueSource, rescuePackage
<1>2. c \in R /\ Includes(c)
  BY <1>1, CallKinds DEF CallSet, Reasoned
<1>3. ASSUME NEW x, x.op = "rescuing", x.pkgs \subseteq Patterns("includes", c.seed, c.from),
             x.seed = c.seed, x.from = c.from
      PROVE  Reasoned(x)
  BY <1>3 DEF Reasoned, Includes
<1>4. CASE startRescue
  <2>1. PICK srcs : stack' = <<[c EXCEPT !.op = "rescuing", !.srcs = srcs]>> \o Tail(stack)
    BY <1>4 DEF startRescue, Calling
  <2>2. PICK x : x = [c EXCEPT !.op = "rescuing", !.srcs = srcs]
    OBVIOUS
  <2>3. x.op = "rescuing" /\ x.pkgs = c.pkgs /\ x.seed = c.seed /\ x.from = c.from
    BY <1>2, <2>2 DEF RescueCalls
  <2>4. Reasoned(x)
    BY <1>2, <1>3, <2>3 DEF Includes
  <2>. QED
    BY <1>1, <2>1, <2>2, <2>4, OneInItsPlace
<1>5. CASE rescueSource
  <2>1. CASE c.srcs = {}
    <3>1. stack' = Tail(stack)
      BY <1>5, <2>1 DEF rescueSource, Return
    <3>2. PICK t \in Seq(CallSet) : t = Tail(stack)
      BY <1>1, InnermostCall DEF StackInv
    <3>3. stack' = <<>> \o Tail(stack) /\ <<>> \in Seq(CallSet) /\ ToSet(<<>>) = {}
      BY <3>1, <3>2, ToSetProperties
    <3>. QED
      BY <1>1, <3>3, InItsPlace
  <2>2. CASE c.srcs # {}
    <3>1. PICK src, included :
            /\ included \subseteq Patterns("includes", c.seed, c.from)
            /\ stack' = <<[c EXCEPT !.srcs = @ \ {src}, !.pkgs = included]>> \o Tail(stack)
      BY <1>5, <2>2 DEF rescueSource, Calling
    <3>2. PICK x : x = [c EXCEPT !.srcs = @ \ {src}, !.pkgs = included]
      OBVIOUS
    <3>3. c.op = "rescuing"
      BY <1>5, HeadCall DEF rescueSource
    <3>4. x.op = "rescuing" /\ x.pkgs = included /\ x.seed = c.seed /\ x.from = c.from
      BY <1>2, <3>2, <3>3 DEF RescueCalls
    <3>5. Reasoned(x)
      BY <1>3, <3>1, <3>4
    <3>. QED
      BY <1>1, <3>1, <3>2, <3>5, OneInItsPlace
  <2>. QED
    BY <2>1, <2>2
<1>6. CASE rescuePackage
  <2>1. PICK p \in c.pkgs :
          \/ stack' = <<[c EXCEPT !.pkgs = @ \ {p}]>> \o Tail(stack)
          \/ stack' = <<PackageCall(c.seed, p, FALSE, c.tree, FALSE),
                        [c EXCEPT !.pkgs = @ \ {p}]>> \o Tail(stack)
    BY <1>6 DEF rescuePackage, Calling
  <2>2. PICK x : x = [c EXCEPT !.pkgs = @ \ {p}]
    OBVIOUS
  <2>3. PICK w : w = PackageCall(c.seed, p, FALSE, c.tree, FALSE)
    OBVIOUS
  <2>4. c.op = "rescuing"
    BY <1>6, HeadCall DEF rescuePackage
  <2>5. x.op = "rescuing" /\ x.pkgs \subseteq c.pkgs /\ x.seed = c.seed /\ x.from = c.from
    BY <1>2, <2>2, <2>4 DEF RescueCalls
  <2>6. Reasoned(x)
    BY <1>2, <1>3, <2>5 DEF Includes
  <2>7. Reasoned(w)
    <3>1. w.op = "package"
      BY <2>3 DEF PackageCall
    <3>. QED
      BY <3>1 DEF Reasoned
  <2>8. CASE stack' = <<x>> \o Tail(stack)
    BY <1>1, <2>6, <2>8, OneInItsPlace
  <2>9. CASE stack' = <<w, x>> \o Tail(stack)
    <3>1. y \in ToSet(stack) \/ y \in {w, x}
      BY <1>1, <2>9, TwoInItsPlace
    <3>. QED
      BY <2>6, <2>7, <3>1
  <2>. QED
    BY <2>1, <2>2, <2>3, <2>8, <2>9
<1>. QED
  BY <1>4, <1>5, <1>6

LEMMA ClausesNamed ==
  ASSUME ArchiveInv, NEW s, NEW p \in DOMAIN packages, NEW cl \in ToSet(ClausesOf(s, p))
  PROVE  cl \in ToSet(packages[p].depends) \cup ToSet(packages[p].recommends)
<1>1. packages[p] \in BinarySection
  BY DEF ArchiveInv
<1>2. packages[p].depends \in Clauses /\ packages[p].recommends \in Clauses
  BY <1>1, Sections
<1>. DEFINE D == packages[p].depends
            R == packages[p].recommends
            T == Seq([name : STRING, rel : STRING, version : Nat])
<1>3. D \in Seq(T) /\ R \in Seq(T) /\ <<>> \in Seq(T)
  BY <1>2 DEF Clauses
<1>4. ClausesOf(s, p) = D \o R \/ ClausesOf(s, p) = D \o <<>>
  BY DEF ClausesOf
<1>. HIDE DEF D, R, T
<1>5. ToSet(D \o R) = ToSet(D) \cup ToSet(R) /\ ToSet(D \o <<>>) = ToSet(D) \cup ToSet(<<>>)
  BY <1>3, ToSetConcat
<1>. QED
  BY <1>4, <1>5, ToSetProperties DEF D, R

LEMMA PackageReasons ==
  ASSUME ArchiveInv, StackInv, refusePackage \/ addPackage \/ addSource, NEW y \in ToSet(stack')
  PROVE  y \in ToSet(stack) \/ Reasoned(y)'
<1>1. phase \in Growing /\ stack # <<>> /\ stack \in Seq(CallSet)
  BY HeadCall DEF refusePackage, addPackage, addSource
<1>2. ASSUME Return PROVE y \in ToSet(stack)
  <2>1. PICK t \in Seq(CallSet) : t = Tail(stack)
    BY <1>1, InnermostCall
  <2>2. stack' = <<>> \o Tail(stack) /\ <<>> \in Seq(CallSet) /\ ToSet(<<>>) = {}
    BY <1>2, <2>1, ToSetProperties DEF Return
  <2>. QED
    BY <1>1, <2>2, InItsPlace
<1>3. CASE addPackage
  <2>0. PICK c : c = call
    OBVIOUS
  <2>1. c \in PackageCalls(Current, DOMAIN packages)
    BY <1>3, <2>0, AddPackageIs
  <2>2. PICK calls \in Seq(CallSet) :
          /\ stack' = calls \o Tail(stack)
          /\ \A x \in ToSet(calls) :
               /\ x.op \in {"tree", "source"} /\ x.pkg = c.pkg
               /\ x.op = "tree" =>
                    x.bd = FALSE /\ ToSet(x.clauses) \subseteq ToSet(ClausesOf(c.seed, c.pkg))
    BY <1>3, <2>0, AddPackageIs
  <2>3. y \in ToSet(calls) \/ y \in ToSet(stack)
    BY <1>1, <2>2, InItsPlace
  <2>4. ASSUME y \in ToSet(calls), y.op = "tree", NEW cl \in ToSet(y.clauses)
        PROVE  Sourced(y, cl)'
    <3>1. c.pkg \in DOMAIN packages /\ c.pkg \in all' /\ packages' = packages
      BY <1>3, <2>0, <2>1, PackageFields DEF addPackage, archiveVars
    <3>2. ~y.bd /\ y.pkg = c.pkg /\ cl \in ToSet(ClausesOf(c.seed, c.pkg))
      BY <2>2, <2>4
    <3>3. cl \in ToSet(packages[c.pkg].depends) \cup ToSet(packages[c.pkg].recommends)
      BY <3>1, <3>2, ClausesNamed
    <3>. QED
      BY <3>1, <3>2, <3>3 DEF Sourced
  <2>5. y \in ToSet(calls) => Reasoned(y)'
    BY <2>2, <2>4 DEF Reasoned
  <2>. QED
    BY <2>3, <2>5
<1>4. CASE addSource
  <2>0. PICK c : c = call
    OBVIOUS
  <2>1. PICK calls \in Seq(CallSet) :
          /\ stack' = calls \o Tail(stack)
          /\ \A x \in ToSet(calls) :
               /\ BuildTree(c, x, Current, DOMAIN packages) /\ ~SourceIsHad(c)
               /\ x.clauses = sources[packages[c.pkg].source].builddeps
    BY <1>4, <2>0, AddSourceIs
  <2>2. y \in ToSet(calls) \/ y \in ToSet(stack)
    BY <1>1, <2>1, InItsPlace
  <2>3. ASSUME y \in ToSet(calls) PROVE Reasoned(y)'
    <3>1. /\ y.op = "tree" /\ y.bd = TRUE /\ ~SourceIsHad(c)
          /\ y.clauses = sources[packages[c.pkg].source].builddeps
      BY <2>1, <2>3 DEF BuildTree, TreeFor
    <3>2. packages[c.pkg].source \in all_srcs' /\ sources' = sources
      BY <1>4, <2>0, <3>1 DEF addSource, SourceIsHad, archiveVars
    <3>3. \A cl \in ToSet(y.clauses) : Sourced(y, cl)'
      BY <3>1, <3>2 DEF Sourced
    <3>. QED
      BY <3>1, <3>3 DEF Reasoned
  <2>. QED
    BY <2>2, <2>3
<1>. QED
  BY <1>2, <1>3, <1>4 DEF refusePackage

LEMMA CallReasons ==
  ASSUME Basics, ClosedInv, CallStep, \A x \in ToSet(stack) : Reasoned(x), NEW y \in ToSet(stack')
  PROVE  Reasoned(y)'
<1>1. PICK c : c = call
  OBVIOUS
<1>2. c \in ToSet(stack) /\ phase \in Growing
  BY <1>1, CalledBasics
<1>3. Reasoned(c) /\ (c.op = "tree" => Refused(c))
  BY <1>2 DEF ClosedInv, CallsInv, Grown
<1>4. CASE refusePackage \/ addPackage \/ addSource
  <2>1. y \in ToSet(stack) \/ Reasoned(y)'
    BY <1>4, PackageReasons DEF Basics
  <2>. QED
    BY <2>1, ReasonedStays
<1>5. CASE checkSatisfied \/ promoteDependency \/ newDependency
  <2>1. c.op = "tree"
    BY <1>1, <1>5, HeadCall DEF checkSatisfied, promoteDependency, newDependency, Basics
  <2>2. y \in ToSet(stack) \/ Reasoned(y)
    BY <1>1, <1>3, <1>5, <2>1, TreeReasons DEF Basics
  <2>. QED
    BY <2>2, ReasonedStays
<1>6. CASE startRescue \/ rescueSource \/ rescuePackage
  <2>1. y \in ToSet(stack) \/ Reasoned(y)
    BY <1>1, <1>3, <1>6, RescueReasons DEF Basics
  <2>. QED
    BY <2>1, ReasonedStays
<1>. QED
  BY <1>4, <1>5, <1>6 DEF CallStep

(* What a step adds to a dependency list has its cause.                    *)
LEMMA NamedStays ==
  ASSUME Basics, CallStep, NEW p, NamedByOne(p)
  PROVE  NamedByOne(p)'
<1>1. UNCHANGED <<packages, sources>> /\ all \subseteq all' /\ all_srcs \subseteq all_srcs'
  BY CalledBasics, CallGrows
<1>. QED
  BY <1>1 DEF NamedByOne

LEMMA TreeCauses ==
  ASSUME Basics, NEW c, c = call, Refused(c), Reasoned(c),
         checkSatisfied \/ promoteDependency \/ newDependency,
         NEW s \in ToSet(seeds) \ {Extra}, NEW p \in depends'[s] \cup build_depends'[s],
         p \notin depends[s] \cup build_depends[s]
  PROVE  Caused(p)'
<1>. DEFINE P == DOMAIN packages
<1>0. CallStep
  BY DEF CallStep
<1>1. c \in TreeCalls(Current, P) /\ c.op = "tree" /\ TreeTurns(c)
  BY TreeTurn DEF Basics
<1>2. /\ phase \in Growing /\ stack # <<>> /\ c \in CallSet /\ c.seed = Current
      /\ DOMAIN depends = ToSet(seeds) /\ DOMAIN build_depends = ToSet(seeds)
      /\ UNCHANGED <<pruned, options, names, inherit, structure>>
  BY <1>0, CalledBasics DEF SeedDomains
<1>3. PICK dep \in ToSet(c.clauses[1]) : AddsFor(c, dep)
  <2>1. ~UNCHANGED dependVars
    BY DEF dependVars
  <2>. QED
    BY <1>1, <2>1 DEF TreeTurns
<1>4. PICK pkgs \in Seq(P) :
        /\ ToSet(pkgs) \subseteq ToSet(VirtualFirst(c, dep))
        /\ Adding(c, White(c, pkgs), Current, P) /\ DependsGrow(c, White(c, pkgs))
  BY <1>3 DEF AddsFor
<1>5. s = c.seed /\ p \in White(c, pkgs)
  <2>1. PICK W : W = White(c, pkgs)
    OBVIOUS
  <2>2. \/ depends' = [depends EXCEPT ![c.seed] = @ \cup W] /\ UNCHANGED build_depends
        \/ build_depends' = [build_depends EXCEPT ![c.seed] = @ \cup W] /\ UNCHANGED depends
    BY <1>4, <2>1 DEF DependsGrow
  <2>. QED
    BY <1>2, <2>1, <2>2
<1>6. p \in ToSet(VirtualFirst(c, dep)) /\ Admits(c.seed, c.tree, p) /\ c.seed \notin pruned[p]
  BY <1>4, <1>5, SatisfyingTyped DEF White, allowedDependency, Basics
<1>7. c.second = c.tree
  <2>1. phase # "extras"
    BY <1>2, <1>5, CurrentHasGrown
  <2>2. Mode(c, phase)
    BY <1>2, CallKinds DEF CallSet
  <2>3. c.second \in BOOLEAN /\ c.tree \in BOOLEAN
    BY <1>1, TreeFields
  <2>. QED
    BY <1>1, <2>1, <2>2, <2>3 DEF Mode
<1>8. Arriving(p)'
  <2>1. PICK pk, rest : /\ stack' = (pk \o rest) \o Tail(stack)
                        /\ PackagesOf(pk, c, White(c, pkgs), Current, P)
                        /\ Rest(rest, c, Current, P)
    BY <1>4 DEF Adding
  <2>. DEFINE C == CallSet
  <2>2. pk \in Seq(C) /\ rest \in Seq(C)
    BY <1>1, <1>2, <2>1, TreeCallsFit, PackageCallsFit
  <2>3. pk \o rest \in Seq(C) /\ ToSet(pk \o rest) = ToSet(pk) \cup ToSet(rest)
    <3>. HIDE DEF C
    <3>. QED
      BY <2>2, ConcatProperties, ToSetConcat
  <2>4. ToSet(pk \o rest) \subseteq ToSet(stack')
    BY <1>2, <2>1, <2>3, InItsPlace DEF Basics
  <2>5. PICK x \in ToSet(pk) : x.pkg = p
    BY <1>5, <2>1 DEF PackagesOf
  <2>6. x.op = "package" /\ x.seed = c.seed /\ x.tree = c.tree /\ x \in ToSet(stack')
    BY <1>2, <1>7, <2>1, <2>3, <2>4, <2>5 DEF PackagesOf
  <2>7. Accepted(x)
    BY <1>6, <2>5, <2>6 DEF Accepted
  <2>8. Accepted(x)'
    BY <1>2, <2>7, AcceptedStays
  <2>. QED
    BY <2>5, <2>6, <2>8 DEF Arriving
<1>9. NamedByOne(p) \/ Untold(p)
  <2>1. c.clauses[1] \in ToSet(c.clauses)
    BY <1>1, TreeFields, ClausesParts
  <2>2. Sourced(c, c.clauses[1])
    BY <1>1, <2>1 DEF Reasoned
  <2>. QED
    BY <1>6, <2>2, AddedIsCaused DEF Basics
<1>10. CASE NamedByOne(p)
  BY <1>0, <1>8, <1>10, NamedStays DEF Caused
<1>11. CASE Untold(p)
  <2>1. Caused(p)
    BY <1>11 DEF Caused
  <2>. QED
    BY <1>0, <2>1, CausedStays
<1>. QED
  BY <1>9, <1>10, <1>11

LEMMA RescueCauses ==
  ASSUME Basics, NEW c, c = call, Reasoned(c), rescuePackage,
         NEW s \in ToSet(seeds) \ {Extra}, NEW p \in depends'[s] \cup build_depends'[s],
         p \notin depends[s] \cup build_depends[s]
  PROVE  Caused(p)'
<1>0. CallStep
  BY DEF CallStep
<1>1. /\ phase \in Growing /\ c.seed = Current /\ c \in CallSet /\ c.op = "rescuing"
      /\ DOMAIN depends = ToSet(seeds) /\ DOMAIN build_depends = ToSet(seeds)
  BY <1>0, CalledBasics, HeadCall DEF SeedDomains, rescuePackage, Basics
<1>2. c \in RescueCalls(Current, DOMAIN packages, DOMAIN sources, ToSet(seeds) \cup {Extra})
  BY <1>1, CallKinds DEF CallSet
<1>3. p \in c.pkgs
  <2>1. \/ UNCHANGED dependVars
        \/ \E q \in c.pkgs :
             \/ build_depends' = [build_depends EXCEPT ![c.seed] = @ \cup {q}] /\ UNCHANGED depends
             \/ depends' = [depends EXCEPT ![c.seed] = @ \cup {q}] /\ UNCHANGED build_depends
    BY DEF rescuePackage
  <2>. QED
    BY <1>1, <2>1 DEF dependVars
<1>4. p \in Patterns("includes", c.seed, c.from) /\ c.from \in ToSet(seeds) \cup {Extra}
  BY <1>1, <1>2, <1>3, RescueFields DEF Reasoned, Includes
<1>5. c.seed \in ToSet(seeds)
  BY <1>0, CalledBasics
<1>6. Caused(p)
  BY <1>4, <1>5 DEF Caused, Untold
<1>. QED
  BY <1>0, <1>6, CausedStays

LEMMA CallCauses ==
  ASSUME Basics, ClosedInv, CallStep, \A x \in ToSet(stack) : Reasoned(x),
         \A s \in ToSet(seeds) \ {Extra} : \A p \in depends[s] \cup build_depends[s] : Caused(p),
         NEW s \in ToSet(seeds) \ {Extra}, NEW p \in depends'[s] \cup build_depends'[s]
  PROVE  Caused(p)'
<1>1. PICK c : c = call
  OBVIOUS
<1>2. c \in ToSet(stack) /\ phase \in Growing
  BY <1>1, CalledBasics
<1>3. Reasoned(c) /\ (c.op = "tree" => Refused(c))
  BY <1>2 DEF ClosedInv, CallsInv, Grown
<1>4. CASE p \in depends[s] \cup build_depends[s]
  BY <1>4, CausedStays
<1>5. CASE p \notin depends[s] \cup build_depends[s]
  <2>1. CASE addPackage
    <3>1. PackageJoins /\ depends' = depends
      BY <2>1, PackageJoinsLists DEF Basics, addPackage
    <3>. QED
      BY <1>5, <3>1 DEF PackageJoins
  <2>2. CASE checkSatisfied \/ promoteDependency \/ newDependency
    <3>1. c.op = "tree"
      BY <1>1, <2>2, HeadCall DEF checkSatisfied, promoteDependency, newDependency, Basics
    <3>. QED
      BY <1>1, <1>3, <1>5, <2>2, <3>1, TreeCauses
  <2>3. CASE rescuePackage
    BY <1>1, <1>3, <1>5, <2>3, RescueCauses
  <2>4. CASE refusePackage \/ addSource \/ startRescue \/ rescueSource
    <3>1. UNCHANGED dependVars
      BY <2>4 DEF refusePackage, addSource, startRescue, rescueSource
    <3>. QED
      BY <1>5, <3>1 DEF dependVars
  <2>. QED
    BY <2>1, <2>2, <2>3, <2>4 DEF CallStep
<1>. QED
  BY <1>4, <1>5

(* The other steps: what has a cause keeps it.                             *)
NoPackages == \A x \in ToSet(stack) : x.op # "package"
Bundle == <<stack, pruned, options, names, inherit, structure>>

LEMMA CauseCarried ==
  ASSUME UNCHANGED <<packages, sources, provides, all, all_srcs>>,
         ToSet(seeds) \subseteq ToSet(seeds'),
         \A t \in ToSet(seeds) : \A from :
           Patterns("includes", t, from)' = Patterns("includes", t, from),
         NoPackages \/ UNCHANGED Bundle,
         NEW p, Caused(p)
  PROVE  Caused(p)'
<1>1. NamedByOne(p) => NamedByOne(p)'
  BY DEF NamedByOne
<1>2. ASSUME Arriving(p) PROVE Arriving(p)'
  <2>1. CASE p \in all
    BY <2>1 DEF Arriving
  <2>2. ASSUME NEW x \in ToSet(stack), x.op = "package", x.pkg = p, Accepted(x) PROVE Arriving(p)'
    <3>1. UNCHANGED Bundle
      BY <2>2 DEF NoPackages
    <3>2. Accepted(x)' /\ x \in ToSet(stack')
      BY <2>2, <3>1, AcceptedStays DEF Bundle
    <3>. QED
      BY <2>2, <3>2 DEF Arriving
  <2>. QED
    BY <1>2, <2>1, <2>2 DEF Arriving
<1>3. ASSUME Untold(p) PROVE Untold(p)'
  <2>1. Provided(p) => Provided(p)'
    BY DEF Provided
  <2>2. (\E q \in all : NamedIn(packages[q].recommends, p))
          => (\E q \in all : NamedIn(packages[q].recommends, p))'
    OBVIOUS
  <2>3. ASSUME NEW t \in ToSet(seeds), NEW from \in ToSet(seeds) \cup {Extra},
               p \in Patterns("includes", t, from)
        PROVE  Untold(p)'
    <3>1. p \in Patterns("includes", t, from)'
      BY <2>3
    <3>2. t \in ToSet(seeds)' /\ from \in ToSet(seeds)' \cup {Extra}
      OBVIOUS
    <3>. QED
      BY <3>1, <3>2 DEF Untold
  <2>. QED
    BY <1>3, <2>1, <2>2, <2>3 DEF Untold
<1>. QED
  BY <1>1, <1>2, <1>3 DEF Caused

LEMMA CausesCarried ==
  ASSUME UNCHANGED <<packages, sources, provides, options, all, all_srcs, seeds>>,
         UNCHANGED dependVars, NoPackages \/ UNCHANGED Bundle,
         CausesInv, phase \in Grown
  PROVE  \A s \in ToSet(seeds') \ {Extra} : \A p \in depends'[s] \cup build_depends'[s] : Caused(p)'
<1>1. \A t \in ToSet(seeds) : \A from :
        Patterns("includes", t, from)' = Patterns("includes", t, from)
  BY DEF Patterns
<1>2. \A p : Caused(p) => Caused(p)'
  BY <1>1, CauseCarried
<1>. QED
  BY <1>2 DEF CausesInv, dependVars

LEMMA FreshReasons ==
  ASSUME NEW x, x.op \notin {"tree", "rescue", "rescuing"} \/ (x.op = "rescue" /\ x.pkgs = {})
  PROVE  Reasoned(x)'
BY DEF Reasoned, Includes

LEMMA PlantCausesNone ==
  ASSUME ParseInv, PlantInv, SeedsInv, StackInv, CausesInv,
         plantSeed \/ readLine \/ plantPackage \/ plantHints
  PROVE  CausesInv'
<1>1. CASE readLine \/ plantPackage \/ plantHints
  <2>1. phase' = phase /\ seeds' = seeds /\ depends' = depends /\ Running("text")
    BY <1>1 DEF readLine, plantPackage, plantHints, plantVars, dependVars
  <2>2. phase = "plant"
    BY <2>1, TextIsPlanted
  <2>. QED
    BY <2>1, <2>2 DEF CausesInv, Grown, Growing, Late
<1>2. CASE plantSeed
  <2>1. phase = "plant" /\ ~addExtras
    BY <1>2 DEF plantSeed, addExtras
  <2>2. CASE NothingPlanted
    BY <2>2 DEF NothingPlanted, CausesInv, Grown, Growing, Late
  <2>3. ASSUME NEW s, Planted(s), phase' = phase PROVE CausesInv'
    <3>1. \A t \in ToSet(seeds') : depends'[t] = {}
      BY <2>1, <2>3 DEF Planted, NewSeed, CausesInv
    <3>. QED
      BY <2>1, <2>3, <3>1 DEF CausesInv, Grown, Growing, Late
  <2>. QED
    BY <1>2, <2>1, <2>2, <2>3, NewSeedStep
<1>. QED
  BY <1>1, <1>2

LEMMA PruneCauses ==
  ASSUME SeedsInv, StackInv, PlaceInv, CausesInv, prune
  PROVE  CausesInv'
<1>1. /\ phase = "plant" /\ phase' = "grow" /\ stack' = <<>> /\ seeds' = seeds
      /\ depends' = depends /\ build_depends' = build_depends
  BY DEF prune, dependVars
<1>2. \A i \in 1..Len(seeds) : Blank(seeds[i])
  BY <1>1, BlankWhilePlanting
<1>3. \A s \in ToSet(seeds) : depends[s] = {} /\ build_depends[s] = {}
  <2>1. seeds \in Seq(SeedName)
    BY DEF SeedsInv
  <2>2. \A s \in ToSet(seeds) : \E i \in 1..Len(seeds) : s = seeds[i]
    BY <2>1 DEF ToSet
  <2>. QED
    BY <1>1, <1>2, <2>2 DEF Blank, CausesInv
<1>4. ToSet(stack') = {}
  BY <1>1, ToSetProperties
<1>. QED
  BY <1>1, <1>3, <1>4 DEF CausesInv

LEMMA GrowCauses ==
  ASSUME Basics, CausesInv, growSeed \/ rescueForBuild
  PROVE  CausesInv'
<1>1. /\ phase = "grow" /\ phase' \in {"grow", "grown"} /\ stack = <<>>
      /\ UNCHANGED <<packages, sources, provides, options, all, all_srcs, seeds>>
      /\ UNCHANGED dependVars
  BY DEF growSeed, rescueForBuild, archiveVars, plantVars, addedVars, sourceVars
<1>2. phase \in Grown /\ NoPackages
  BY <1>1, ToSetProperties DEF Grown, Growing, NoPackages
<1>3. ASSUME NEW x \in ToSet(stack') PROVE Reasoned(x)'
  <2>1. CASE growSeed
    <3>1. PICK pk, rs : /\ stack' = pk \o rs /\ pk \in Seq(CallSet') /\ rs \in Seq(CallSet')
                        /\ \A y \in ToSet(pk) : \E p : Fresh(y, Current', p)
                        /\ \A y \in ToSet(rs) : y.op = "rescue" /\ y.pkgs = {}
      BY <2>1, GrowSeedIs DEF Basics
    <3>. DEFINE C == CallSet'
    <3>2. pk \in Seq(C) /\ rs \in Seq(C)
      BY <3>1
    <3>. HIDE DEF C
    <3>3. ToSet(pk \o rs) = ToSet(pk) \cup ToSet(rs)
      BY <3>2, ToSetConcat
    <3>4. x.op = "package" \/ (x.op = "rescue" /\ x.pkgs = {})
      BY <1>3, <3>1, <3>3 DEF Fresh
    <3>. QED
      BY <3>4, FreshReasons
  <2>2. CASE rescueForBuild
    <3>1. PICK y \in CallSet' : stack' = <<y>> /\ y.op = "rescue" /\ y.pkgs = {}
      BY <2>2, RescueForBuildStack DEF Basics
    <3>2. x = y
      BY <1>3, <3>1, Single
    <3>. QED
      BY <3>1, <3>2, FreshReasons
  <2>. QED
    BY <2>1, <2>2
<1>4. \A s \in ToSet(seeds') \ {Extra} : \A p \in depends'[s] \cup build_depends'[s] : Caused(p)'
  BY <1>1, <1>2, CausesCarried
<1>. QED
  BY <1>1, <1>3, <1>4 DEF CausesInv

LEMMA ExtrasCauses ==
  ASSUME Basics, CausesInv, addExtras
  PROVE  CausesInv'
<1>. DEFINE S == ToSet(seeds)
<1>1. /\ UNCHANGED <<archiveVars, pruned, structure, grown>> /\ Planted(Extra)
      /\ phase = "grown" /\ phase' = "extras" /\ stack = <<>>
  <2>1. phase = "grown" /\ phase' = "extras" /\ stack = <<>> /\ ~plantSeed
    BY DEF addExtras, plantSeed
  <2>. QED
    BY <2>1, NewSeedStep DEF Basics
<1>2. /\ NewSeed(Extra) /\ Extra \notin S /\ ToSet(seeds') = S \cup {Extra}
      /\ DOMAIN options = S /\ DOMAIN options' = ToSet(seeds')
  <2>1. SeedDomains(ToSet(seeds))'
    BY <1>1, NewSeedIs DEF Planted, Basics
  <2>. QED
    BY <1>1, <2>1 DEF Planted, Basics, SeedsInv, SeedDomains
<1>3. ASSUME NEW t \in S
      PROVE  /\ depends'[t] = depends[t] /\ build_depends'[t] = build_depends[t]
             /\ \A from : Patterns("includes", t, from)' = Patterns("includes", t, from)
  <2>1. /\ t # Extra /\ options'[t] = options[t]
        /\ depends'[t] = depends[t] /\ build_depends'[t] = build_depends[t]
    BY <1>2 DEF NewSeed
  <2>. QED
    BY <1>2, <2>1 DEF Patterns
<1>4. UNCHANGED <<packages, sources, provides, all, all_srcs>> /\ NoPackages
  BY <1>1, <1>2, ToSetProperties DEF archiveVars, NewSeed, NoPackages
<1>5. ASSUME NEW p, Caused(p) PROVE Caused(p)'
  BY <1>2, <1>3, <1>4, <1>5, CauseCarried
<1>6. \A s \in ToSet(seeds') \ {Extra} : \A p \in depends'[s] \cup build_depends'[s] : Caused(p)'
  BY <1>1, <1>2, <1>3, <1>5 DEF CausesInv, Grown, Growing
<1>7. ASSUME NEW x \in ToSet(stack') PROVE Reasoned(x)'
  <2>1. PICK y \in CallSet' : stack' = <<y>> /\ y.op = "pass"
    BY AddExtrasStack DEF Basics
  <2>2. x = y
    BY <1>7, <2>1, Single
  <2>. QED
    BY <2>1, <2>2, FreshReasons
<1>. QED
  BY <1>1, <1>6, <1>7 DEF CausesInv

LEMMA PassCauses ==
  ASSUME Basics, CausesInv, extraPass \/ extraBinary
  PROVE  CausesInv'
<1>1. /\ UNCHANGED <<packages, sources, provides, options, all, all_srcs, seeds, phase>>
      /\ UNCHANGED dependVars /\ (Running("pass") \/ Running("binaries"))
  BY DEF extraPass, extraBinary, archiveVars, plantVars, addedVars, sourceVars
<1>2. phase = "extras" /\ \A x \in ToSet(stack) : x.op \in {"pass", "binaries"}
  <2>1. CASE Running("pass")
    <3>1. phase = "extras" /\ Len(stack) = 1 /\ stack \in Seq(CallSet) /\ stack[1].op = "pass"
      BY <2>1, PassAlone DEF Basics, PassCalls
    <3>. QED
      BY <3>1 DEF ToSet
  <2>2. CASE Running("binaries")
    <3>1. /\ phase = "extras" /\ Len(stack) = 2 /\ stack \in Seq(CallSet)
          /\ stack[1].op = "binaries" /\ stack[2].op = "pass"
      BY <2>2, BinariesAbovePass DEF Basics, PassCalls, BinaryCalls
    <3>. QED
      BY <3>1 DEF ToSet
  <2>. QED
    BY <1>1, <2>1, <2>2
<1>3. phase \in Grown /\ NoPackages
  BY <1>2 DEF Grown, Growing, NoPackages
<1>4. \A x \in ToSet(stack') : x.op \in {"pass", "binaries", "package"}
  BY <1>2, ExtraPassStack, ExtraBinaryIs DEF Basics
<1>5. \A x \in ToSet(stack') : Reasoned(x)'
  BY <1>4, FreshReasons
<1>6. \A s \in ToSet(seeds') \ {Extra} : \A p \in depends'[s] \cup build_depends'[s] : Caused(p)'
  BY <1>1, <1>3, CausesCarried
<1>. QED
  BY <1>1, <1>2, <1>5, <1>6 DEF CausesInv

LEMMA QuietCauses ==
  ASSUME SeedsInv, CausesInv, Quiet
  PROVE  CausesInv'
<1>1. UNCHANGED <<seeds, options, all, all_srcs, stack, depends, build_depends>>
  BY DEF Quiet, addedVars, dependVars, sourceVars
<1>2. phase' = "plant" => \A s \in ToSet(seeds') : depends'[s] = {}
  <2>1. CASE phase = "plant"
    BY <1>1, <2>1 DEF CausesInv
  <2>2. CASE phase \in Before
    BY <1>1, <2>2, ToSetProperties DEF SeedsInv
  <2>. QED
    BY <2>1, <2>2 DEF Quiet, Told
<1>3. ASSUME phase' \in Grown
      PROVE  /\ phase \in Grown /\ UNCHANGED <<packages, sources, provides>> /\ UNCHANGED Bundle
  BY <1>1, <1>3 DEF Quiet, Grown, Growing, Late, Before, archiveVars, Bundle, Told
<1>4. ASSUME phase' \in Grown
      PROVE  \A s \in ToSet(seeds') \ {Extra} : \A p \in depends'[s] \cup build_depends'[s] : Caused(p)'
  BY <1>1, <1>3, <1>4, CausesCarried DEF dependVars
<1>5. ASSUME phase' \in Grown, NEW x \in ToSet(stack') PROVE Reasoned(x)'
  <2>1. Reasoned(x)
    BY <1>1, <1>3, <1>5 DEF CausesInv
  <2>2. \A cl : Sourced(x, cl) => Sourced(x, cl)'
    BY <1>1, <1>3, <1>5 DEF Sourced
  <2>3. Includes(x) => Includes(x)'
    BY <1>1 DEF Includes, Patterns
  <2>. QED
    BY <2>1, <2>2, <2>3 DEF Reasoned
<1>. QED
  BY <1>2, <1>4, <1>5 DEF CausesInv

LEMMA CausesKept ==
  ASSUME Basics, PlaceInv, ClosedInv, CausesInv, [RdependsNext]_rdependsAllVars
  PROVE  CausesInv'
<1>1. CASE CallStep
  <2>1. phase \in Growing /\ phase' = phase /\ seeds' = seeds
    BY <1>1, CalledBasics
  <2>2. phase \in Grown /\ phase' # "plant"
    BY <2>1 DEF Grown, Growing
  <2>3. \A y \in ToSet(stack') : Reasoned(y)'
    BY <1>1, <2>2, CallReasons DEF CausesInv
  <2>4. \A s \in ToSet(seeds) \ {Extra} : \A p \in depends'[s] \cup build_depends'[s] : Caused(p)'
    BY <1>1, <2>2, CallCauses DEF CausesInv
  <2>. QED
    BY <2>1, <2>2, <2>3, <2>4 DEF CausesInv
<1>. QED
  BY <1>1, Steps, PlantCausesNone, PruneCauses, GrowCauses, ExtrasCauses, PassCauses, QuietCauses
     DEF Basics

LEMMA CausesAlways == RdependsSpec => []CausesInv
<1>1. RdependsInit => CausesInv
  <2>. SUFFICES ASSUME Init PROVE CausesInv
    BY DEF RdependsInit
  <2>1. phase \in {"parse", "archive"}
    BY DEF Init
  <2>. QED
    BY <2>1 DEF CausesInv, Grown, Growing, Late
<1>2. /\ ParseInv /\ PlantInv /\ SeedsInv /\ ArchiveInv /\ StackInv /\ ListsInv /\ TreesInv
      /\ PlaceInv /\ ClosedInv /\ CausesInv /\ [RdependsNext]_rdependsAllVars
      => CausesInv'
  BY CausesKept DEF Basics, PlaceInv
<1>. QED
  BY <1>1, <1>2, ParseAlways, PlantAlways, SeedsAlways, ArchiveAlways, StackAlways, TreesAlways,
     PlaceAlways, ClosedAlways, PTL DEF RdependsSpec

-----------------------------------------------------------------------------
(* The files under rdepends/: what they are written from is complete, and  *)
(* nothing of it changes while they are written.                           *)
ReverseInv ==
  /\ IsFiniteSet(all)
  /\ phase \in Told => reverse = [p \in all |-> ReverseOf(p)]
  /\ phase # "written" => reading = <<>> /\ done = {} /\ file = {}

LEMMA SeedsAreDone ==
  ASSUME StackInv, Next
  PROVE  phase \notin Told /\ phase' \notin Told
<1>. USE DEF Told
<1>1. stack # <<>> => phase \in Growing \cup {"plant"}
  BY DEF StackInv
<1>2. CASE parseArchive
  BY <1>2 DEF parseArchive
<1>3. CASE sortStructure
  BY <1>3 DEF sortStructure, StructureNext, IncludeBranch, FinishBranch, PopItem, PopNode,
              VisitParent, Popped, StartExpanding, ExpandInheritance, addSeedPackage, StartPlanting
<1>4. CASE plantSeed \/ prune \/ growSeed \/ rescueForBuild \/ addExtras \/ finish
  BY <1>4 DEF plantSeed, prune, growSeed, rescueForBuild, addExtras, finish
<1>5. CASE readLine \/ plantPackage \/ plantHints
  BY <1>1, <1>5 DEF readLine, plantPackage, plantHints, Running, Growing
<1>6. CASE refusePackage \/ addPackage \/ addSource
  BY <1>1, <1>6 DEF refusePackage, addPackage, addSource, Running, Growing
<1>7. CASE checkSatisfied \/ promoteDependency \/ newDependency
  BY <1>1, <1>7 DEF checkSatisfied, promoteDependency, newDependency, Running, Growing
<1>8. CASE startRescue \/ rescueSource \/ rescuePackage
  BY <1>1, <1>8 DEF startRescue, rescueSource, rescuePackage, Running, Growing
<1>9. CASE extraPass \/ extraBinary
  BY <1>1, <1>9 DEF extraPass, extraBinary, Running, Growing
<1>. QED
  BY <1>2, <1>3, <1>4, <1>5, <1>6, <1>7, <1>8, <1>9 DEF Next

LEMMA FiniteKept ==
  ASSUME ParseInv, PlantInv, SeedsInv, IsFiniteSet(all), [RdependsNext]_rdependsAllVars
  PROVE  IsFiniteSet(all)'
<1>1. CASE plantSeed \/ addExtras
  <2>1. all' = all
    BY <1>1, NewSeedStep DEF NothingPlanted, addedVars, Planted, NewSeed
  <2>. QED
    BY <2>1
<1>2. CASE addPackage
  <2>1. all' = all \cup {call.pkg}
    BY <1>2 DEF addPackage
  <2>. QED
    BY <2>1, FS_AddElement
<1>3. CASE ~plantSeed /\ ~addExtras /\ ~addPackage
  <2>1. UNCHANGED addedVars
    BY <1>3, Steps, OnlyAddPackage
  <2>. QED
    BY <2>1 DEF addedVars
<1>. QED
  BY <1>1, <1>2, <1>3

LEMMA ReverseSame ==
  ASSUME UNCHANGED <<all, all_srcs, packages, sources, structure>>
  PROVE  [p \in all |-> ReverseOf(p)]' = [p \in all |-> ReverseOf(p)]
<1>1. \A p : ReverseOf(p)' = ReverseOf(p)
  BY DEF ReverseOf, RecommendsCount
<1>. QED
  BY <1>1

LEMMA ReverseKept ==
  ASSUME ParseInv, PlantInv, SeedsInv, StackInv, ReverseInv, [RdependsNext]_rdependsAllVars
  PROVE  ReverseInv'
<1>1. IsFiniteSet(all)'
  BY FiniteKept DEF ReverseInv
<1>2. CASE UNCHANGED rdependsAllVars
  <2>1. /\ UNCHANGED <<all, all_srcs, packages, sources, structure, phase>>
        /\ UNCHANGED <<reverse, reading, done, file>>
    BY <1>2 DEF rdependsAllVars, vars, addedVars, sourceVars, archiveVars, structureVars, parseVars,
                rdependVars
  <2>. QED
    BY <1>1, <2>1, ReverseSame DEF ReverseInv
<1>3. CASE Next /\ UNCHANGED rdependVars
  <2>1. phase \notin Told /\ phase' \notin Told
    BY <1>3, SeedsAreDone
  <2>. QED
    BY <1>1, <1>3, <2>1 DEF ReverseInv, rdependVars, Told
<1>4. CASE reverseDepends
  <2>1. /\ UNCHANGED <<all, all_srcs, packages, sources, structure>>
        /\ reverse' = [p \in all |-> ReverseOf(p)]
        /\ phase = "done" /\ phase' = "rdepends" /\ UNCHANGED <<reading, done, file>>
    BY <1>4 DEF reverseDepends, addedVars, sourceVars, archiveVars, structureVars, parseVars
  <2>. QED
    BY <1>1, <2>1, ReverseSame DEF ReverseInv
<1>5. CASE writeLists
  <2>1. /\ UNCHANGED <<all, all_srcs, packages, sources, structure>>
        /\ UNCHANGED <<reverse, reading, done, file>>
        /\ phase = "rdepends" /\ phase' \in Told
    BY <1>5 DEF writeLists, addedVars, sourceVars, archiveVars, structureVars, parseVars,
                rdependVars, Told
  <2>. QED
    BY <1>1, <2>1, ReverseSame DEF ReverseInv, Told
<1>6. CASE writeRdependList \/ _writeRdependList
  <2>1. UNCHANGED <<vars, reverse>> /\ phase = "written"
    BY <1>6 DEF writeRdependList, _writeRdependList, ReverseInv
  <2>2. UNCHANGED <<all, all_srcs, packages, sources, structure, phase>>
    BY <2>1 DEF vars, addedVars, sourceVars, archiveVars, structureVars, parseVars
  <2>. QED
    BY <1>1, <2>1, <2>2, ReverseSame DEF ReverseInv, Told
<1>. QED
  BY <1>2, <1>3, <1>4, <1>5, <1>6 DEF RdependsNext

LEMMA ReverseAlways == RdependsSpec => []ReverseInv
<1>1. RdependsInit => ReverseInv
  <2>. SUFFICES ASSUME RdependsInit PROVE ReverseInv
    OBVIOUS
  <2>1. phase \in {"parse", "archive"} /\ all = {} /\ reading = <<>> /\ done = {} /\ file = {}
    BY DEF RdependsInit, Init
  <2>. QED
    BY <2>1, FS_EmptySet DEF ReverseInv, Told
<1>2. ParseInv /\ PlantInv /\ SeedsInv /\ StackInv /\ ReverseInv /\ [RdependsNext]_rdependsAllVars
      => ReverseInv'
  BY ReverseKept
<1>. QED
  BY <1>1, <1>2, ParseAlways, PlantAlways, SeedsAlways, StackAlways, PTL DEF RdependsSpec

(* Nobody is in a dependency list for a reason that is not shown.          *)
LEMMA CausesShown ==
  ASSUME ParseInv, PlantInv, SeedsInv, StackInv, ReverseInv, CausesInv
  PROVE  CauseIsShown
<1>. SUFFICES ASSUME phase = "rdepends", done = {}, NEW s \in ToSet(seeds) \ {Extra},
                     NEW p \in depends[s] \cup build_depends[s]
              PROVE  \/ /\ p \in DOMAIN reverse
                        /\ UNION {reverse[p][f] : f \in DOMAIN reverse[p]} # {}
                     \/ Provided(p)
                     \/ \E q \in all : NamedIn(packages[q].recommends, p)
                     \/ \E t \in ToSet(seeds), from \in ToSet(seeds) : p \in Patterns("includes", t, from)
  BY DEF CauseIsShown, Provided
<1>1. Extra \in ToSet(seeds)
  <2>1. seeds = names /\ Extra \in ToSet(names)
    BY SeedsPlanted DEF PlantInv, Late
  <2>. QED
    BY <2>1
<1>2. Caused(p)
  BY DEF CausesInv, Grown, Late
<1>3. CASE Arriving(p) /\ NamedByOne(p)
  <2>1. stack = <<>>
    BY DEF StackInv, Growing
  <2>2. p \in all
    BY <1>3, <2>1, ToSetProperties DEF Arriving
  <2>3. reverse = [q \in all |-> ReverseOf(q)]
    BY DEF ReverseInv, Told
  <2>4. reverse[p] = ReverseOf(p) /\ p \in DOMAIN reverse
    BY <2>2, <2>3
  <2>5. CASE \E q \in all : packages[q].kind = packages[p].kind /\ NamedIn(packages[q].depends, p)
    <3>1. ReverseOf(p).Depends # {} /\ "Depends" \in DOMAIN ReverseOf(p)
      BY <2>5 DEF ReverseOf
    <3>. QED
      BY <2>4, <3>1
  <2>6. CASE \E src \in all_srcs : packages[p].kind = "deb" /\ NamedIn(sources[src].builddeps, p)
    <3>1. ReverseOf(p).BuildDepends # {} /\ "BuildDepends" \in DOMAIN ReverseOf(p)
      BY <2>6 DEF ReverseOf
    <3>. QED
      BY <2>4, <3>1
  <2>. QED
    BY <1>3, <2>5, <2>6 DEF NamedByOne
<1>. QED
  BY <1>1, <1>2, <1>3 DEF Caused, Untold

(* All who depend on a package: the package, those who depend on it, and   *)
(* no others than a set has that has all these.                            *)
LEMMA AboveTyped ==
  ASSUME ReverseInv, phase = "written"
  PROVE  \A p \in all : Above(p) \subseteq all
<1>1. reverse = [p \in all |-> ReverseOf(p)]
  BY DEF ReverseInv, Told
<1>2. ASSUME NEW p \in all PROVE Above(p) \subseteq all
  <2>1. Above(p) = ReverseOf(p).Depends \cup ReverseOf(p).Recommends
    BY <1>1 DEF Above
  <2>. QED
    BY <2>1 DEF ReverseOf
<1>. QED
  BY <1>2

LEMMA ClosureIs ==
  ASSUME ReverseInv, phase = "written", NEW p \in all
  PROVE  /\ p \in Closure(p) /\ Closure(p) \subseteq all
         /\ \A x \in Closure(p) : Above(x) \subseteq Closure(p)
<1>. DEFINE N == [q \in all |-> Above(q)]
<1>1. N \in [all -> SUBSET all] /\ {p} \in SUBSET all /\ IsFiniteSet(all)
  BY AboveTyped DEF ReverseInv
<1>2. \A q \in all : N[q] = Above(q)
  OBVIOUS
<1>3. Closure(p) = Reached({p}, N)
  BY DEF Closure
<1>. HIDE DEF N
<1>4. /\ {p} \subseteq Reached({p}, N) /\ Reached({p}, N) \subseteq all
      /\ Closed(Reached({p}, N), N)
  BY <1>1, ReachedCloses
<1>. QED
  BY <1>2, <1>3, <1>4 DEF Closed

LEMMA ClosureLeast ==
  ASSUME ReverseInv, phase = "written", NEW p \in all, NEW C \in SUBSET all, p \in C,
         \A x \in C : Above(x) \subseteq C
  PROVE  Closure(p) \subseteq C
<1>. DEFINE N == [q \in all |-> Above(q)]
<1>1. N \in [all -> SUBSET all] /\ {p} \in SUBSET all /\ IsFiniteSet(all)
  BY AboveTyped DEF ReverseInv
<1>2. Closed(C, N)
  BY DEF Closed
<1>3. Closure(p) = Reached({p}, N)
  BY DEF Closure
<1>. HIDE DEF N
<1>. QED
  BY <1>1, <1>2, <1>3, ReachedLeast

-----------------------------------------------------------------------------
(* While a file is written: each entry in progress is above the one that   *)
(* it belongs under, and what is above a finished entry is done. As long   *)
(* as there is no loop, what is above a finished entry is finished too, so *)
(* that nobody finished depends on itself. (r, d and f: reading, done and  *)
(* file.)                                                                  *)
Frames == [pkg : all, left : SUBSET all, path : SUBSET all]
Under(r, i) == IF i < Len(r) THEN r[i + 1].path ELSE {}
Finished(r, d) == d \ Under(r, 0)
Looped(f) == \E p, q : <<p, q, "loop">> \in f
Cyclic(d) == \E p \in d : \E q \in Above(p) : p \in Closure(q)

Placed(c, under, d) ==
  /\ c.left \subseteq Above(c.pkg) /\ c.path = under \cup {c.pkg} /\ c.pkg \notin under
  /\ c.path \subseteq d /\ Above(c.pkg) \ c.left \subseteq d
  /\ \A q \in c.path : c.pkg \in Closure(q)
\* What is gone through of the entry, whose own entry is being written now.
Through(c, finished, now) == Above(c.pkg) \ c.left \subseteq finished \cup now
Now(r, i) == IF i > 1 THEN {r[i - 1].pkg} ELSE {}

PlacedIn(r, d) ==
  /\ r \in Seq(Frames)
  /\ \A i \in 1..Len(r) : Placed(r[i], Under(r, i), d)
LinesIn(r, d, f) ==
  /\ report \in d /\ d \subseteq Closure(report) /\ d \subseteq all /\ report \in all
  /\ \A p \in d \ {report} : \E q \in d : <<p, q, "entry">> \in f
  /\ \A p, q : <<p, q, "loop">> \in f => p \in d /\ q \in d
  /\ \A x \in Finished(r, d) : Above(x) \subseteq d
  /\ Looped(f) => Cyclic(d)
UnloopedIn(r, d, f) ==
  ~Looped(f) =>
    /\ \A x \in Finished(r, d) : /\ Above(x) \subseteq Finished(r, d)
                                 /\ \A q \in Above(x) : x \notin Closure(q)
    /\ \A i \in 1..Len(r) : Through(r[i], Finished(r, d), Now(r, i))
FileIn(r, d, f) == PlacedIn(r, d) /\ LinesIn(r, d, f) /\ UnloopedIn(r, d, f)
FileInv ==
  /\ done = {} => reading = <<>> /\ file = {}
  /\ done # {} => FileIn(reading, done, file)

(* When the file is written, everything that was begun is finished.        *)
LEMMA FilesComplete ==
  ASSUME ReverseInv, FileInv
  PROVE  FileIsComplete
<1>. SUFFICES ASSUME Written
              PROVE  /\ done = Closure(report)
                     /\ \A p \in done \ {report} : \E q \in done : <<p, q, "entry">> \in file
                     /\ (\E p, q \in done : <<p, q, "loop">> \in file) <=> Cyclic(done)
  BY DEF FileIsComplete, Cyclic
<1>1. /\ done # {} /\ reading = <<>> /\ phase = "written"
      /\ LinesIn(reading, done, file) /\ UnloopedIn(reading, done, file)
  BY DEF Written, ReverseInv, FileInv, FileIn
<1>2. Finished(reading, done) = done
  <2>1. Len(reading) = 0
    BY <1>1
  <2>. QED
    BY <2>1 DEF Finished, Under
<1>3. Closure(report) \subseteq done
  BY <1>1, <1>2, ClosureLeast DEF LinesIn
<1>4. (\E p, q \in done : <<p, q, "loop">> \in file) <=> Looped(file)
  BY <1>1 DEF LinesIn, Looped
<1>5. ~Looped(file) => ~Cyclic(done)
  BY <1>1, <1>2 DEF UnloopedIn, Cyclic
<1>. QED
  BY <1>1, <1>3, <1>4, <1>5 DEF LinesIn

LEMMA FilesMove ==
  ASSUME NEW r, NEW d, NEW f, r = reading', d = done', f = file', FileIn(r, d, f), d # {},
         UNCHANGED <<all, reverse, report>>
  PROVE  FileInv'
<1>1. \A p : Above(p)' = Above(p)
  BY DEF Above
<1>2. \A p : Closure(p)' = Closure(p)
  BY <1>1 DEF Closure
<1>3. PlacedIn(reading, done)'
  BY <1>1, <1>2 DEF FileIn, PlacedIn, Placed, Frames, Under
<1>4. LinesIn(reading, done, file)'
  BY <1>1, <1>2 DEF FileIn, LinesIn, Finished, Under, Looped, Cyclic
<1>5. UnloopedIn(reading, done, file)'
  BY <1>1, <1>2 DEF FileIn, UnloopedIn, Finished, Under, Looped, Through, Now
<1>. QED
  BY <1>3, <1>4, <1>5 DEF FileInv, FileIn

(* The entries in progress, one of them gone on with, ended or begun.      *)
Beside(r, k, s) ==
  /\ s \in Seq(Frames) /\ Len(s) = Len(r) /\ Len(r) \in Nat \ {0} /\ s[1] = k
  /\ \A i \in 2..Len(r) : s[i] = r[i]
  /\ \A i \in 0..Len(r) : Under(s, i) = Under(r, i)

LEMMA Reread ==
  ASSUME NEW r \in Seq(Frames), r # <<>>, NEW k \in Frames, k.path = r[1].path,
         NEW s, s = <<k>> \o Tail(r)
  PROVE  Beside(r, k, s)
<1>1. <<k>> \in Seq(Frames) /\ Len(<<k>>) = 1 /\ <<k>>[1] = k
  OBVIOUS
<1>2. /\ s \in Seq(Frames) /\ Len(s) = Len(r) /\ Len(r) \in Nat \ {0} /\ s[1] = k
      /\ \A i \in 2..Len(r) : s[i] = r[i]
  BY <1>1, Replaced
<1>3. \A i \in 0..Len(r) : Under(s, i) = Under(r, i)
  BY <1>2 DEF Under
<1>. QED
  BY <1>2, <1>3 DEF Beside

LEMMA Unread ==
  ASSUME NEW r \in Seq(Frames), r # <<>>, NEW s, s = Tail(r)
  PROVE  /\ s \in Seq(Frames) /\ Len(s) = Len(r) - 1 /\ Len(r) \in Nat \ {0}
         /\ \A i \in 1..Len(s) : s[i] = r[i + 1]
         /\ \A i \in 0..Len(s) : Under(s, i) = Under(r, i + 1)
         /\ Under(r, 0) = r[1].path
<1>1. /\ s \in Seq(Frames) /\ Len(s) = Len(r) - 1 /\ Len(r) \in Nat \ {0}
      /\ \A i \in 1..Len(s) : s[i] = r[i + 1]
  BY InnermostCall
<1>2. \A i \in 0..Len(s) : Under(s, i) = Under(r, i + 1)
  BY <1>1 DEF Under
<1>. QED
  BY <1>1, <1>2 DEF Under

Below(r, k, s) ==
  /\ s \in Seq(Frames) /\ Len(s) = Len(r) + 1 /\ Len(r) \in Nat /\ s[1] = k
  /\ \A i \in 2..Len(s) : s[i] = r[i - 1]
  /\ \A i \in 1..Len(s) : Under(s, i) = Under(r, i - 1)
  /\ Under(s, 0) = k.path

LEMMA Readmore ==
  ASSUME NEW r \in Seq(Frames), NEW k \in Frames, NEW s, s = <<k>> \o r
  PROVE  Below(r, k, s)
<1>1. <<k>> \in Seq(Frames) /\ Len(<<k>>) = 1 /\ <<k>>[1] = k
  OBVIOUS
<1>2. /\ s \in Seq(Frames) /\ Len(s) = Len(<<k>>) + Len(r)
      /\ \A i \in 1 .. Len(<<k>>) + Len(r) :
           s[i] = IF i <= Len(<<k>>) THEN <<k>>[i] ELSE r[i - Len(<<k>>)]
  BY <1>1, ConcatProperties
<1>3. Len(r) \in Nat
  OBVIOUS
<1>4. /\ s \in Seq(Frames) /\ Len(s) = Len(r) + 1 /\ s[1] = k
      /\ \A i \in 2..Len(s) : s[i] = r[i - 1]
  BY <1>1, <1>2, <1>3
<1>5. \A i \in 1..Len(s) : Under(s, i) = Under(r, i - 1)
  BY <1>3, <1>4 DEF Under
<1>. QED
  BY <1>3, <1>4, <1>5 DEF Under, Below

(* An entry ends: what is above it is done, and without a loop finished.   *)
LEMMA FilePops ==
  ASSUME ReverseInv, phase = "written", NEW r, NEW d, NEW f, FileIn(r, d, f), r # <<>>,
         NEW c, c = r[1], c.left = {}, NEW s, s = Tail(r)
  PROVE  FileIn(s, d, f)
<1>1. /\ r \in Seq(Frames) /\ s \in Seq(Frames) /\ Len(s) = Len(r) - 1 /\ Len(r) \in Nat \ {0}
      /\ \A i \in 1..Len(s) : s[i] = r[i + 1]
      /\ \A i \in 0..Len(s) : Under(s, i) = Under(r, i + 1)
      /\ Under(r, 0) = r[1].path
  BY Unread DEF FileIn, PlacedIn
<1>2. Placed(c, Under(r, 1), d) /\ c \in Frames
  BY <1>1 DEF FileIn, PlacedIn
<1>3. /\ Finished(s, d) = Finished(r, d) \cup {c.pkg} /\ c.pkg \in d /\ c.pkg \notin Finished(r, d)
      /\ c.pkg \in all /\ Above(c.pkg) \subseteq d
  <2>1. Under(s, 0) = Under(r, 1) /\ Under(r, 0) = c.path
    BY <1>1
  <2>. QED
    BY <1>2, <2>1 DEF Finished, Placed, Frames
<1>4. PlacedIn(s, d)
  <2>1. ASSUME NEW i \in 1..Len(s) PROVE Placed(s[i], Under(s, i), d)
    <3>1. i + 1 \in 1..Len(r) /\ s[i] = r[i + 1] /\ Under(s, i) = Under(r, i + 1)
      BY <1>1
    <3>. QED
      BY <3>1 DEF FileIn, PlacedIn
  <2>. QED
    BY <1>1, <2>1 DEF PlacedIn
<1>5. LinesIn(s, d, f)
  BY <1>3 DEF FileIn, LinesIn
<1>6. ASSUME ~Looped(f) PROVE /\ Above(c.pkg) \subseteq Finished(r, d)
                              /\ \A q \in Above(c.pkg) : c.pkg \notin Closure(q)
  <2>1. Above(c.pkg) \subseteq Finished(r, d)
    BY <1>1, <1>2, <1>6 DEF FileIn, UnloopedIn, Through, Now
  <2>2. ASSUME NEW q \in Above(c.pkg) PROVE c.pkg \notin Closure(q)
    <3>1. /\ q \in Finished(r, d) /\ q \in all /\ Finished(r, d) \subseteq all
          /\ \A x \in Finished(r, d) : Above(x) \subseteq Finished(r, d)
      BY <1>6, <2>1 DEF FileIn, UnloopedIn, LinesIn, Finished
    <3>2. Finished(r, d) \in SUBSET all
      BY <3>1
    <3>3. Closure(q) \subseteq Finished(r, d)
      BY <3>1, <3>2, ClosureLeast
    <3>. QED
      BY <1>3, <3>3
  <2>. QED
    BY <2>1, <2>2
<1>7. ASSUME ~Looped(f), NEW i \in 1..Len(s)
      PROVE  Through(s[i], Finished(s, d), Now(s, i))
  <2>1. i + 1 \in 1..Len(r) /\ s[i] = r[i + 1]
    BY <1>1
  <2>2. Through(r[i + 1], Finished(r, d), Now(r, i + 1))
    BY <1>7, <2>1 DEF FileIn, UnloopedIn
  <2>3. Now(r, i + 1) = {r[i].pkg}
    BY <2>1 DEF Now
  <2>4. Now(r, i + 1) \subseteq {c.pkg} \cup Now(s, i)
    <3>1. CASE i = 1
      BY <2>3, <3>1
    <3>2. CASE i > 1
      <4>1. i - 1 \in 1..Len(s) /\ s[i - 1] = r[i]
        BY <1>1, <3>2
      <4>. QED
        BY <2>3, <3>2, <4>1 DEF Now
    <3>. QED
      BY <3>1, <3>2
  <2>. QED
    BY <1>3, <2>1, <2>2, <2>4 DEF Through
<1>8. UnloopedIn(s, d, f)
  BY <1>3, <1>6, <1>7 DEF FileIn, UnloopedIn
<1>. QED
  BY <1>4, <1>5, <1>8 DEF FileIn

(* The innermost entry goes on with one of those above it.                 *)
ReadsOn(r, d, c, p, k, s) ==
  /\ r \in Seq(Frames) /\ s \in Seq(Frames) /\ Len(s) = Len(r) /\ Len(r) \in Nat \ {0}
  /\ s[1] = k /\ \A i \in 2..Len(r) : s[i] = r[i]
  /\ \A i \in 0..Len(r) : Under(s, i) = Under(r, i)
  /\ Under(r, 0) = c.path /\ c \in Frames /\ Placed(c, Under(r, 1), d)
  /\ k \in Frames /\ k.pkg = c.pkg /\ k.path = c.path /\ k.left = c.left \ {p}
  /\ p \in Above(c.pkg) /\ p \in all /\ c.pkg \in c.path

LEMMA FileReads ==
  ASSUME NEW r, NEW d, NEW f, FileIn(r, d, f), r # <<>>, NEW c, c = r[1], NEW p \in c.left,
         NEW k \in Frames, k.pkg = c.pkg, k.path = c.path, k.left = c.left \ {p},
         NEW s, s = <<k>> \o Tail(r)
  PROVE  ReadsOn(r, d, c, p, k, s)
<1>1. r \in Seq(Frames) /\ Len(r) \in Nat \ {0} /\ c \in Frames
  BY Unread DEF FileIn, PlacedIn
<1>2. Placed(c, Under(r, 1), d)
  BY <1>1 DEF FileIn, PlacedIn
<1>3. p \in Above(c.pkg) /\ p \in all /\ c.pkg \in c.path
  BY <1>1, <1>2 DEF Placed, Frames
<1>4. /\ s \in Seq(Frames) /\ Len(s) = Len(r) /\ s[1] = k
      /\ \A i \in 2..Len(r) : s[i] = r[i]
      /\ \A i \in 0..Len(r) : Under(s, i) = Under(r, i)
  <2>1. r # <<>> /\ k.path = r[1].path
    OBVIOUS
  <2>2. Beside(r, k, s)
    BY <1>1, <2>1, Reread
  <2>. QED
    BY <2>2 DEF Beside
<1>5. Under(r, 0) = c.path
  BY <1>1 DEF Under
<1>. QED
  BY <1>1, <1>2, <1>3, <1>4, <1>5 DEF ReadsOn

(* The line of one whose entry is begun already, above or elsewhere.       *)
LEMMA FileLines ==
  ASSUME ReverseInv, phase = "written", NEW r, NEW d, NEW f, FileIn(r, d, f), r # <<>>,
         NEW c, c = r[1], NEW p \in c.left, NEW k, NEW s, ReadsOn(r, d, c, p, k, s),
         NEW says, NEW g, g = f \cup {<<p, c.pkg, says>>},
         \/ says = "loop" /\ p \in c.path
         \/ says = "skipped" /\ p \notin c.path /\ p \in d
  PROVE  FileIn(s, d, g)
<1>1. /\ r \in Seq(Frames) /\ s \in Seq(Frames) /\ Len(s) = Len(r) /\ Len(r) \in Nat \ {0}
      /\ s[1] = k /\ \A i \in 2..Len(r) : s[i] = r[i]
      /\ \A i \in 0..Len(r) : Under(s, i) = Under(r, i)
      /\ Under(r, 0) = c.path /\ c \in Frames /\ Placed(c, Under(r, 1), d)
      /\ k \in Frames /\ k.pkg = c.pkg /\ k.path = c.path /\ k.left = c.left \ {p}
      /\ p \in Above(c.pkg) /\ p \in all /\ c.pkg \in c.path
  BY DEF ReadsOn
<1>2. Finished(s, d) = Finished(r, d)
  BY <1>1 DEF Finished
<1>3. p \in d /\ c.pkg \in d
  BY <1>1 DEF Placed
<1>4. PlacedIn(s, d)
  <2>1. Placed(k, Under(r, 1), d)
    BY <1>1, <1>3 DEF Placed
  <2>2. ASSUME NEW i \in 1..Len(s) PROVE Placed(s[i], Under(s, i), d)
    <3>1. CASE i = 1
      BY <1>1, <2>1, <3>1
    <3>2. CASE i # 1
      BY <1>1, <3>2 DEF FileIn, PlacedIn
    <3>. QED
      BY <3>1, <3>2
  <2>. QED
    BY <1>1, <2>2 DEF PlacedIn
<1>5. says = "loop" => Cyclic(d)
  BY <1>1, <1>3 DEF Placed, Cyclic
<1>6. \A x, y, z : <<x, y, z>> \in g => <<x, y, z>> \in f \/ (x = p /\ y = c.pkg /\ z = says)
  OBVIOUS
<1>7. LinesIn(s, d, g)
  BY <1>2, <1>3, <1>5, <1>6 DEF FileIn, LinesIn, Looped
<1>8. ASSUME ~Looped(g) PROVE says = "skipped" /\ ~Looped(f) /\ p \in Finished(r, d)
  <2>1. <<p, c.pkg, says>> \in g /\ f \subseteq g
    OBVIOUS
  <2>2. says = "skipped" /\ ~Looped(f)
    BY <1>8, <2>1 DEF Looped
  <2>. QED
    BY <1>1, <2>2 DEF Finished
<1>9. ASSUME ~Looped(g), NEW i \in 1..Len(s)
      PROVE  Through(s[i], Finished(s, d), Now(s, i))
  <2>1. Through(r[i], Finished(r, d), Now(r, i)) /\ p \in Finished(r, d)
    BY <1>1, <1>8, <1>9 DEF FileIn, UnloopedIn
  <2>2. CASE i = 1
    BY <1>1, <1>2, <2>1, <2>2 DEF Through, Now
  <2>3. CASE i # 1
    <3>1. s[i] = r[i] /\ s[i - 1].pkg = r[i - 1].pkg
      <4>1. CASE i = 2
        BY <1>1, <4>1
      <4>2. CASE i # 2
        BY <1>1, <2>3, <4>2
      <4>. QED
        BY <1>1, <2>3, <4>1, <4>2
    <3>. QED
      BY <1>2, <2>1, <2>3, <3>1 DEF Through, Now
  <2>. QED
    BY <2>2, <2>3
<1>10. UnloopedIn(s, d, g)
  BY <1>2, <1>8, <1>9 DEF FileIn, UnloopedIn
<1>. QED
  BY <1>4, <1>7, <1>10 DEF FileIn

(* The entry of one not met yet.                                           *)
LEMMA FileEnters ==
  ASSUME ReverseInv, phase = "written", NEW r, NEW d, NEW f, FileIn(r, d, f), r # <<>>,
         NEW c, c = r[1], NEW p \in c.left, NEW k, NEW t, ReadsOn(r, d, c, p, k, t),
         p \notin c.path, p \notin d, NEW e, e = Entry(p, c.path),
         NEW s, e \in Frames => Below(t, e, s), NEW g, g = f \cup {<<p, c.pkg, "entry">>}
  PROVE  FileIn(s, d \cup {p}, g)
<1>. DEFINE h == d \cup {p}
<1>1. /\ r \in Seq(Frames) /\ t \in Seq(Frames) /\ Len(t) = Len(r) /\ Len(r) \in Nat \ {0}
      /\ t[1] = k /\ \A i \in 2..Len(r) : t[i] = r[i]
      /\ \A i \in 0..Len(r) : Under(t, i) = Under(r, i)
      /\ Under(r, 0) = c.path /\ c \in Frames /\ Placed(c, Under(r, 1), d)
      /\ k \in Frames /\ k.pkg = c.pkg /\ k.path = c.path /\ k.left = c.left \ {p}
      /\ p \in Above(c.pkg) /\ p \in all /\ c.pkg \in c.path
  BY DEF ReadsOn
<1>2. /\ e.pkg = p /\ e.left = Above(p) /\ e.path = c.path \cup {p}
      /\ e \in Frames
  <2>1. Above(p) \subseteq all
    BY <1>1, AboveTyped
  <2>. QED
    BY <1>1, <2>1 DEF Entry, Frames
<1>3. /\ s \in Seq(Frames) /\ Len(s) = Len(r) + 1 /\ s[1] = e
      /\ \A i \in 2..Len(s) : s[i] = t[i - 1]
      /\ \A i \in 1..Len(s) : Under(s, i) = Under(r, i - 1)
      /\ Under(s, 0) = e.path
  <2>1. /\ s \in Seq(Frames) /\ Len(s) = Len(t) + 1 /\ s[1] = e
        /\ \A i \in 2..Len(s) : s[i] = t[i - 1]
        /\ \A i \in 1..Len(s) : Under(s, i) = Under(t, i - 1)
        /\ Under(s, 0) = e.path
    BY <1>2 DEF Below
  <2>2. ASSUME NEW i \in 1..Len(s) PROVE Under(s, i) = Under(r, i - 1)
    <3>1. i - 1 \in 0..Len(r) /\ Under(s, i) = Under(t, i - 1)
      BY <1>1, <2>1
    <3>. QED
      BY <1>1, <3>1
  <2>. QED
    BY <1>1, <2>1, <2>2
<1>4. s[2] = k /\ \A i \in 3..Len(s) : s[i] = r[i - 1]
  <2>1. 2 \in 2..Len(s) /\ 2 - 1 = 1
    BY <1>1, <1>3
  <2>2. s[2] = k
    BY <1>1, <1>3, <2>1
  <2>3. ASSUME NEW i \in 3..Len(s) PROVE s[i] = r[i - 1]
    <3>1. i \in 2..Len(s) /\ i - 1 \in 2..Len(r)
      BY <1>1, <1>3
    <3>. QED
      BY <1>1, <1>3, <3>1
  <2>. QED
    BY <2>2, <2>3
<1>5. Finished(s, h) = Finished(r, d)
  BY <1>1, <1>2, <1>3 DEF Finished
<1>6. d \subseteq all /\ d \subseteq Closure(report) /\ report \in all
  BY DEF FileIn, LinesIn
<1>7. \A q \in c.path : p \in Closure(q)
  <2>1. ASSUME NEW q \in c.path PROVE p \in Closure(q)
    <3>1. q \in all /\ c.pkg \in Closure(q)
      BY <1>1, <1>6 DEF Placed
    <3>. QED
      BY <1>1, <3>1, ClosureIs
  <2>. QED
    BY <2>1
<1>8. p \in Closure(report) /\ p \in Closure(p)
  <2>1. c.pkg \in Closure(report)
    BY <1>1, <1>6 DEF Placed
  <2>. QED
    BY <1>1, <1>6, <2>1, ClosureIs
<1>9. PlacedIn(s, h)
  <2>1. Placed(e, Under(r, 0), h)
    <3>1. c.path \subseteq d /\ Under(r, 0) = c.path
      BY <1>1 DEF Placed
    <3>. QED
      BY <1>2, <1>7, <1>8, <3>1 DEF Placed
  <2>2. Placed(k, Under(r, 1), h)
    BY <1>1 DEF Placed
  <2>3. ASSUME NEW i \in 1..Len(s) PROVE Placed(s[i], Under(s, i), h)
    <3>1. CASE i = 1
      BY <1>3, <2>1, <3>1
    <3>2. CASE i = 2
      BY <1>3, <1>4, <2>2, <3>2
    <3>3. CASE i \in 3..Len(s)
      <4>1. i - 1 \in 1..Len(r) /\ s[i] = r[i - 1] /\ Under(s, i) = Under(r, i - 1)
        BY <1>1, <1>3, <1>4, <3>3
      <4>2. Placed(r[i - 1], Under(r, i - 1), d)
        BY <4>1 DEF FileIn, PlacedIn
      <4>. QED
        BY <4>1, <4>2 DEF Placed
    <3>. QED
      BY <1>1, <1>3, <3>1, <3>2, <3>3
  <2>. QED
    BY <1>3, <2>3 DEF PlacedIn
<1>10. Cyclic(d) => Cyclic(h)
  BY DEF Cyclic
<1>11. Looped(g) <=> Looped(f)
  BY DEF Looped
<1>12. LinesIn(s, h, g)
  <2>1. c.pkg \in h
    BY <1>1 DEF Placed
  <2>2. \A x \in h \ {report} : \E q \in h : <<x, q, "entry">> \in g
    BY <2>1 DEF FileIn, LinesIn
  <2>3. \A x, q : <<x, q, "loop">> \in g => x \in h /\ q \in h
    BY DEF FileIn, LinesIn
  <2>. QED
    BY <1>1, <1>5, <1>8, <1>10, <1>11, <2>2, <2>3 DEF FileIn, LinesIn
<1>13. ASSUME ~Looped(g), NEW i \in 1..Len(s)
       PROVE  Through(s[i], Finished(s, h), Now(s, i))
  <2>1. \A j \in 1..Len(r) : Through(r[j], Finished(r, d), Now(r, j))
    BY <1>11, <1>13 DEF FileIn, UnloopedIn
  <2>2. CASE i = 1
    BY <1>2, <1>3, <2>2 DEF Through
  <2>3. CASE i = 2
    <3>1. Now(s, 2) = {p} /\ Now(r, 1) = {}
      BY <1>2, <1>3 DEF Now
    <3>2. Through(c, Finished(r, d), {})
      <4>1. 1 \in 1..Len(r)
        BY <1>1
      <4>2. Through(r[1], Finished(r, d), Now(r, 1))
        BY <2>1, <4>1
      <4>. QED
        BY <3>1, <4>2
    <3>. QED
      BY <1>1, <1>4, <1>5, <2>3, <3>1, <3>2 DEF Through
  <2>4. CASE i \in 3..Len(s)
    <3>1. i - 1 \in 2..Len(r) /\ s[i] = r[i - 1]
      BY <1>1, <1>3, <1>4, <2>4
    <3>2. s[i - 1].pkg = r[i - 2].pkg
      <4>1. CASE i = 3
        BY <1>1, <1>4, <4>1
      <4>2. CASE i # 3
        <5>1. i - 1 \in 3..Len(s) /\ (i - 1) - 1 = i - 2
          BY <1>3, <2>4, <4>2
        <5>. QED
          BY <1>4, <5>1
      <4>. QED
        BY <4>1, <4>2
    <3>3. Now(s, i) = Now(r, i - 1)
      <4>1. i > 1 /\ i - 1 > 1 /\ (i - 1) - 1 = i - 2
        BY <1>1, <1>3, <2>4
      <4>. QED
        BY <3>2, <4>1 DEF Now
    <3>. QED
      BY <1>5, <2>1, <3>1, <3>3
  <2>. QED
    BY <1>1, <1>3, <2>2, <2>3, <2>4
<1>14. UnloopedIn(s, h, g)
  BY <1>5, <1>11, <1>13 DEF FileIn, UnloopedIn
<1>. QED
  BY <1>9, <1>12, <1>14 DEF FileIn

(* The first entry of a file.                                              *)
LEMMA FilesBegin ==
  ASSUME ReverseInv, phase = "written", writeRdependList, file = {}
  PROVE  FileInv'
<1>1. UNCHANGED <<all, reverse, file>>
  BY DEF writeRdependList, vars, addedVars
<1>2. PICK p \in all : report' = p /\ reading' = <<Entry(p, {})>> /\ done' = {p}
  BY DEF writeRdependList
<1>3. PICK e : e = Entry(p, {})
  OBVIOUS
<1>4. Above(p) \subseteq all /\ p \in Closure(p)
  BY AboveTyped, ClosureIs
<1>5. e \in Frames /\ e.pkg = p /\ e.left = Above(p) /\ e.path = {p}
  BY <1>3, <1>4 DEF Entry, Frames
<1>6. PICK r : r = <<e>>
  OBVIOUS
<1>7. r \in Seq(Frames) /\ Len(r) = 1 /\ r[1] = e
  BY <1>5, <1>6
<1>8. Under(r, 0) = {p} /\ Under(r, 1) = {}
  BY <1>5, <1>7 DEF Under
<1>9. \A q : Above(q)' = Above(q)
  BY <1>1 DEF Above
<1>10. \A q : Closure(q)' = Closure(q)
  BY <1>1, <1>9 DEF Closure
<1>11. PICK d : d = {p}
  OBVIOUS
<1>12. Placed(e, {}, d)
  BY <1>4, <1>5, <1>11 DEF Placed
<1>13. PlacedIn(r, d)
  <2>1. \A i \in 1..Len(r) : i = 1
    BY <1>7
  <2>. QED
    BY <1>7, <1>8, <1>12, <2>1 DEF PlacedIn
<1>14. Finished(r, d) = {}
  BY <1>8, <1>11 DEF Finished
<1>15. UnloopedIn(r, d, {})
  <2>1. Through(e, {}, {})
    BY <1>5 DEF Through
  <2>2. \A i \in 1..Len(r) : i = 1
    BY <1>7
  <2>3. Now(r, 1) = {}
    BY DEF Now
  <2>. QED
    BY <1>7, <1>14, <2>1, <2>2, <2>3 DEF UnloopedIn
<1>16. r = reading' /\ d = done' /\ file' = {} /\ report' = p
  BY <1>1, <1>2, <1>3, <1>6, <1>11
<1>17. PlacedIn(reading, done)'
  BY <1>1, <1>9, <1>10, <1>13, <1>16 DEF PlacedIn, Placed, Frames, Under
<1>18. UnloopedIn(reading, done, file)'
  BY <1>9, <1>10, <1>15, <1>16 DEF UnloopedIn, Finished, Under, Looped, Through, Now
<1>19. LinesIn(reading, done, file)'
  <2>1. Looped({}) = FALSE
    BY DEF Looped
  <2>2. /\ report' \in d /\ d \subseteq Closure(report') /\ d \subseteq all' /\ report' \in all'
        /\ d \ {report'} = {}
    BY <1>1, <1>4, <1>11, <1>16
  <2>3. Closure(report)' = Closure(p)
    BY <1>1, <1>9, <1>16 DEF Closure
  <2>4. Finished(reading, done)' = {}
    BY <1>14, <1>16 DEF Finished, Under
  <2>5. (~Looped(file))'
    BY <1>16 DEF Looped
  <2>. QED
    BY <1>4, <1>11, <1>16, <2>2, <2>3, <2>4, <2>5 DEF LinesIn, Looped
<1>20. done' # {}
  BY <1>2
<1>. QED
  BY <1>17, <1>18, <1>19, <1>20 DEF FileInv, FileIn

LEMMA FilesGoOn ==
  ASSUME ReverseInv, FileInv, _writeRdependList
  PROVE  FileInv'
<1>1. UNCHANGED <<all, reverse, report>> /\ reading # <<>>
  BY DEF _writeRdependList, vars, addedVars
<1>2. phase = "written" /\ done # {}
  BY <1>1 DEF ReverseInv, FileInv
<1>3. PICK r : r = reading
  OBVIOUS
<1>4. PICK d : d = done
  OBVIOUS
<1>5. PICK f : f = file
  OBVIOUS
<1>6. FileIn(r, d, f) /\ r # <<>> /\ d # {}
  BY <1>1, <1>2, <1>3, <1>4, <1>5 DEF FileInv
<1>7. PICK c : c = r[1]
  OBVIOUS
<1>8. r \in Seq(Frames) /\ Head(reading) = c /\ c \in Frames
  BY <1>3, <1>6, <1>7, InnermostCall DEF FileIn, PlacedIn
<1>9. CASE c.left = {}
  <2>1. reading' = Tail(r) /\ done' = d /\ file' = f
    BY <1>3, <1>4, <1>5, <1>8, <1>9 DEF _writeRdependList
  <2>2. PICK s : s = Tail(r)
    OBVIOUS
  <2>3. FileIn(s, d, f)
    BY <1>2, <1>6, <1>7, <1>9, <2>2, FilePops
  <2>. QED
    BY <1>1, <1>6, <2>1, <2>2, <2>3, FilesMove
<1>10. CASE c.left # {}
  <2>. DEFINE says(p) == Says(p, c.path)
              rest(p) == <<[c EXCEPT !.left = @ \ {p}]>> \o Tail(reading)
  <2>1. PICK p \in c.left :
          /\ file' = file \cup {<<p, c.pkg, says(p)>>}
          /\ IF says(p) = "entry"
             THEN reading' = <<Entry(p, c.path)>> \o rest(p) /\ done' = done \cup {p}
             ELSE reading' = rest(p) /\ UNCHANGED done
    BY <1>8, <1>10 DEF _writeRdependList
  <2>2. PICK k : k = [c EXCEPT !.left = @ \ {p}]
    OBVIOUS
  <2>3. k \in Frames /\ k.pkg = c.pkg /\ k.path = c.path /\ k.left = c.left \ {p}
    BY <1>8, <2>2 DEF Frames
  <2>4. PICK t : t = <<k>> \o Tail(r)
    OBVIOUS
  <2>5. t = rest(p)
    BY <1>3, <2>2, <2>4
  <2>6. PICK w : w = says(p)
    OBVIOUS
  <2>7. /\ file' = f \cup {<<p, c.pkg, w>>}
        /\ IF w = "entry"
           THEN reading' = <<Entry(p, c.path)>> \o t /\ done' = d \cup {p}
           ELSE reading' = t /\ done' = d
    BY <1>4, <1>5, <2>1, <2>5, <2>6
  <2>8. \/ w = "loop" /\ p \in c.path
        \/ w = "skipped" /\ p \notin c.path /\ p \in d
        \/ w = "entry" /\ p \notin c.path /\ p \notin d
    BY <1>4, <2>6 DEF Says
  <2>. HIDE DEF says, rest
  <2>9. ReadsOn(r, d, c, p, k, t)
    BY <1>6, <1>7, <2>3, <2>4, FileReads
  <2>10. PICK g : g = f \cup {<<p, c.pkg, w>>}
    OBVIOUS
  <2>11. CASE w # "entry"
    <3>1. FileIn(t, d, g)
      BY <1>2, <1>6, <1>7, <2>8, <2>9, <2>10, <2>11, FileLines
    <3>2. t = reading' /\ d = done' /\ g = file'
      BY <2>7, <2>10, <2>11
    <3>. QED
      BY <1>1, <1>6, <3>1, <3>2, FilesMove
  <2>12. CASE w = "entry"
    <3>1. PICK e : e = Entry(p, c.path)
      OBVIOUS
    <3>2. PICK s : s = <<e>> \o t
      OBVIOUS
    <3>3. e \in Frames => Below(t, e, s)
      BY <2>9, <3>2, Readmore DEF ReadsOn
    <3>4. PICK h : h = d \cup {p}
      OBVIOUS
    <3>5. g = f \cup {<<p, c.pkg, "entry">>} /\ p \notin c.path /\ p \notin d
      BY <2>8, <2>10, <2>12
    <3>6. FileIn(s, d \cup {p}, g)
      BY <1>2, <1>6, <1>7, <2>9, <3>1, <3>3, <3>5, FileEnters
    <3>7. s = reading' /\ h = done' /\ g = file' /\ h # {}
      BY <2>7, <2>10, <2>12, <3>1, <3>2, <3>4
    <3>8. FileIn(s, h, g)
      BY <3>4, <3>6
    <3>. QED
      BY <1>1, <3>7, <3>8, FilesMove
  <2>. QED
    BY <2>11, <2>12
<1>. QED
  BY <1>9, <1>10

LEMMA FileKept ==
  ASSUME StackInv, ReverseInv, FileInv, [RdependsNext]_rdependsAllVars
  PROVE  FileInv'
<1>1. CASE UNCHANGED rdependsAllVars
  <2>1. UNCHANGED <<all, reverse, report, reading, done, file>>
    BY <1>1 DEF rdependsAllVars, vars, addedVars, rdependVars
  <2>2. CASE done = {}
    BY <2>1, <2>2 DEF FileInv
  <2>3. CASE done # {}
    <3>1. PICK r : r = reading'
      OBVIOUS
    <3>2. PICK d : d = done'
      OBVIOUS
    <3>3. PICK f : f = file'
      OBVIOUS
    <3>4. FileIn(r, d, f) /\ d # {}
      BY <2>1, <2>3, <3>1, <3>2, <3>3 DEF FileInv
    <3>. QED
      BY <2>1, <3>1, <3>2, <3>3, <3>4, FilesMove
  <2>. QED
    BY <2>2, <2>3
<1>2. CASE (Next /\ UNCHANGED rdependVars) \/ reverseDepends \/ writeLists
  <2>1. phase # "written" /\ UNCHANGED <<reading, done, file>>
    BY <1>2, SeedsAreDone DEF reverseDepends, writeLists, rdependVars, Told
  <2>2. reading' = <<>> /\ done' = {} /\ file' = {}
    BY <2>1 DEF ReverseInv
  <2>. QED
    BY <2>2 DEF FileInv
<1>3. CASE writeRdependList
  <2>1. phase = "written" /\ file = {}
    BY <1>3 DEF writeRdependList, FileInv
  <2>. QED
    BY <1>3, <2>1, FilesBegin
<1>4. CASE _writeRdependList
  BY <1>4, FilesGoOn
<1>. QED
  BY <1>1, <1>2, <1>3, <1>4 DEF RdependsNext

LEMMA FileAlways == RdependsSpec => []FileInv
<1>1. RdependsInit => FileInv
  BY DEF RdependsInit, FileInv
<1>2. StackInv /\ ReverseInv /\ FileInv /\ [RdependsNext]_rdependsAllVars => FileInv'
  BY FileKept
<1>. QED
  BY <1>1, <1>2, StackAlways, ReverseAlways, PTL DEF RdependsSpec

(* What rdepends/ tells of a package is everything it is there for: its    *)
(* file, once written, has an entry for everyone who depends on it through *)
(* whatever others, and says "loop" exactly when one of them depends on    *)
(* itself; and nobody is in a dependency list for a reason that the files  *)
(* cannot show (germinator.py, reverseDepends and _writeRdependList).      *)
THEOREM RdependsTold == RdependsSpec => []RdependsTell
<1>1. /\ ParseInv /\ PlantInv /\ SeedsInv /\ StackInv /\ ReverseInv /\ CausesInv /\ FileInv
      => RdependsTell
  BY CausesShown, FilesComplete DEF RdependsTell
<1>. QED
  BY <1>1, ParseAlways, PlantAlways, SeedsAlways, StackAlways, ReverseAlways, CausesAlways,
     FileAlways, PTL
=============================================================================
