----------------------------- MODULE MCGerminate -----------------------------
(***************************************************************************)
(* Worlds for Germinator: a family that varies dependencies, seeds and a   *)
(* blacklist independently, and single worlds for everything else a        *)
(* structure, a seed text or an archive can say.                           *)
(***************************************************************************)
EXTENDS ReverseDependencies

Dep(n) == [name |-> n, rel |-> "", version |-> 0]
One(n) == << <<Dep(n)>> >>                   \* a single clause
Or(m, n) == << <<Dep(m), Dep(n)>> >>         \* a single clause: m | n
Deb(n, clauses) ==
  [kind |-> "deb", name |-> n, version |-> 1, depends |-> clauses,
   recommends |-> <<>>, provides |-> <<>>, source |-> n, metapackage |-> FALSE,
   kernel |-> ""]
Src(n, clauses, binaries) ==
  [kind |-> "source", name |-> n, version |-> 1, builddeps |-> clauses,
   binaries |-> binaries]
Line(kind, n, values) ==
  [kind |-> kind, marks |-> {}, name |-> n, values |-> values]
Item(n) == Line("entry", n, <<n>>)
Marked(n, mark) == [Item(n) EXCEPT !.marks = {mark}]

NoText == [s \in {"base", "desktop", "server", "supported"} |-> <<>>]
Branch(lines, texts) == [structure |-> lines, texts |-> texts @@ NoText]
World(lines, texts, archive) ==
  [top |-> "main", branches |-> "main" :> Branch(lines, texts),
   hints |-> <<>>, seed_packages |-> <<>>, sections |-> archive]

Chain == <<Line("seed", "base", <<>>), Line("seed", "desktop", <<"base">>),
           Line("seed", "supported", <<"base", "desktop">>)>>
Diamond == <<Line("seed", "base", <<>>), Line("seed", "desktop", <<"base">>),
             Line("seed", "server", <<"base">>),
             Line("seed", "supported", <<"desktop", "server">>)>>

-----------------------------------------------------------------------------
(* The family: packages a, b, c; b and c provide v; a is seeded in base,   *)
(* the others somewhere or nowhere, one is blacklisted somewhere.          *)
Family ==
  {World(Diamond,
     [s \in {"base", "desktop", "server"} |->
        (IF s = "base" THEN <<Item("a")>> ELSE <<>>)
        \o (IF s \in ws.b THEN <<Item("b")>> ELSE <<>>)
        \o (IF s = ws.c THEN <<Item("c")>> ELSE <<>>)
        \o (IF s = ws.black[1] THEN <<Marked(ws.black[2], "!")>> ELSE <<>>)],
     << Deb("a", ws.da), [Deb("b", ws.db) EXCEPT !.provides = <<"v">>],
        [Deb("c", ws.dc) EXCEPT !.provides = <<"v">>], Deb("d", <<>>),
        Src("a", ws.ba, <<"a", "d">>), Src("b", One("d"), <<"b">>),
        Src("c", One("b"), <<"c">>) >>)
   : ws \in
     [da : {One("v"), Or("b", "c"), One("b") \o One("c")},
      db : {<<>>, One("a"), One("c")},
      dc : {One("d"), One("v")},
      ba : {<<>>, One("c"), One("v")},
      b : {{}, {"desktop", "server"}},
      c : {"none", "server"},
      black : {<<"none", "">>, <<"base", "b">>, <<"server", "c">>}]}

-----------------------------------------------------------------------------
(* Every text of up to two lines for base and one for desktop, from lines  *)
(* of every kind, over an archive with two versions of a package, kernel   *)
(* modules that provide mod, recommendations, and binaries e, f, g of its  *)
(* sources that nothing needs.                                             *)
Lines ==
  <<Line("kernel-version", "", <<"1">>), Line("feature", "", <<"follow-recommends">>),
    Line("task-seeds", "", <<"base">>), Line("include", "extra", <<"e", "r">>),
    Line("include", "base", <<"e">>), Line("exclude", "extra", <<"r">>),
    Item("a"), Item("u"), Item("mod"), Item("f"), Item("unknown"),
    Marked("s", "%"), [Marked("r*", "(") EXCEPT !.values = <<"r", "rr">>],
    Marked("e", "!"), Marked("r", "!"), Marked("k2", "!")>>

Archive ==
  << [Deb("a", One("old")) EXCEPT !.version = 2, !.source = "s", !.recommends = One("r")],
     [Deb("a", One("mod")) EXCEPT !.source = "s", !.provides = <<"never">>],
     [Deb("r", << <<[Dep("a") EXCEPT !.rel = ">=", !.version = 2]>> >>) EXCEPT !.source = "s"],
     [Deb("rr", Or("unknown", "f")) EXCEPT !.metapackage = TRUE, !.recommends = One("e")],
     [Deb("old", <<>>) EXCEPT !.provides = <<"virtual">>],
     [Deb("old", << <<[Dep("r") EXCEPT !.rel = "<", !.version = 1], Dep("virtual")>> >>)
        EXCEPT !.version = 2],
     [Deb("u", One("mod")) EXCEPT !.kind = "udeb", !.source = "k"],
     [Deb("k1", <<>>) EXCEPT !.kind = "udeb", !.kernel = "1", !.provides = <<"mod">>, !.source = "k"],
     [Deb("k2", <<>>) EXCEPT !.kind = "udeb", !.kernel = "2", !.provides = <<"mod">>, !.source = "k"],
     [Deb("e", One("f")) EXCEPT !.source = "s"], Deb("f", One("g")), Deb("g", <<>>),
     Src("s", Or("virtual", "g"), <<"a", "r", "e">>), Src("k", One("rr"), <<"u", "k1", "k2">>),
     Src("f", One("k1") \o One("e"), <<"f">>), Src("g", <<>>, <<"g">>) >>

Texts ==
  {World(Chain,
     "base" :> ((IF pick[1] = pick[2] THEN <<>> ELSE <<Lines[pick[1]]>>) \o <<Lines[pick[2]]>>)
     @@ "desktop" :> <<Lines[pick[3]], Item("rr")>>
     @@ "supported" :> <<Item("r"), Item("e")>>, Archive)
   : pick \in {t \in (DOMAIN Lines) \X (DOMAIN Lines) \X {3, 7, 12, 13, 15} : t[1] <= t[2]}}

Hinted ==
  {[World(Chain, "base" :> <<Item("a"), Item("r")>> @@ "desktop" :> <<Item("r"), Item("e")>>,
          Archive) EXCEPT !.hints = h]
   : h \in {"r" :> "desktop", "r" :> "base" @@ "e" :> "extra", "f" :> "base", "g" :> "desktop"}}

\* Packages seeded on top of the innermost or the last seed, one of them on top
\* of the other, one that names no seed, and one that is a seed's parent already.
Added ==
  {[World(Chain, "base" :> <<Item("a"), Item("r")>> @@ "desktop" :> <<Item("rr")>>,
          Archive) EXCEPT !.seed_packages = more]
   : more \in {<<[parent |-> p, pkg |-> "f"], [parent |-> q, pkg |-> "u"]>>
                 : p \in {"base", "supported"}, q \in {"desktop", "f", "ghost"}}}
  \cup {[World(<<Line("seed", "base", <<"f">>)>>, <<>>, Archive) EXCEPT
            !.seed_packages = <<[parent |-> "base", pkg |-> "f"]>>]}

\* What is rescued to build with needs what a seed on top of the last one has:
\* one that --seed-packages adds, or one that STRUCTURE has above it.
OnTopOfLast ==
  LET Rescue == Line("include", "extra", <<"e">>)
      archive == <<Deb("a", <<>>), [Deb("b", <<>>) EXCEPT !.source = "b"],
                   [Deb("e", One("f")) EXCEPT !.source = "b"], Deb("f", <<>>),
                   Src("a", One("b"), <<"a">>), Src("b", <<>>, <<"b", "e">>)>>
  IN {[World(Chain, "base" :> <<Item("a")>> @@ "supported" :> <<Rescue>>, archive)
         EXCEPT !.seed_packages = <<[parent |-> "supported", pkg |-> "f"]>>],
      World(<<Line("seed", "desktop", <<"base">>), Line("seed", "base", <<>>)>>,
            "base" :> <<Item("a"), Rescue>> @@ "desktop" :> <<Item("f")>>, archive)}

\* A source of a deb and a udeb, with a versioned dependency on a virtual package.
TwoKinds ==
  {World(Chain, "base" :> one @@ "desktop" :> other,
         <<[Deb("x", <<>>) EXCEPT !.source = "s"],
           [Deb("y", <<>>) EXCEPT !.source = "s", !.kind = "udeb"],
           [Deb("z", <<>>) EXCEPT !.provides = <<"v">>],
           Src("s", << <<[Dep("v") EXCEPT !.rel = ">=", !.version = 1]>> >>, <<"x", "y">>)>>)
   : one \in {<<Item("x")>>, <<Item("y")>>, <<Item("x"), Item("y")>>}, other \in {<<Item("y")>>, <<>>}}

-----------------------------------------------------------------------------
(* Every inheritance among three seeds, cycles included, and structures    *)
(* with several branches, an unknown parent and a seed without a text.     *)
Structures ==
  {World([i \in 1..3 |-> Line("seed", n[i], SetToSeq(parents[i]))], <<>>, <<Deb("a", <<>>)>>)
   : n \in {<<"base", "desktop", "server">>}, parents \in [1..3 -> SUBSET {"base", "desktop", "server"}]}

Branched ==
  {[World(<<>>, <<>>, <<Deb("a", One("b")), Deb("b", <<>>), Src("b", <<>>, <<"b">>)>>) EXCEPT
      !.branches =
        "main" :> [structure |-> <<Line("include", "", inc)>> \o main, texts |-> "supported" :> <<>>]
        @@ "x" :> [structure |-> <<Line("include", "", nested)>> \o SubSeq(Chain, 1, 2),
                   texts |-> "base" :> <<Item("a")>> @@ "desktop" :> <<>>]
        @@ "z" :> [structure |-> <<Line("seed", "base", <<"root">>), Line("seed", "root", <<>>),
                                   Line("feature", "", <<"follow-recommends">>)>>,
                   texts |-> "base" :> <<Item("b")>> @@ "root" :> <<>>]]
   : inc \in {<<"x">>, <<"x", "z">>, <<"z", "x">>, <<"x", "z", "x">>}, nested \in {<<>>, <<"z">>, <<"main">>},
     main \in {<<Chain[3]>>, <<Line("seed", "supported", <<"ghost">>)>>,
               <<Chain[3], Line("seed", "lost", <<>>)>>, Chain}}

\* Nothing in the STRUCTURE file, nor in the archive.
Empty == {World(<<>>, <<>>, <<Deb("a", <<>>)>>), World(<<>>, <<>>, <<>>)}

MCWorlds ==
  Family \cup Texts \cup Hinted \cup Added \cup OnTopOfLast \cup TwoKinds \cup Structures
  \cup Branched \cup Empty
==============================================================================
