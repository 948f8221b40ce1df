------------------------------- MODULE MCBritney -------------------------------
(* Instances of Britney for TLC.  Sources a, b, c with a binary package each,  *)
(* in version 1 in testing; c may be new.                                      *)
EXTENDS Britney, TLC

BothArches == {"alpha", "i386"}
AllFor == {"i386"}

Next3 == [a |-> "b", b |-> "c", c |-> "a"]
Bin(name, src, sver, ver, deps, conflicts) ==
    [name |-> name, source |-> src, sver |-> sver, ver |-> ver, all |-> FALSE,
     deps |-> deps, conflicts |-> conflicts]
Rel(name, vers) == {[name |-> name, vers |-> vers]}
Source(ver, bins) == [ver |-> ver, bins |-> bins]
Everywhere(bins) == [arch \in BothArches |-> bins]
Mine(s, ver, deps) == Bin(s, s, ver, ver, deps, {})
NextIn(s, ver) == {Rel(Next3[s], {ver})}

\* In testing: alone, or bound to the old version of the next source.
OldOnes(s) == {Source(1, Everywhere({Mine(s, 1, deps)})) : deps \in {{}, NextIn(s, 1)}}

\* In unstable: the same; gone; new, and alone, or together with the next
\* source's new version, or taking over the next source's binary package; only
\* rebuilt on one architecture; new, but bound to the next source on alpha.
NewOnes(s) ==
    {Source(2, Everywhere({Mine(s, 2, deps)})) : deps \in {{}, NextIn(s, 2)}}
    \cup {Source(2, [i386 |-> {Mine(s, 2, {})}, alpha |-> {Mine(s, 2, NextIn(s, 2))}])}
Taking(s) ==
    Source(2, Everywhere({Mine(s, 2, {}),
                          Bin(Next3[s], s, 2, 3, {}, Rel(s, {1}))}))
Rebuilt(s, old) ==
    Source(1, [old.bins EXCEPT !.alpha = {Bin(s, s, 1, 2, {}, Rel(Next3[s], {1}))}])

\* With documentation for all architectures that needs the next source's new
\* version.
Documented(s) ==
    Source(2, Everywhere({Mine(s, 2, {}),
                          [Bin("doc", s, 2, 2, NextIn(s, 2), {}) EXCEPT !.all = TRUE]}))

Kept(old, s) == {old[t] : t \in {s} \cap DOMAIN old}
Unstables(old) ==
    {f @@ g :
        f \in {<<>>} \cup {"a" :> x : x \in {Taking("a")} \cup Kept(old, "a") \cup NewOnes("a")},
        g \in {"b" :> y @@ "c" :> z
                 : y \in {Rebuilt("b", old["b"])} \cup Kept(old, "b") \cup NewOnes("b"),
                   z \in {Documented("c")} \cup Kept(old, "c") \cup NewOnes("c")}}

SourceOp(s) == [op |-> Op(s, "source"), ver |-> 2]
EasyHint == [easy |-> TRUE, hint |-> <<SourceOp("a"), SourceOp("b")>>]
SlowHint == [easy |-> FALSE, hint |-> <<SourceOp("c"), SourceOp("a")>>]

Olds ==
    UNION {{f \in [srcs -> UNION {OldOnes(s) : s \in srcs}] : \A s \in srcs : f[s] \in OldOnes(s)}
              : srcs \in {{"a", "b"}, {"a", "b", "c"}}}

\* The third source is held back, by its age or by a bug that its version in
\* testing may have as well.
NoBugs == [c |-> 0]
Holds == {[young |-> {}, testingbugs |-> NoBugs, unstablebugs |-> NoBugs],
          [young |-> {"c"}, testingbugs |-> NoBugs, unstablebugs |-> NoBugs],
          [young |-> {}, testingbugs |-> [b |-> 1], unstablebugs |-> [c |-> 1]]}

\* One hint, or more than are used.
SomeHints(hold) ==
    IF hold.young = {} THEN <<SlowHint>> ELSE [i \in 1 .. 7 |-> SlowHint]

SomeWorlds ==
    UNION {[testing : {old}, unstable : Unstables(old), easy : {<<EasyHint>>},
            hints : {SomeHints(hold)}, remove : {{}, {[src |-> "b", ver |-> 1]}},
            young : {hold.young}, testingbugs : {hold.testingbugs},
            unstablebugs : {hold.unstablebugs}]
           : old \in Olds, hold \in Holds}
=============================================================================
