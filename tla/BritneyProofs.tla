----------------------------- MODULE BritneyProofs -----------------------------
(* What Britney keeps, for any number of sources and architectures, whatever   *)
(* the candidates, the hints and the order in which candidates are tried.      *)
(* Operators here take the world as an argument, which no step changes.        *)
EXTENDS Britney, TLAPS, FiniteSetTheorems, SequenceTheorems, WellFoundedInduction

-----------------------------------------------------------------------------
(* Working copies.  Each note has a set of binary packages for each            *)
(* architecture, which testing or unstable has too, and shares none of their   *)
(* names with another one.                                                     *)
Known(w, arch) == Bins(w.testing, arch) \cup Bins(w.unstable, arch)

AllKnown(w, note) == \A arch \in Architectures : note[arch] \subseteq Known(w, arch)

IsNotes(w, n) ==
    /\ n = [s \in DOMAIN n |-> n[s]]
    /\ \A s \in DOMAIN n : DOMAIN n[s] = Architectures /\ AllKnown(w, n[s])

AllOf(src, note) == \A arch \in Architectures : \A b \in note[arch] : b.source = src

Disjoint(n) ==
    \A s, t \in DOMAIN n, arch \in Architectures :
        s # t => Names(n[s][arch]) \cap Names(n[t][arch]) = {}

Owned(n) == Disjoint(n) /\ \A s \in DOMAIN n : AllOf(s, n[s])

Good(w, n) == IsNotes(w, n) /\ Owned(n)

Start(w) == [src \in DOMAIN w.testing |-> w.testing[src].bins]

(* What a candidate may be, as far as applying it is concerned: what it takes  *)
(* binaries from is there.                                                     *)
Applicable(w) ==
    {op \in [src : DOMAIN w.testing \cup DOMAIN w.unstable,
             what : Architectures \cup {"remove", "source"}] :
        op.what = "remove" \/ op.src \in DOMAIN w.unstable}

(* No source has both a removal and a binary-only upload.                      *)
Exclusive(ops) ==
    \A op \in ops : op.what \in Architectures => Op(op.src, "remove") \notin ops

LEMMA CandidateShape ==
  LET candidates == Removals \cup BinaryUpgrades \cup Upgrades IN
  /\ candidates \subseteq Applicable(world)
  /\ Exclusive(candidates)
  /\ \A op \in candidates : Defined(Start(world), op)
<1>. DEFINE candidates == Removals \cup BinaryUpgrades \cup Upgrades
<1>1. \A op \in Removals :
         /\ op = Op(op.src, "remove") /\ op.what = "remove" /\ op.src \in DOMAIN testing
         /\ ShouldRemoveSource(op.src) \/ RemoveHint(op.src, testing)
  BY DEF Removals, Op
<1>2. \A op \in Upgrades :
         op = Op(op.src, "source") /\ op.what = "source" /\ op.src \in DOMAIN unstable
  BY DEF Upgrades, Op
<1>3. ASSUME NEW op \in BinaryUpgrades
      PROVE  /\ op = Op(op.src, op.what) /\ op.src \in DOMAIN unstable \cap DOMAIN testing
             /\ op.what \in Architectures
             /\ ~RemoveHint(op.src, testing) /\ ~ShouldRemoveSource(op.src)
  <2>1. /\ op = Op(op.src, op.what) /\ op.src \in DOMAIN unstable
        /\ op.what \in Architectures
        /\ Has(testing, op.src) /\ ShouldUpgradeSrcArch(op.src, op.what)
    <3>. HIDE DEF testing, unstable
    <3>. QED
      BY DEF BinaryUpgrades, Op
  <2>2. ~RemoveHint(op.src, testing)
    BY <2>1 DEF ShouldUpgradeSrcArch
  <2>. QED
    BY <2>1, <2>2 DEF Has, ShouldRemoveSource
<1>. HIDE DEF testing, unstable
<1>4. candidates \subseteq Applicable(world)
  BY <1>1, <1>2, <1>3 DEF Applicable, Op, testing, unstable
<1>5. Exclusive(candidates)
  BY <1>1, <1>2, <1>3, ArchitecturesAssumption DEF Exclusive, Op
<1>6. \A op \in candidates : Defined(Start(world), op)
  BY <1>1, <1>2, <1>3 DEF Defined, Start, testing
<1>. QED
  BY <1>4, <1>5, <1>6

LEMMA StartIsGood == ASSUME NEW w \in Worlds PROVE Good(w, Start(w))
<1>1. \A src \in DOMAIN w.testing :
         /\ DOMAIN w.testing[src].bins = Architectures
         /\ \A arch \in Architectures : w.testing[src].bins[arch] \subseteq Known(w, arch)
  <2>1. ASSUME NEW src \in DOMAIN w.testing, NEW arch \in Architectures
        PROVE  w.testing[src].bins[arch] \subseteq Known(w, arch)
    BY DEF Known, Bins
  <2>. QED
    BY <2>1, WorldsAssumption
<1>2. IsNotes(w, Start(w))
  BY <1>1 DEF IsNotes, AllKnown, Start
<1>3. Owned(Start(w))
  BY WorldsAssumption DEF Owned, Disjoint, AllOf, Start
<1>. QED
  BY <1>2, <1>3 DEF Good

-----------------------------------------------------------------------------
(* The operations on a working copy.                                           *)

(* Taking binaries over leaves each with one owner, whoever had them.          *)
LEMMA TakeIsGood ==
  ASSUME NEW w, NEW n, NEW src, NEW new, IsNotes(w, n), Owned(n), AllKnown(w, new),
         AllOf(src, new)
  PROVE  Good(w, Take(n, src, new))
<1>. DEFINE own(s) == IF s \in DOMAIN n THEN n[s] ELSE NewNote
            left(s, arch) == {b \in own(s)[arch] : b.name \notin Names(new[arch])}
            m == Take(n, src, new)
<1>1. /\ DOMAIN m = DOMAIN n \cup {src} /\ m = [s \in DOMAIN m |-> m[s]]
      /\ \A s \in DOMAIN m :
             /\ DOMAIN m[s] = Architectures
             /\ \A arch \in Architectures :
                    m[s][arch] = left(s, arch) \cup (IF s = src THEN new[arch] ELSE {})
  BY DEF Take
<1>2. \A s \in DOMAIN m, arch \in Architectures : own(s)[arch] \subseteq Known(w, arch)
  BY DEF IsNotes, AllKnown, NewNote
<1>3. IsNotes(w, m)
  <2>. HIDE DEF m, own
  <2>. QED
    BY <1>1, <1>2 DEF IsNotes, AllKnown
<1>4. ASSUME NEW s \in DOMAIN m, NEW t \in DOMAIN m, NEW arch \in Architectures, s # t
      PROVE  Names(own(s)[arch]) \cap Names(own(t)[arch]) = {}
  BY <1>4 DEF Owned, Disjoint, NewNote, Names
<1>5. ASSUME NEW s \in DOMAIN m, NEW t \in DOMAIN m, NEW arch \in Architectures, s # t
      PROVE  Names(m[s][arch]) \cap Names(m[t][arch]) = {}
  <2>1. Names(left(s, arch)) \cap Names(left(t, arch)) = {}
    BY <1>4, <1>5 DEF Names
  <2>2. \A u \in DOMAIN m : Names(left(u, arch)) \cap Names(new[arch]) = {}
    BY DEF Names
  <2>3. \A u \in DOMAIN m : Names(m[u][arch])
            = Names(left(u, arch)) \cup (IF u = src THEN Names(new[arch]) ELSE {})
    <3>. HIDE DEF m, left
    <3>. QED
      BY <1>1 DEF Names
  <2>. HIDE DEF m, left, own
  <2>. QED
    BY <1>5, <2>1, <2>2, <2>3
<1>6. ASSUME NEW s \in DOMAIN m, NEW arch \in Architectures, NEW b \in m[s][arch]
      PROVE  b.source = s
  BY DEF Owned, AllOf, Take, NewNote
<1>7. Owned(m)
  <2>. HIDE DEF m
  <2>. QED
    BY <1>5, <1>6 DEF Owned, Disjoint, AllOf
<1>. QED
  BY <1>3, <1>7 DEF Good

LEMMA WithoutIsGood ==
  ASSUME NEW w, NEW n, Good(w, n), NEW src
  PROVE  Good(w, Without(n, src)) /\ DOMAIN Without(n, src) = DOMAIN n \ {src}
<1>. DEFINE m == Without(n, src)
<1>1. /\ DOMAIN m = DOMAIN n \ {src} /\ m = [s \in DOMAIN m |-> m[s]]
      /\ \A s \in DOMAIN m : m[s] = n[s]
  BY DEF Without
<1>. HIDE DEF m
<1>2. IsNotes(w, m)
  BY <1>1 DEF Good, IsNotes
<1>3. Disjoint(m)
  BY <1>1 DEF Good, Owned, Disjoint
<1>4. Owned(m)
  BY <1>1, <1>3 DEF Good, Owned
<1>. QED
  BY <1>1, <1>2, <1>4 DEF Good, m

(* Any candidate may be applied to any working copy; only a removal takes a    *)
(* source away, its own.                                                       *)
LEMMA DoopIsGood ==
  ASSUME world \in Worlds, NEW n, Good(world, n), NEW op \in Applicable(world)
  PROVE  /\ Good(world, Doop(n, op))
         /\ DOMAIN Doop(n, op) \subseteq DOMAIN n \cup {op.src}
         /\ \A s \in DOMAIN n : s \in DOMAIN Doop(n, op) \/ op = Op(s, "remove")
<1>0. /\ op = Op(op.src, op.what)
      /\ op.what = "remove" \/ op.src \in DOMAIN unstable
      /\ op.what \in Architectures \cup {"remove", "source"}
  BY DEF Applicable, Op, unstable
<1>1. CASE op.what = "remove"
  <2>1. Doop(n, op) = Without(n, op.src)
    BY <1>1 DEF Doop
  <2>2. Good(world, Without(n, op.src)) /\ DOMAIN Without(n, op.src) = DOMAIN n \ {op.src}
    BY WithoutIsGood
  <2>. QED
    BY <1>0, <1>1, <2>1, <2>2
<1>2. CASE op.what = "source"
  <2>. DEFINE rest == Without(n, op.src)
              new == unstable[op.src].bins
  <2>1. AllKnown(world, new) /\ AllOf(op.src, new)
    BY <1>0, <1>2, WorldsAssumption DEF AllKnown, AllOf, Known, Bins, unstable
  <2>2. Doop(n, op) = Take(rest, op.src, new)
    BY <1>2 DEF Doop
  <2>3. IsNotes(world, rest) /\ Owned(rest) /\ DOMAIN rest = DOMAIN n \ {op.src}
    BY WithoutIsGood DEF Good
  <2>. HIDE DEF rest, new
  <2>4. Good(world, Take(rest, op.src, new))
    BY <2>1, <2>3, TakeIsGood
  <2>5. DOMAIN Take(rest, op.src, new) = DOMAIN rest \cup {op.src}
    BY DEF Take
  <2>. QED
    BY <2>2, <2>3, <2>4, <2>5
<1>3. CASE op.what \notin {"remove", "source"}
  <2>. DEFINE arch == op.what
              kept == [n EXCEPT ![op.src][arch] = {b \in @ : b.all}]
              new == [a \in Architectures |->
                         IF a = arch THEN {b \in unstable[op.src].bins[arch] : ~b.all} ELSE {}]
  <2>1. Doop(n, op) = Take(kept, op.src, new)
    BY <1>3 DEF Doop
  <2>2. AllKnown(world, new) /\ AllOf(op.src, new)
    <3>1. op.src \in DOMAIN unstable /\ arch \in Architectures
      BY <1>0, <1>3
    <3>2. /\ unstable[op.src].bins[arch] \subseteq Known(world, arch)
          /\ \A b \in unstable[op.src].bins[arch] : b.source = op.src
      BY <3>1, WorldsAssumption DEF Known, Bins, unstable
    <3>. QED
      BY <3>1, <3>2 DEF AllKnown, AllOf
  <2>3. DOMAIN kept = DOMAIN n /\ kept = [s \in DOMAIN kept |-> kept[s]]
    BY DEF Good, IsNotes
  <2>4. \A s \in DOMAIN n :
           /\ DOMAIN kept[s] = Architectures
           /\ \A a \in Architectures : kept[s][a] \subseteq n[s][a]
    BY DEF Good, IsNotes
  <2>. HIDE DEF kept, new
  <2>5. IsNotes(world, kept)
    BY <2>3, <2>4 DEF Good, IsNotes, AllKnown
  <2>6. Owned(kept)
    <3>1. \A s \in DOMAIN kept, a \in Architectures : Names(kept[s][a]) \subseteq Names(n[s][a])
      BY <2>3, <2>4 DEF Names
    <3>2. Disjoint(kept)
      BY <2>3, <3>1 DEF Good, Owned, Disjoint
    <3>3. \A s \in DOMAIN kept : AllOf(s, kept[s])
      BY <2>3, <2>4 DEF Good, Owned, AllOf
    <3>. QED
      BY <3>2, <3>3 DEF Owned
  <2>7. Good(world, Take(kept, op.src, new))
    BY <2>2, <2>5, <2>6, TakeIsGood
  <2>8. DOMAIN Take(kept, op.src, new) = DOMAIN kept \cup {op.src}
    BY DEF Take
  <2>. QED
    BY <2>1, <2>3, <2>7, <2>8
<1>. QED
  BY <1>1, <1>2, <1>3

(* Whatever an operation does to its source and to the owners of the binaries  *)
(* it takes, what it has saved brings back.                                    *)
LEMMA UndoneBringsBack ==
  ASSUME NEW w, NEW old, NEW new, NEW src,
         IsNotes(w, old), DOMAIN new \subseteq DOMAIN old \cup {src}
  PROVE  Undone(new, Saved(old, new, src)) = old
<1>. DEFINE saved == Saved(old, new, src)
            changed == {src} \cup {s \in DOMAIN old : NoteOf(new, s) # old[s]}
            sources == {x.src : x \in saved}
            was == [s \in sources |-> (CHOOSE x \in saved : x.src = s).was]
            kept == {s \in DOMAIN new \cup DOMAIN was : s \in DOMAIN was => was[s] # NoNote}
<1>1. sources = changed
  <2>1. \A x \in saved : x.src \in changed
    BY DEF Saved
  <2>2. \A s \in changed : [src |-> s, was |-> NoteOf(old, s)] \in saved
    BY DEF Saved
  <2>3. \A s \in changed : \E x \in saved : x.src = s
    BY <2>2
  <2>. HIDE DEF saved, changed
  <2>. QED
    BY <2>1, <2>3
<1>2. \A s \in sources : was[s] = NoteOf(old, s)
  BY DEF Saved
<1>3. \A s \in DOMAIN old : old[s] # NoNote
  BY ArchitecturesAssumption DEF IsNotes, NoNote
<1>4. Undone(new, saved) = [s \in kept |-> IF s \in DOMAIN was THEN was[s] ELSE new[s]]
  BY DEF Undone
<1>5. DOMAIN was = sources
  OBVIOUS
<1>. HIDE DEF saved, was, sources
<1>6. \A s : s \in kept <=> s \in DOMAIN old
  <2>1. ASSUME NEW s \in kept PROVE s \in DOMAIN old
    <3>1. CASE s \in sources
      BY <1>2, <1>5, <2>1, <3>1 DEF NoteOf
    <3>2. CASE s \notin sources
      BY <1>1, <1>5, <2>1, <3>2
    <3>. QED
      BY <3>1, <3>2
  <2>2. ASSUME NEW s \in DOMAIN old PROVE s \in kept
    <3>1. CASE s \in sources
      BY <1>2, <1>3, <1>5, <3>1 DEF NoteOf
    <3>2. CASE s \notin sources
      <4>1. s \in DOMAIN new
        BY <1>1, <1>3, <3>2 DEF NoteOf
      <4>. QED
        BY <1>5, <3>2, <4>1
    <3>. QED
      BY <3>1, <3>2
  <2>. QED
    BY <2>1, <2>2
<1>7. \A s \in DOMAIN old : (IF s \in DOMAIN was THEN was[s] ELSE new[s]) = old[s]
  <2>. SUFFICES ASSUME NEW s \in DOMAIN old
                PROVE  (IF s \in DOMAIN was THEN was[s] ELSE new[s]) = old[s]
    OBVIOUS
  <2>1. CASE s \in sources
    BY <1>2, <1>5, <2>1 DEF NoteOf
  <2>2. CASE s \notin sources
    BY <1>1, <1>3, <1>5, <2>2 DEF NoteOf
  <2>. QED
    BY <2>1, <2>2
<1>8. kept = DOMAIN old
  BY <1>6
<1>. HIDE DEF kept
<1>. QED
  BY <1>4, <1>7, <1>8 DEF IsNotes, saved

-----------------------------------------------------------------------------
(* Trails: the working copies between one where a call of do_all began and the *)
(* one it has now, with the operations that lead from each to the next and     *)
(* what undoes them, the last one first.                                       *)
IsTrail(w, t, from, to, ops, log) ==
    /\ ops \in Seq(Applicable(w))
    /\ \E X : log \in Seq(X)
    /\ Len(log) = Len(ops)
    /\ t[0] = from /\ t[Len(ops)] = to
    /\ \A i \in 0 .. Len(ops) :
           /\ Good(w, t[i])
           /\ \A s \in DOMAIN from :
                  s \in DOMAIN t[i] \/ \E j \in 1 .. i : ops[j] = Op(s, "remove")
    /\ \A i \in 1 .. Len(ops) : Undone(t[i], log[Len(ops) - i + 1]) = t[i - 1]

Leads(w, from, to, ops, log) == \E t : IsTrail(w, t, from, to, ops, log)

LEMMA TrailStarts == ASSUME NEW w, NEW n, Good(w, n) PROVE Leads(w, n, n, <<>>, <<>>)
<1>1. IsTrail(w, [i \in {0} |-> n], n, n, <<>>, <<>>)
  BY DEF IsTrail
<1>. QED
  BY <1>1 DEF Leads

LEMMA TrailGrows ==
  ASSUME NEW w, NEW from, NEW to, NEW ops, NEW log, Leads(w, from, to, ops, log),
         NEW op \in Applicable(w), NEW new, NEW saved,
         Good(w, new), Undone(new, saved) = to,
         \A s \in DOMAIN to : s \in DOMAIN new \/ op = Op(s, "remove")
  PROVE  Leads(w, from, new, Append(ops, op), <<saved>> \o log)
<1>. DEFINE k == Len(ops)
            ops2 == Append(ops, op)
            log2 == <<saved>> \o log
<1>1. PICK t : IsTrail(w, t, from, to, ops, log)
  BY DEF Leads
<1>. DEFINE t2 == [i \in 0 .. k + 1 |-> IF i = k + 1 THEN new ELSE t[i]]
<1>2. /\ ops \in Seq(Applicable(w)) /\ k \in Nat
      /\ Len(log) = k /\ t[0] = from /\ t[k] = to
  BY <1>1 DEF IsTrail
<1>3. /\ ops2 \in Seq(Applicable(w)) /\ Len(ops2) = k + 1
      /\ \A i \in 1 .. k : ops2[i] = ops[i]
      /\ ops2[k + 1] = op
  BY <1>2
<1>4. PICK X : log \in Seq(X)
  BY <1>1 DEF IsTrail
<1>5. /\ log2 \in Seq(X \cup {saved}) /\ Len(log2) = k + 1
      /\ log2[1] = saved /\ \A i \in 2 .. k + 1 : log2[i] = log[i - 1]
  <2>1. log \in Seq(X \cup {saved}) /\ <<saved>> \in Seq(X \cup {saved})
    BY <1>4
  <2>2. Len(<<saved>>) = 1 /\ <<saved>>[1] = saved
    OBVIOUS
  <2>. QED
    BY <1>2, <2>1, <2>2, ConcatProperties
<1>6. t2[0] = from /\ t2[k + 1] = new /\ \A i \in 0 .. k : t2[i] = t[i]
  BY <1>2
<1>. HIDE DEF ops2, log2, t2
<1>8. ASSUME NEW i \in 0 .. k + 1
      PROVE  /\ Good(w, t2[i])
             /\ \A s \in DOMAIN from :
                    s \in DOMAIN t2[i] \/ \E j \in 1 .. i : ops2[j] = Op(s, "remove")
  <2>1. CASE i \in 0 .. k
    <3>1. /\ Good(w, t[i])
          /\ \A s \in DOMAIN from : s \in DOMAIN t[i] \/ \E j \in 1 .. i : ops[j] = Op(s, "remove")
      BY <1>1, <2>1 DEF IsTrail
    <3>2. 1 .. i \subseteq 1 .. k
      BY <1>2, <2>1
    <3>. QED
      BY <1>3, <1>6, <2>1, <3>1, <3>2
  <2>2. CASE i = k + 1
    <3>1. \A s \in DOMAIN from : s \in DOMAIN to \/ \E j \in 1 .. k : ops[j] = Op(s, "remove")
      <4>1. k \in 0 .. k
        BY <1>2
      <4>. QED
        BY <1>1, <1>2, <4>1 DEF IsTrail
    <3>2. 1 .. k \subseteq 1 .. k + 1 /\ k + 1 \in 1 .. k + 1
      BY <1>2
    <3>. QED
      BY <1>3, <1>6, <2>2, <3>1, <3>2
  <2>. QED
    BY <1>2, <2>1, <2>2
<1>9. ASSUME NEW i \in 1 .. k + 1
      PROVE  Undone(t2[i], log2[(k + 1) - i + 1]) = t2[i - 1]
  <2>1. CASE i \in 1 .. k
    <3>1. Undone(t[i], log[k - i + 1]) = t[i - 1]
      BY <1>1, <2>1 DEF IsTrail
    <3>2. t2[i] = t[i] /\ t2[i - 1] = t[i - 1]
      BY <1>2, <1>6, <2>1
    <3>. DEFINE j == (k + 1) - i + 1
    <3>3. j \in 2 .. k + 1 /\ j - 1 = k - i + 1
      BY <1>2, <2>1
    <3>. HIDE DEF j
    <3>4. log2[j] = log[k - i + 1]
      BY <1>5, <3>3
    <3>. USE DEF j
    <3>. QED
      BY <3>1, <3>2, <3>4
  <2>2. CASE i = k + 1
    <3>1. (k + 1) - i + 1 = 1 /\ i - 1 = k /\ t2[k] = to
      BY <1>2, <1>6, <2>2
    <3>. QED
      BY <1>5, <1>6, <2>2, <3>1
  <2>. QED
    BY <1>2, <2>1, <2>2
<1>10. IsTrail(w, t2, from, new, ops2, log2)
  BY <1>2, <1>3, <1>5, <1>6, <1>8, <1>9 DEF IsTrail
<1>. QED
  BY <1>10 DEF Leads, ops2, log2

(* What undoes the last operation leads to where it was applied.               *)
LEMMA TrailShrinks ==
  ASSUME NEW w, NEW from, NEW to, NEW ops, NEW log, Leads(w, from, to, ops, log), ops # <<>>
  PROVE  Leads(w, from, Undone(to, Head(log)), Front(ops), Tail(log))
<1>. DEFINE k == Len(ops)
            old == Undone(to, Head(log))
<1>1. PICK t : IsTrail(w, t, from, to, ops, log)
  BY DEF Leads
<1>2. /\ ops \in Seq(Applicable(w)) /\ k \in Nat \ {0}
      /\ Len(log) = k /\ t[0] = from /\ t[k] = to
  BY <1>1 DEF IsTrail
<1>5. PICK X : log \in Seq(X)
  BY <1>1 DEF IsTrail
<1>6. /\ Head(log) = log[1]
      /\ Tail(log) \in Seq(X) /\ Len(Tail(log)) = k - 1
      /\ \A i \in 1 .. k - 1 : Tail(log)[i] = log[i + 1]
  BY <1>2, <1>5
<1>7. /\ Front(ops) \in Seq(Applicable(w)) /\ Len(Front(ops)) = k - 1
      /\ \A i \in 1 .. k - 1 : Front(ops)[i] = ops[i]
  BY <1>2 DEF Front
<1>8. old = t[k - 1]
  <2>1. k \in 1 .. k /\ k - k + 1 = 1
    BY <1>2
  <2>. QED
    BY <1>1, <1>2, <1>6, <2>1 DEF IsTrail
<1>. HIDE DEF old
<1>9. ASSUME NEW i \in 0 .. k - 1
      PROVE  /\ Good(w, t[i])
             /\ \A s \in DOMAIN from :
                    s \in DOMAIN t[i] \/ \E j \in 1 .. i : Front(ops)[j] = Op(s, "remove")
  <2>1. i \in 0 .. k /\ 1 .. i \subseteq 1 .. k - 1
    BY <1>2
  <2>2. /\ Good(w, t[i])
        /\ \A s \in DOMAIN from : s \in DOMAIN t[i] \/ \E j \in 1 .. i : ops[j] = Op(s, "remove")
    BY <1>1, <2>1 DEF IsTrail
  <2>. QED
    BY <1>7, <2>1, <2>2
<1>10. ASSUME NEW i \in 1 .. k - 1
       PROVE  Undone(t[i], Tail(log)[(k - 1) - i + 1]) = t[i - 1]
  <2>1. i \in 1 .. k /\ (k - 1) - i + 1 \in 1 .. k - 1 /\ ((k - 1) - i + 1) + 1 = k - i + 1
    BY <1>2
  <2>2. Undone(t[i], log[k - i + 1]) = t[i - 1]
    BY <1>1, <2>1 DEF IsTrail
  <2>3. Tail(log)[(k - 1) - i + 1] = log[k - i + 1]
    BY <1>6, <2>1
  <2>. QED
    BY <2>2, <2>3
<1>11. IsTrail(w, t, from, old, Front(ops), Tail(log))
  BY <1>2, <1>6, <1>7, <1>8, <1>9, <1>10 DEF IsTrail
<1>. QED
  BY <1>11 DEF Leads, old

(* Where a trail ends, where it is empty, and what it may have removed.        *)
LEMMA TrailEnds ==
  ASSUME NEW w, NEW from, NEW to, NEW ops, NEW log, Leads(w, from, to, ops, log)
  PROVE  /\ Good(w, from) /\ Good(w, to) /\ ops \in Seq(Applicable(w))
         /\ ops = <<>> => from = to /\ log = <<>>
         /\ \A s \in DOMAIN from : s \in DOMAIN to \/ \E j \in DOMAIN ops : ops[j] = Op(s, "remove")
<1>1. PICK t : IsTrail(w, t, from, to, ops, log)
  BY DEF Leads
<1>2. /\ ops \in Seq(Applicable(w)) /\ Len(ops) \in Nat /\ DOMAIN ops = 1 .. Len(ops)
      /\ Len(log) = Len(ops) /\ t[0] = from /\ t[Len(ops)] = to
  BY <1>1 DEF IsTrail
<1>3. 0 \in 0 .. Len(ops) /\ Len(ops) \in 0 .. Len(ops)
  BY <1>2
<1>4. PICK X : log \in Seq(X)
  BY <1>1 DEF IsTrail
<1>5. ops = <<>> => log = <<>>
  BY <1>2, <1>4, EmptySeq
<1>. QED
  BY <1>1, <1>2, <1>3, <1>5 DEF IsTrail

-----------------------------------------------------------------------------
(* Uninstallable packages are counted.                                         *)
LEMMA ImageIsFinite ==
  ASSUME NEW S, IsFiniteSet(S), NEW f, DOMAIN f = S
  PROVE  IsFiniteSet({f[x] : x \in S})
<1>. DEFINE T == {f[x] : x \in S}
            g == [x \in S |-> f[x]]
<1>1. g \in Surjection(S, T)
  BY DEF Surjection
<1>. QED
  BY <1>1, FS_Surjection

LEMMA TotalIsNat ==
  ASSUME NEW w \in Worlds, NEW n, Good(w, n)
  PROVE  Total(Nuninst(n)) \in Nat
<1>1. ASSUME NEW suite \in {w.testing, w.unstable}, NEW arch \in Architectures
      PROVE  IsFiniteSet(Bins(suite, arch))
  <2>. DEFINE bins == [src \in DOMAIN suite |-> suite[src].bins[arch]]
              parts == {bins[src] : src \in DOMAIN suite}
  <2>1. IsFiniteSet(DOMAIN suite) /\ \A src \in DOMAIN suite : IsFiniteSet(suite[src].bins[arch])
    BY WorldsAssumption
  <2>2. DOMAIN bins = DOMAIN suite /\ \A part \in parts : IsFiniteSet(part)
    BY <2>1
  <2>3. Bins(suite, arch) = UNION parts
    BY DEF Bins
  <2>. HIDE DEF bins
  <2>4. IsFiniteSet(parts)
    BY <2>1, <2>2, ImageIsFinite
  <2>. QED
    BY <2>2, <2>3, <2>4, FS_UNION
<1>2. ASSUME NEW arch \in Architectures
      PROVE  IsFiniteSet({arch} \X Nuninst(n)[arch])
  <2>1. IsFiniteSet(Known(w, arch))
    BY <1>1, FS_Union DEF Known
  <2>2. Nuninst(n)[arch] \subseteq Known(w, arch)
    BY DEF Nuninst, On, Good, IsNotes, AllKnown
  <2>3. IsFiniteSet(Nuninst(n)[arch]) /\ IsFiniteSet({arch})
    BY <2>1, <2>2, FS_Subset, FS_Singleton
  <2>. QED
    BY <2>3, FS_Product
<1>. DEFINE on == [arch \in Architectures |-> {arch} \X Nuninst(n)[arch]]
            pairs == {on[arch] : arch \in Architectures}
<1>3. DOMAIN on = Architectures /\ \A part \in pairs : IsFiniteSet(part)
  BY <1>2
<1>4. Total(Nuninst(n)) = Cardinality(UNION pairs)
  BY DEF Total
<1>. HIDE DEF on
<1>5. IsFiniteSet(pairs)
  BY <1>3, ArchitecturesAssumption, ImageIsFinite
<1>. QED
  BY <1>3, <1>4, <1>5, FS_UNION, FS_CardinalityType

NotWorse(w, n) == Total(Nuninst(n)) <= Total(Nuninst(Start(w)))

-----------------------------------------------------------------------------
(* The calls of do_all.  While one is under way, a trail leads from where it   *)
(* began to the working copy, through the operations that count as selected,   *)
(* and that of the candidate being tried; between two calls nothing is left    *)
(* of a trail, and the working copy is not worse than testing was.             *)
CallUnderWay == phase \in {"leading", "trying", "tried", "undoing"}

Definite(n, ops) == \A op \in ops : Defined(n, op)

Between ==
    ~CallUnderWay =>
        /\ selected = <<>> /\ lead = <<>> /\ undo = <<>>
        /\ Good(world, notes) /\ NotWorse(world, notes) /\ Definite(notes, packages)

Begun ==
    CallUnderWay =>
        /\ available \cup extra \subseteq packages
        /\ Range(selected) \cup Range(lead) \subseteq packages
        /\ nuninst_orig = Nuninst(before) /\ NotWorse(world, before) /\ Definite(before, packages)

Applied ==
    /\ phase = "leading" =>
           /\ lead \in Seq(packages)
           /\ \E done : selected = done \o lead /\ Leads(world, before, notes, done, undo)
    /\ phase \in {"trying", "undoing"} => lead = <<>> /\ Leads(world, before, notes, selected, undo)
    /\ phase = "trying" => nuninst_comp = Nuninst(notes)
    /\ phase = "tried" =>
           /\ \E x \in packages : lead = <<x>>
           /\ selected \in Seq(Applicable(world))
           /\ Leads(world, before, notes, Append(selected, Head(lead)), undo)
           /\ notes = Doop(Undone(notes, Head(undo)), Head(lead))
           /\ nuninst_comp = Nuninst(Undone(notes, Head(undo)))

RunInv ==
    /\ world \in Worlds /\ todo \in Seq(Jobs)
    /\ packages \subseteq Applicable(world) /\ Exclusive(packages)
    /\ phase \in {"excuses", "next", "leading", "trying", "tried", "undoing"}
    /\ phase = "excuses" => notes = Start(world)
    /\ Between /\ Begun /\ Applied

LEMMA RunInit == Init => RunInv
<1>. SUFFICES ASSUME Init PROVE RunInv
  OBVIOUS
<1>1. world \in Worlds /\ notes = Start(world) /\ Good(world, Start(world))
  BY StartIsGood DEF Init, Start
<1>2. NotWorse(world, Start(world))
  BY <1>1, TotalIsNat DEF NotWorse
<1>3. todo \in Seq(Jobs)
  <2>1. <<[easy |-> FALSE, hint |-> <<>>]>> \in Seq(Jobs)
    BY DEF Jobs
  <2>2. world.easy \in Seq(Jobs) /\ world.hints \in Seq(Jobs)
    BY <1>1, WorldsAssumption
  <2>. QED
    BY <2>1, <2>2, ConcatProperties DEF Init
<1>. QED
  BY <1>1, <1>2, <1>3
  DEF Init, RunInv, Between, Begun, Applied, CallUnderWay, Definite, Exclusive

LEMMA ConsiderKeeps == RunInv /\ Consider => RunInv'
<1>. SUFFICES ASSUME RunInv, Consider PROVE RunInv'
  OBVIOUS
<1>1. UNCHANGED <<world, notes, undo, todo, selected, lead>> /\ phase = "excuses" /\ phase' = "next"
  BY DEF Consider, run
<1>2. packages' \subseteq Removals \cup BinaryUpgrades \cup Upgrades
  BY DEF Consider
<1>3. packages' \subseteq Applicable(world) /\ Exclusive(packages')
  BY <1>2, CandidateShape DEF Exclusive
<1>4. Definite(Start(world), packages')
  BY <1>2, CandidateShape DEF Definite
<1>5. Good(world, notes) /\ NotWorse(world, notes) /\ notes = Start(world)
      /\ selected = <<>> /\ lead = <<>> /\ undo = <<>>
  BY <1>1 DEF RunInv, Between, CallUnderWay
<1>. QED
  BY <1>1, <1>3, <1>4, <1>5 DEF RunInv, Between, Begun, Applied, CallUnderWay

LEMMA DoopStays == ASSUME world' = world, NEW n, NEW op PROVE Doop(n, op)' = Doop(n, op)
  BY DEF Doop, unstable

LEMMA AppliedStays ==
  ASSUME Applied,
         UNCHANGED <<world, phase, packages, notes, undo, lead, selected, nuninst_comp, before>>
  PROVE  Applied'
<1>1. phase' = "leading" =>
         /\ lead' \in Seq(packages')
         /\ \E done : selected' = done \o lead' /\ Leads(world', before', notes', done, undo')
  BY DEF Applied
<1>2. phase' \in {"trying", "undoing"} =>
         lead' = <<>> /\ Leads(world', before', notes', selected', undo')
  BY DEF Applied
<1>3. phase' = "trying" => nuninst_comp' = Nuninst(notes')
  BY DEF Applied
<1>4. phase' = "tried" =>
         /\ \E x \in packages' : lead' = <<x>>
         /\ selected' \in Seq(Applicable(world'))
         /\ Leads(world', before', notes', Append(selected', Head(lead')), undo')
         /\ notes' = Doop(Undone(notes, Head(undo)), Head(lead))
         /\ nuninst_comp' = Nuninst(Undone(notes', Head(undo')))
  BY DEF Applied
<1>. QED
  BY <1>1, <1>2, <1>3, <1>4, DoopStays DEF Applied

LEMMA SkipHintKeeps == RunInv /\ SkipHint => RunInv'
<1>. SUFFICES ASSUME RunInv, SkipHint PROVE RunInv'
  OBVIOUS
<1>1. /\ UNCHANGED <<world, phase, notes, undo, packages, run>>
      /\ todo # <<>> /\ todo' = Tail(todo)
  BY DEF SkipHint, TakeNext
<1>2. todo' \in Seq(Jobs)
  BY <1>1 DEF RunInv
<1>3. Between' /\ Begun'
  BY <1>1 DEF RunInv, Between, Begun, CallUnderWay, run
<1>4. Applied'
  BY <1>1, AppliedStays DEF RunInv, run
<1>. QED
  BY <1>1, <1>2, <1>3, <1>4 DEF RunInv, run

LEMMA DoAllKeeps == RunInv /\ DoAll => RunInv'
<1>. SUFFICES ASSUME RunInv, DoAll PROVE RunInv'
  OBVIOUS
<1>. DEFINE hint == Head(todo).hint
<1>1. /\ UNCHANGED <<world, notes, undo, packages>>
      /\ phase = "next" /\ phase' = "leading"
      /\ todo # <<>> /\ todo' = Tail(todo)
      /\ lead' = [i \in DOMAIN hint |-> hint[i].op] /\ selected' = lead'
      /\ available' \subseteq packages /\ extra' = {}
      /\ nuninst_orig' = Nuninst(notes) /\ before' = notes
      /\ \A h \in Range(hint) : h.op \in packages
  BY DEF DoAll, TakeNext, AllCandidates
<1>2. todo' \in Seq(Jobs) /\ Head(todo) \in Jobs
  BY <1>1 DEF RunInv
<1>3. lead' \in Seq(packages)
  <2>1. /\ hint \in Seq([op : Operations, ver : Nat])
        /\ DOMAIN hint = 1 .. Len(hint) /\ Len(hint) \in Nat
    BY <1>2 DEF Jobs
  <2>2. \A i \in DOMAIN hint : hint[i].op \in packages
    BY <1>1 DEF Range
  <2>. HIDE DEF hint
  <2>. QED
    BY <1>1, <2>1, <2>2
<1>4. /\ Good(world, notes) /\ NotWorse(world, notes) /\ Definite(notes, packages)
      /\ undo = <<>>
  BY <1>1 DEF RunInv, Between, CallUnderWay
<1>5. Leads(world, notes, notes, <<>>, <<>>)
  BY <1>4, TrailStarts
<1>6. selected' = <<>> \o lead'
  BY <1>1, <1>3, ConcatEmptySeq
<1>7. Range(selected') \cup Range(lead') \subseteq packages
  <2>1. \A i \in DOMAIN lead' : lead'[i] \in packages
    BY <1>3
  <2>2. Range(lead') \subseteq packages
    BY <2>1 DEF Range
  <2>. QED
    BY <1>1, <2>2
<1>8. Applied'
  BY <1>1, <1>3, <1>4, <1>5, <1>6 DEF Applied
<1>9. Begun'
  BY <1>1, <1>4, <1>7 DEF Begun
<1>. QED
  BY <1>1, <1>2, <1>8, <1>9 DEF RunInv, Between, CallUnderWay

(* Applying a candidate makes the trail longer, and can be undone.             *)
LEMMA ChangeLeads ==
  ASSUME world \in Worlds, NEW from, NEW ops, Leads(world, from, notes, ops, undo),
         NEW op \in Applicable(world), Change(op)
  PROVE  /\ Leads(world, from, notes', Append(ops, op), undo')
         /\ notes' = Doop(notes, op) /\ Undone(notes', Head(undo')) = notes
<1>. DEFINE saved == Saved(notes, notes', op.src)
<1>1. notes' = Doop(notes, op) /\ undo' = <<saved>> \o undo
  BY DEF Change
<1>2. Good(world, notes)
  BY TrailEnds
<1>3. /\ Good(world, notes')
      /\ DOMAIN notes' \subseteq DOMAIN notes \cup {op.src}
      /\ \A s \in DOMAIN notes : s \in DOMAIN notes' \/ op = Op(s, "remove")
  BY <1>1, <1>2, DoopIsGood
<1>4. Undone(notes', saved) = notes
  BY <1>2, <1>3, UndoneBringsBack DEF Good
<1>. HIDE DEF saved
<1>5. Leads(world, from, notes', Append(ops, op), <<saved>> \o undo)
  BY <1>3, <1>4, TrailGrows
<1>6. Head(<<saved>> \o undo) = saved
  <2>1. PICK t : IsTrail(world, t, from, notes, ops, undo)
    BY DEF Leads
  <2>2. PICK X : undo \in Seq(X)
    BY <2>1 DEF IsTrail
  <2>. QED
    BY <2>2
<1>. QED
  BY <1>1, <1>4, <1>5, <1>6

LEMMA LeadKeeps == RunInv /\ Lead => RunInv'
<1>. SUFFICES ASSUME RunInv, Lead PROVE RunInv'
  OBVIOUS
<1>1. /\ UNCHANGED <<world, phase, packages, todo, available, extra, selected, nuninst_orig, before>>
      /\ phase = "leading" /\ lead # <<>> /\ lead' = Tail(lead)
      /\ Change(Head(lead))
  BY DEF Lead
<1>2. lead \in Seq(packages) /\ packages \subseteq Applicable(world)
  BY <1>1 DEF RunInv, Applied
<1>3. PICK done : selected = done \o lead /\ Leads(world, before, notes, done, undo)
  BY <1>1 DEF RunInv, Applied
<1>4. /\ Head(lead) \in packages /\ lead' \in Seq(packages)
      /\ lead = <<Head(lead)>> \o lead'
  BY <1>1, <1>2, HeadTailProperties
<1>5. Leads(world, before, notes', Append(done, Head(lead)), undo')
  BY <1>1, <1>2, <1>3, <1>4, ChangeLeads DEF RunInv
<1>6. selected = Append(done, Head(lead)) \o lead'
  <2>1. done \in Seq(Applicable(world))
    BY <1>3, TrailEnds
  <2>. DEFINE first == <<Head(lead)>>
  <2>2. first \in Seq(Applicable(world)) /\ lead' \in Seq(Applicable(world))
    BY <1>2, <1>4
  <2>. HIDE DEF first
  <2>3. (done \o first) \o lead' = done \o (first \o lead')
    BY <2>1, <2>2, ConcatAssociative, SMTT(30)
  <2>. USE DEF first
  <2>4. Head(lead) \in Applicable(world)
    BY <1>2, <1>4
  <2>. QED
    BY <1>3, <1>4, <2>1, <2>3, <2>4, AppendIsConcat
<1>7. Applied'
  BY <1>1, <1>4, <1>5, <1>6 DEF Applied
<1>8. Begun'
  <2>1. Range(lead') \subseteq packages
    BY <1>4 DEF Range
  <2>. QED
    BY <1>1, <2>1 DEF RunInv, Begun, CallUnderWay
<1>. QED
  BY <1>1, <1>7, <1>8 DEF RunInv, Between, CallUnderWay

(* What a trail has removed is not among the candidates that are left.         *)
LEMMA StillDefinite ==
  ASSUME NEW w, NEW from, NEW to, NEW ops, NEW log, Leads(w, from, to, ops, log),
         NEW cands, cands \subseteq Applicable(w), Exclusive(cands), Range(ops) \subseteq cands,
         Definite(from, cands)
  PROVE  Definite(to, cands \ Range(ops))
<1>. SUFFICES ASSUME NEW op \in cands \ Range(ops), op.what # "source", op.src \notin DOMAIN to
              PROVE  FALSE
  BY DEF Definite, Defined
<1>1. op.src \in DOMAIN from
  BY DEF Definite, Defined
<1>2. PICK j \in DOMAIN ops : ops[j] = Op(op.src, "remove")
  BY <1>1, TrailEnds
<1>3. Op(op.src, "remove") \in Range(ops)
  BY <1>2 DEF Range
<1>4. op = Op(op.src, op.what) /\ op.what \in Architectures \cup {"remove", "source"}
  BY DEF Applicable, Op
<1>5. CASE op.what = "remove"
  BY <1>3, <1>4, <1>5
<1>6. CASE op.what \in Architectures
  BY <1>3, <1>6 DEF Exclusive
<1>. QED
  BY <1>4, <1>5, <1>6

(* At the end of a call: accepted, the copy is as good as when it began;       *)
(* otherwise it is undone.                                                     *)
LEMMA JudgeKeeps ==
  ASSUME RunInv, phase \in {"leading", "trying"}, lead = <<>>,
         Leads(world, before, notes, selected, undo), Judge(Nuninst(notes)),
         available' \subseteq available, extra' = extra
  PROVE  RunInv'
<1>1. UNCHANGED <<world, notes, todo, lead, nuninst_orig, before>>
  BY DEF Judge
<1>2. /\ available \cup extra \subseteq packages
      /\ Range(selected) \cup Range(lead) \subseteq packages
      /\ nuninst_orig = Nuninst(before) /\ NotWorse(world, before) /\ Definite(before, packages)
      /\ world \in Worlds /\ packages \subseteq Applicable(world) /\ Exclusive(packages)
      /\ todo \in Seq(Jobs)
  BY DEF RunInv, Begun, CallUnderWay
<1>3. CASE AsGoodGenerous(nuninst_orig, Nuninst(notes))
  <2>1. /\ packages' = packages \ Range(selected)
        /\ undo' = <<>> /\ selected' = <<>> /\ phase' = "next"
    BY <1>3 DEF Judge
  <2>2. Good(world, notes) /\ Good(world, before)
    BY TrailEnds
  <2>3. NotWorse(world, notes)
    <3>1. Total(Nuninst(notes)) <= Total(Nuninst(before))
      BY <1>2, <1>3 DEF AsGoodGenerous
    <3>2. Good(world, Start(world))
      BY <1>2, StartIsGood
    <3>3. /\ Total(Nuninst(notes)) \in Nat /\ Total(Nuninst(before)) \in Nat
          /\ Total(Nuninst(Start(world))) \in Nat
      BY <1>2, <2>2, <3>2, TotalIsNat
    <3>. QED
      BY <1>2, <3>1, <3>3 DEF NotWorse
  <2>4. Definite(notes, packages')
    BY <1>2, <2>1, StillDefinite
  <2>5. packages' \subseteq Applicable(world) /\ Exclusive(packages')
    BY <1>2, <2>1 DEF Exclusive
  <2>. QED
    BY <1>1, <1>2, <2>1, <2>2, <2>3, <2>4, <2>5
    DEF RunInv, Between, Begun, Applied, CallUnderWay
<1>4. CASE ~AsGoodGenerous(nuninst_orig, Nuninst(notes))
  <2>1. phase' = "undoing" /\ UNCHANGED <<packages, undo, selected>>
    BY <1>4 DEF Judge
  <2>. QED
    BY <1>1, <1>2, <2>1 DEF RunInv, Between, Begun, Applied, CallUnderWay
<1>. QED
  BY <1>3, <1>4

LEMMA JudgeEasyKeeps == RunInv /\ JudgeEasy => RunInv'
<1>. SUFFICES ASSUME RunInv, JudgeEasy PROVE RunInv'
  OBVIOUS
<1>1. phase = "leading" /\ lead = <<>> /\ Judge(Nuninst(notes)) /\ available' = {} /\ extra' = extra
  BY DEF JudgeEasy
<1>2. PICK done : selected = done \o lead /\ Leads(world, before, notes, done, undo)
  BY <1>1 DEF RunInv, Applied
<1>3. done \in Seq(Applicable(world))
  BY <1>2, TrailEnds
<1>4. selected = done
  BY <1>1, <1>2, <1>3, ConcatEmptySeq
<1>. QED
  BY <1>1, <1>2, <1>4, JudgeKeeps

LEMMA EndLoopKeeps == RunInv /\ EndLoop => RunInv'
<1>. SUFFICES ASSUME RunInv, EndLoop PROVE RunInv'
  OBVIOUS
<1>1. phase = "trying" /\ Judge(nuninst_comp) /\ UNCHANGED <<available, extra>>
  BY DEF EndLoop
<1>2. /\ lead = <<>> /\ nuninst_comp = Nuninst(notes)
      /\ Leads(world, before, notes, selected, undo)
  BY <1>1 DEF RunInv, Applied
<1>. QED
  BY <1>1, <1>2, JudgeKeeps

LEMMA StartIterEndKeeps == RunInv /\ StartIterEnd => RunInv'
<1>. SUFFICES ASSUME RunInv, StartIterEnd PROVE RunInv'
  OBVIOUS
<1>1. /\ UNCHANGED <<world, notes, undo, packages, todo, available, extra, selected, lead,
                    nuninst_orig, before>>
      /\ phase = "leading" /\ lead = <<>> /\ phase' = "trying" /\ nuninst_comp' = Nuninst(notes)
  BY DEF StartIterEnd
<1>2. PICK done : selected = done \o lead /\ Leads(world, before, notes, done, undo)
  BY <1>1 DEF RunInv, Applied
<1>3. done \in Seq(Applicable(world))
  BY <1>2, TrailEnds
<1>4. selected = done
  BY <1>1, <1>2, <1>3, ConcatEmptySeq
<1>. QED
  BY <1>1, <1>2, <1>4 DEF RunInv, Between, Begun, Applied, CallUnderWay

LEMMA TryKeeps == ASSUME RunInv, NEW x \in available, Try(x) PROVE RunInv'
<1>1. /\ UNCHANGED <<world, packages, todo, extra, selected, nuninst_orig, nuninst_comp, before>>
      /\ phase = "trying" /\ phase' = "tried" /\ Change(x)
      /\ lead' = <<x>> /\ available' = available \ {x}
  BY DEF Try
<1>2. x \in packages /\ x \in Applicable(world) /\ Leads(world, before, notes, selected, undo)
      /\ nuninst_comp = Nuninst(notes)
  BY <1>1 DEF RunInv, Begun, Applied, CallUnderWay
<1>3. /\ Leads(world, before, notes', Append(selected, x), undo')
      /\ notes' = Doop(notes, x) /\ Undone(notes', Head(undo')) = notes
  BY <1>1, <1>2, ChangeLeads DEF RunInv
<1>4. selected \in Seq(Applicable(world)) /\ Head(<<x>>) = x
  BY <1>2, TrailEnds
<1>7. Head(lead') = x
  BY <1>1, <1>4
<1>5. Range(lead') \subseteq packages
  BY <1>1, <1>2 DEF Range
<1>6. Applied'
  BY <1>1, <1>2, <1>3, <1>4, <1>7, DoopStays DEF Applied
<1>. QED
  BY <1>1, <1>5, <1>6 DEF RunInv, Between, Begun, CallUnderWay

LEMMA TriedKeeps == RunInv /\ Tried => RunInv'
<1>. SUFFICES ASSUME RunInv, Tried PROVE RunInv'
  OBVIOUS
<1>1. /\ UNCHANGED <<world, packages, todo, nuninst_orig, before>>
      /\ phase = "tried" /\ phase' = "trying" /\ lead' = <<>>
  BY DEF Tried
<1>2. PICK x \in packages : lead = <<x>>
  BY <1>1 DEF RunInv, Applied
<1>3. /\ Head(lead) = x
      /\ Leads(world, before, notes, Append(selected, x), undo)
      /\ selected \in Seq(Applicable(world))
  BY <1>1, <1>2 DEF RunInv, Applied
<1>4. CASE Improved(nuninst_comp, Nuninst(notes))
  <2>1. /\ selected' = Append(selected, x) /\ nuninst_comp' = Nuninst(notes)
        /\ available' = available \cup extra /\ extra' = {}
        /\ UNCHANGED <<notes, undo>>
    BY <1>3, <1>4 DEF Tried, Accept
  <2>2. Range(selected') \cup Range(lead') \subseteq packages
    <3>1. \A i \in DOMAIN Append(selected, x) : i \in DOMAIN selected \/ Append(selected, x)[i] = x
      BY <1>2, <1>3
    <3>2. \A i \in DOMAIN selected : Append(selected, x)[i] = selected[i]
      BY <1>2, <1>3
    <3>3. Range(selected) \subseteq packages
      BY <1>1 DEF RunInv, Begun, CallUnderWay
    <3>4. \A i \in DOMAIN Append(selected, x) : Append(selected, x)[i] \in packages
      BY <1>2, <3>1, <3>2, <3>3 DEF Range
    <3>5. DOMAIN <<>> = {}
      OBVIOUS
    <3>. QED
      BY <1>1, <2>1, <3>4, <3>5 DEF Range
  <2>3. Applied'
    BY <1>1, <1>3, <2>1 DEF Applied
  <2>4. Begun'
    BY <1>1, <2>1, <2>2 DEF RunInv, Begun, CallUnderWay
  <2>. QED
    BY <1>1, <2>1, <2>3, <2>4 DEF RunInv, Between, CallUnderWay
<1>5. CASE ~Improved(nuninst_comp, Nuninst(notes))
  <2>. DEFINE ops == Append(selected, x)
  <2>1. /\ notes' = Undone(notes, Head(undo)) /\ undo' = Tail(undo)
        /\ available' = available /\ extra' = extra \cup {x}
        /\ UNCHANGED <<selected, nuninst_comp>>
    BY <1>3, <1>5 DEF Tried, UndoLast, Skip
  <2>2. ops # <<>> /\ Front(ops) = selected
    <3>1. x \in Applicable(world)
      BY <1>2 DEF RunInv
    <3>. QED
      BY <1>3, <3>1 DEF Front
  <2>3. Leads(world, before, notes', selected, undo')
    BY <1>3, <2>1, <2>2, TrailShrinks
  <2>4. Applied'
    BY <1>1, <2>1, <2>3 DEF RunInv, Applied
  <2>5. Begun'
    <3>1. Range(lead') = {} /\ Range(selected) \subseteq packages
      BY <1>1 DEF RunInv, Begun, CallUnderWay, Range
    <3>. QED
      BY <1>1, <1>2, <2>1, <3>1 DEF RunInv, Begun, CallUnderWay
  <2>. QED
    BY <1>1, <2>1, <2>4, <2>5 DEF RunInv, Between, CallUnderWay
<1>. QED
  BY <1>4, <1>5

LEMMA UndoChangeKeeps == RunInv /\ UndoChange => RunInv'
<1>. SUFFICES ASSUME RunInv, UndoChange PROVE RunInv'
  OBVIOUS
<1>1. /\ UNCHANGED <<world, packages, todo, available, extra, lead, nuninst_orig, before>>
      /\ phase = "undoing"
  BY DEF UndoChange
<1>2. /\ lead = <<>> /\ Leads(world, before, notes, selected, undo)
      /\ selected \in Seq(Applicable(world)) /\ Good(world, notes)
      /\ Range(selected) \subseteq packages
      /\ NotWorse(world, before) /\ Definite(before, packages)
  BY <1>1, TrailEnds DEF RunInv, Applied, Begun, CallUnderWay
<1>3. CASE selected = <<>>
  <2>1. phase' = "next" /\ UNCHANGED <<notes, undo, selected>>
    BY <1>3 DEF UndoChange
  <2>2. notes = before /\ undo = <<>>
    BY <1>2, <1>3, TrailEnds
  <2>3. Between'
    BY <1>1, <1>2, <1>3, <2>1, <2>2 DEF Between
  <2>. QED
    BY <1>1, <2>1, <2>3 DEF RunInv, Begun, Applied, CallUnderWay
<1>4. CASE selected # <<>>
  <2>1. /\ notes' = Undone(notes, Head(undo)) /\ undo' = Tail(undo)
        /\ selected' = Front(selected) /\ phase' = phase
    BY <1>4 DEF UndoChange, UndoLast
  <2>2. Leads(world, before, notes', selected', undo')
    BY <1>2, <1>4, <2>1, TrailShrinks
  <2>3. Range(selected') \subseteq packages
    <3>1. \A i \in DOMAIN Front(selected) : i \in DOMAIN selected /\ Front(selected)[i] = selected[i]
      BY <1>2, <1>4 DEF Front
    <3>. QED
      BY <1>2, <2>1, <3>1 DEF Range
  <2>4. Begun'
    BY <1>1, <2>1, <2>3 DEF RunInv, Begun, CallUnderWay
  <2>5. Applied'
    BY <1>1, <1>2, <2>1, <2>2 DEF Applied
  <2>. QED
    BY <1>1, <2>1, <2>4, <2>5 DEF RunInv, Between, CallUnderWay
<1>. QED
  BY <1>3, <1>4

LEMMA RunStep == RunInv /\ [Next]_vars => RunInv'
<1>. SUFFICES ASSUME RunInv, [Next]_vars PROVE RunInv'
  OBVIOUS
<1>1. CASE UNCHANGED vars
  <2>1. Between' /\ Begun'
    BY <1>1 DEF vars, run, RunInv, Between, Begun, CallUnderWay
  <2>2. Applied'
    BY <1>1, AppliedStays DEF vars, run, RunInv
  <2>. QED
    BY <1>1, <2>1, <2>2 DEF vars, run, RunInv
<1>. QED
  BY <1>1, ConsiderKeeps, SkipHintKeeps, DoAllKeeps, LeadKeeps, JudgeEasyKeeps,
     StartIterEndKeeps, TryKeeps, TriedKeeps, EndLoopKeeps, UndoChangeKeeps DEF Next

LEMMA RunAlways == Spec => []RunInv
  BY RunInit, RunStep, PTL DEF Spec

-----------------------------------------------------------------------------
(* Nothing that could be accepted is left: a candidate that is not waiting was *)
(* accepted, or skipped since the last one was.                                *)
SkippedInv ==
    /\ phase \in {"trying", "tried"} =>
           packages \subseteq available \cup extra \cup Range(selected) \cup Range(lead)
    /\ phase = "leading" =>
           packages \subseteq available \cup Range(selected) /\ extra = {}
    /\ phase = "trying" => \A op \in extra : ~Improved(nuninst_comp, Nuninst(Doop(notes, op)))
    /\ phase = "tried" => \A op \in extra :
           ~Improved(nuninst_comp, Nuninst(Doop(Undone(notes, Head(undo)), op)))

LEMMA SkippedStep == RunInv /\ SkippedInv /\ [Next]_vars => SkippedInv'
<1>. SUFFICES ASSUME RunInv, SkippedInv, [Next]_vars PROVE SkippedInv'
  OBVIOUS
<1>1. CASE UNCHANGED vars
  <2>1. phase' = "trying" =>
            \A op \in extra' : ~Improved(nuninst_comp', Nuninst(Doop(notes, op)))
    BY <1>1 DEF SkippedInv, vars, run
  <2>2. phase' = "tried" => \A op \in extra' :
            ~Improved(nuninst_comp', Nuninst(Doop(Undone(notes, Head(undo)), op)))
    BY <1>1 DEF SkippedInv, vars, run
  <2>. QED
    BY <1>1, <2>1, <2>2, DoopStays DEF SkippedInv, vars, run
<1>2. CASE phase' \notin {"leading", "trying", "tried"}
  BY <1>2 DEF SkippedInv
<1>3. CASE DoAll
  BY <1>3 DEF DoAll, SkippedInv
<1>4. CASE Lead
  BY <1>4 DEF Lead, SkippedInv
<1>5. CASE StartIterEnd
  BY <1>5 DEF StartIterEnd, SkippedInv
<1>6. ASSUME NEW x \in available, Try(x) PROVE SkippedInv'
  <2>1. /\ UNCHANGED <<world, packages, extra, selected, nuninst_comp>>
        /\ phase = "trying" /\ phase' = "tried" /\ Change(x)
        /\ lead' = <<x>> /\ available' = available \ {x}
    BY <1>6 DEF Try
  <2>2. /\ Leads(world, before, notes, selected, undo) /\ x \in Applicable(world)
        /\ world \in Worlds /\ lead = <<>>
    BY <2>1 DEF RunInv, Applied, Begun, CallUnderWay
  <2>3. Undone(notes', Head(undo')) = notes
    BY <2>1, <2>2, ChangeLeads
  <2>4. \A op \in extra : ~Improved(nuninst_comp, Nuninst(Doop(notes, op)))
    BY <2>1 DEF SkippedInv
  <2>5. Range(lead) = {} /\ Range(lead') = {x}
    BY <2>1, <2>2 DEF Range
  <2>6. packages' \subseteq available' \cup extra' \cup Range(selected') \cup Range(lead')
    BY <2>1, <2>5 DEF SkippedInv
  <2>. QED
    BY <2>1, <2>3, <2>4, <2>6, DoopStays DEF SkippedInv
<1>7. CASE Tried
  <2>1. UNCHANGED <<world, packages>> /\ phase = "tried" /\ phase' = "trying" /\ lead' = <<>>
    BY <1>7 DEF Tried
  <2>2. PICK x \in packages : lead = <<x>>
    BY <2>1 DEF RunInv, Applied
  <2>3. /\ Head(lead) = x /\ Range(lead) = {x}
        /\ selected \in Seq(Applicable(world)) /\ x \in Applicable(world)
        /\ notes = Doop(Undone(notes, Head(undo)), x)
    BY <2>1, <2>2 DEF RunInv, Applied, Range
  <2>4. packages \subseteq available \cup extra \cup Range(selected) \cup {x}
    BY <2>1, <2>3 DEF SkippedInv
  <2>5. CASE Improved(nuninst_comp, Nuninst(notes))
    <3>1. /\ selected' = Append(selected, x)
          /\ available' = available \cup extra /\ extra' = {}
      BY <2>3, <2>5, <1>7 DEF Tried, Accept
    <3>2. Range(selected) \cup {x} \subseteq Range(Append(selected, x))
      <4>1. DOMAIN selected = 1 .. Len(selected) /\ Len(selected) \in Nat
        BY <2>3
      <4>2. /\ DOMAIN Append(selected, x) = 1 .. Len(selected) + 1
            /\ Append(selected, x)[Len(selected) + 1] = x
            /\ \A i \in DOMAIN selected : Append(selected, x)[i] = selected[i]
        BY <2>3
      <4>3. DOMAIN selected \cup {Len(selected) + 1} \subseteq DOMAIN Append(selected, x)
        BY <4>1, <4>2
      <4>. QED
        BY <4>2, <4>3 DEF Range
    <3>. QED
      BY <2>1, <2>4, <3>1, <3>2 DEF SkippedInv
  <2>6. CASE ~Improved(nuninst_comp, Nuninst(notes))
    <3>1. /\ notes' = Undone(notes, Head(undo)) /\ UNCHANGED <<selected, nuninst_comp, available>>
          /\ extra' = extra \cup {x}
      BY <2>3, <2>6, <1>7 DEF Tried, UndoLast, Skip
    <3>2. \A op \in extra' : ~Improved(nuninst_comp', Nuninst(Doop(notes', op)))
      BY <2>1, <2>3, <2>6, <3>1 DEF SkippedInv
    <3>3. packages' \subseteq available' \cup extra' \cup Range(selected') \cup Range(lead')
      BY <2>1, <2>4, <3>1
    <3>. QED
      BY <2>1, <3>2, <3>3, DoopStays DEF SkippedInv
  <2>. QED
    BY <2>5, <2>6
<1>. QED
  BY <1>1, <1>2, <1>3, <1>4, <1>5, <1>6, <1>7
  DEF Next, Consider, SkipHint, TakeNext, JudgeEasy, EndLoop, Judge, UndoChange

LEMMA SkippedAlways == Spec => [](RunInv /\ SkippedInv)
<1>1. Init => SkippedInv
  BY DEF Init, SkippedInv
<1>. QED
  BY <1>1, RunAlways, SkippedStep, PTL DEF Spec

-----------------------------------------------------------------------------
(* What follows from them.                                                     *)

(* In "tried" and while a hint is applied, the operations of the trail are     *)
(* among those of the call.                                                    *)
LEMMA AssertionsFollow == RunInv => DpkgAssertions
<1>. SUFFICES ASSUME RunInv PROVE DpkgAssertions
  OBVIOUS
<1>1. CASE ~CallUnderWay
  <2>1. Good(world, notes) /\ Definite(notes, packages)
    BY <1>1 DEF RunInv, Between
  <2>. QED
    BY <2>1
    DEF DpkgAssertions, OneOwner, CandidatesDefined, Good, Owned, Disjoint, AllOf, Definite
<1>2. ASSUME CallUnderWay,
             NEW ops, Leads(world, before, notes, ops, undo),
             Range(ops) \subseteq Range(selected) \cup Range(lead)
      PROVE  DpkgAssertions
  <2>1. /\ Range(selected) \cup Range(lead) \subseteq packages
        /\ packages \subseteq Applicable(world) /\ Exclusive(packages)
        /\ Definite(before, packages)
    BY <1>2 DEF RunInv, Begun
  <2>2. Definite(notes, packages \ Range(ops))
    BY <1>2, <2>1, StillDefinite
  <2>3. Owned(notes)
    BY <1>2, TrailEnds DEF Good
  <2>. QED
    BY <1>2, <2>2, <2>3
    DEF DpkgAssertions, OneOwner, CandidatesDefined, Owned, Disjoint, AllOf, Definite
<1>3. CASE phase = "leading"
  <2>1. PICK done : selected = done \o lead /\ Leads(world, before, notes, done, undo)
    BY <1>3 DEF RunInv, Applied
  <2>2. done \in Seq(Applicable(world)) /\ lead \in Seq(packages)
    BY <1>3, <2>1, TrailEnds DEF RunInv, Applied
  <2>3. lead \in Seq(Applicable(world))
    BY <2>2 DEF RunInv
  <2>4. \A i \in DOMAIN done : i \in DOMAIN selected /\ selected[i] = done[i]
    <3>1. /\ Len(selected) = Len(done) + Len(lead)
          /\ \A i \in 1 .. Len(done) + Len(lead) :
                 selected[i] = IF i <= Len(done) THEN done[i] ELSE lead[i - Len(done)]
          /\ selected \in Seq(Applicable(world))
      BY <2>1, <2>2, <2>3, ConcatProperties
    <3>2. /\ Len(done) \in Nat /\ Len(lead) \in Nat /\ DOMAIN done = 1 .. Len(done)
          /\ DOMAIN selected = 1 .. Len(done) + Len(lead)
      BY <2>2, <2>3, <3>1
    <3>. QED
      BY <3>1, <3>2
  <2>5. Range(done) \subseteq Range(selected)
    BY <2>4 DEF Range
  <2>. QED
    BY <1>2, <1>3, <2>1, <2>5 DEF CallUnderWay
<1>4. CASE phase \in {"trying", "undoing"}
  BY <1>2, <1>4 DEF CallUnderWay, RunInv, Applied
<1>5. CASE phase = "tried"
  <2>1. PICK x \in packages : lead = <<x>>
    BY <1>5 DEF RunInv, Applied
  <2>2. /\ Leads(world, before, notes, Append(selected, x), undo)
        /\ selected \in Seq(Applicable(world)) /\ x \in Applicable(world)
    BY <1>5, <2>1 DEF RunInv, Applied
  <2>3. Range(Append(selected, x)) \subseteq Range(selected) \cup {x}
    <3>1. /\ \A i \in DOMAIN Append(selected, x) : i \in DOMAIN selected \/ Append(selected, x)[i] = x
          /\ \A i \in DOMAIN selected : Append(selected, x)[i] = selected[i]
      BY <2>2
    <3>. QED
      BY <3>1 DEF Range
  <2>4. Range(lead) = {x}
    BY <2>1 DEF Range
  <2>. QED
    BY <1>2, <1>5, <2>2, <2>3, <2>4 DEF CallUnderWay
<1>. QED
  BY <1>1, <1>3, <1>4, <1>5 DEF CallUnderWay

(* Whatever is tried, in any order, accepted and undone, no binary package of  *)
(* the working copy has two sources, and a candidate whose turn comes finds    *)
(* what it replaces or removes (assertions of upgrade_arch, remove_source and  *)
(* add_binaries_by_arch in dpkg.c).                                            *)
THEOREM AssertionsHold == Spec => []DpkgAssertions
  BY RunAlways, AssertionsFollow, PTL

(* After every call of do_all, testing has no more uninstallable packages than *)
(* it had at the start: is_nuninst_asgood_generous compares with the working   *)
(* copy as it was when the call started, and what fails is undone.             *)
THEOREM TestingNeverWorse == Spec => []NeverWorse
<1>1. RunInv => NeverWorse
  BY DEF RunInv, Between, CallUnderWay, NotWorse, NeverWorse, Start, testing
<1>. QED
  BY <1>1, RunAlways, PTL

(* A call of do_all that fails gives back the working copy that it found: the  *)
(* notes that new_op saved for each operation, undone from the last one to the *)
(* first, and no more than those.                                              *)
THEOREM FailureRestores == Spec => FailedRunRestores
<1>1. RunInv /\ [Next]_vars =>
         [phase = "undoing" /\ phase' = "next" => notes = before /\ undo = <<>>]_vars
  <2>. SUFFICES ASSUME RunInv, [Next]_vars, phase = "undoing", phase' = "next"
                PROVE  notes = before /\ undo = <<>>
    OBVIOUS
  <2>1. UndoChange
    BY DEF Next, Consider, SkipHint, DoAll, TakeNext, Lead, JudgeEasy, StartIterEnd, Try, Tried,
           EndLoop, vars
  <2>2. selected = <<>>
    BY <2>1 DEF UndoChange
  <2>3. Leads(world, before, notes, selected, undo)
    BY DEF RunInv, Applied
  <2>. QED
    BY <2>2, <2>3, TrailEnds
<1>. QED
  BY <1>1, RunAlways, PTL DEF Spec, FailedRunRestores

(* When iter_end has gone through its list, no candidate that is left would be *)
(* accepted, because each was skipped after the last one that was accepted.    *)
THEOREM NothingIsLeft == Spec => NothingLeftToAccept
<1>1. RunInv /\ SkippedInv /\ [Next]_vars =>
         [phase = "trying" /\ phase' = "next" /\ job.hint = <<>> =>
             \A op \in packages' : ~Improved(Nuninst(notes'), Nuninst(Doop(notes', op)))]_vars
  <2>. SUFFICES ASSUME RunInv, SkippedInv, [Next]_vars, phase = "trying", phase' = "next",
                       NEW op \in packages'
                PROVE  ~Improved(Nuninst(notes'), Nuninst(Doop(notes', op)))
    OBVIOUS
  <2>1. EndLoop
    BY DEF Next, Consider, SkipHint, DoAll, TakeNext, Lead, JudgeEasy, StartIterEnd, Try, Tried,
           UndoChange, vars
  <2>2. available = {} /\ notes' = notes /\ packages' = packages \ Range(selected)
    BY <2>1 DEF EndLoop, Judge
  <2>3. lead = <<>> /\ nuninst_comp = Nuninst(notes)
    BY DEF RunInv, Applied
  <2>4. Range(lead) = {}
    BY <2>3 DEF Range
  <2>5. op \in extra
    BY <2>2, <2>4 DEF SkippedInv
  <2>. QED
    BY <2>2, <2>3, <2>5 DEF SkippedInv
<1>. QED
  BY <1>1, SkippedAlways, PTL DEF Spec, NothingLeftToAccept

-----------------------------------------------------------------------------
(* Induction on natural numbers, as a fact about a set of them.                *)
LEMMA Induct ==
  ASSUME NEW S \in SUBSET Nat, 0 \in S, \A n \in Nat : n \in S => n + 1 \in S
  PROVE  S = Nat
<1>1. SUFFICES ASSUME Nat \ S # {} PROVE FALSE
  OBVIOUS
<1>2. PICK m \in Nat \ S : \A n \in Nat \ S : ~(n < m)
  <2>1. IsWellFoundedOn(OpToRel(<, Nat), Nat)
    BY NatLessThanWellFounded, Zenon
  <2>2. PICK m \in Nat \ S : \A n \in Nat \ S : <<n, m>> \notin OpToRel(<, Nat)
    BY <1>1, <2>1, WFMin, Zenon
  <2>. QED
    BY <2>2 DEF OpToRel
<1>3. m # 0 /\ m - 1 \in Nat
  BY <1>2
<1>4. m - 1 \in S
  BY <1>2, <1>3
<1>. QED
  BY <1>2, <1>3, <1>4

(* invalidate() goes through a list that grows: after as many rounds as there  *)
(* are sources, nothing that depends on the list is outside of it.             *)
LEMMA InvalidateCloses ==
  ASSUME IsFiniteSet(DOMAIN unstable), NEW invalid \in SUBSET DOMAIN unstable
  PROVE  /\ invalid \subseteq Invalidate(invalid)
         /\ InvalidateOnce(Invalidate(invalid)) \subseteq Invalidate(invalid)
<1>. DEFINE sources == DOMAIN unstable
            N == Cardinality(sources)
            Step(s) == s \cup InvalidateOnce(s)
            IsRounds(f, k) == f = [n \in 0 .. k |-> IF n = 0 THEN invalid ELSE Step(f[n - 1])]
            rounds == CHOOSE f : IsRounds(f, N)
            possible == {k \in Nat : \E f : IsRounds(f, k)}
            Closed(s) == InvalidateOnce(s) \subseteq s
            grown == {k \in Nat : k <= N =>
                         /\ invalid \subseteq rounds[k] /\ rounds[k] \subseteq sources
                         /\ Closed(rounds[k]) \/ Cardinality(rounds[k]) >= k}
<1>1. \A s : InvalidateOnce(s) \subseteq sources
  BY DEF InvalidateOnce
<1>2. N \in Nat
  BY FS_CardinalityType
<1>3. Invalidate(invalid) = rounds[N]
  BY DEF Invalidate
<1>. HIDE DEF sources, N, Step
<1>4. possible = Nat
  <2>1. 0 \in possible
    <3>1. IsRounds([n \in 0 .. 0 |-> invalid], 0)
      OBVIOUS
    <3>. QED
      BY <3>1
  <2>2. ASSUME NEW k \in Nat, k \in possible PROVE k + 1 \in possible
    <3>1. PICK f : IsRounds(f, k)
      BY <2>2
    <3>. DEFINE g == [n \in 0 .. k + 1 |-> IF n = k + 1 THEN Step(f[k]) ELSE f[n]]
    <3>2. \A n \in 0 .. k + 1 : g[n] = IF n = 0 THEN invalid ELSE Step(g[n - 1])
      <4>. SUFFICES ASSUME NEW n \in 0 .. k + 1
                    PROVE  g[n] = IF n = 0 THEN invalid ELSE Step(g[n - 1])
        OBVIOUS
      <4>1. CASE n = k + 1
        BY <4>1
      <4>2. CASE n \in 0 .. k
        <5>1. g[n] = f[n] /\ f[n] = IF n = 0 THEN invalid ELSE Step(f[n - 1])
          BY <3>1, <4>2
        <5>2. n # 0 => g[n - 1] = f[n - 1]
          BY <4>2
        <5>. QED
          BY <5>1, <5>2
      <4>. QED
        BY <4>1, <4>2
    <3>3. IsRounds(g, k + 1)
      BY <3>2
    <3>4. \E f2 : IsRounds(f2, k + 1)
      <4>. HIDE DEF g, IsRounds
      <4>. QED
        BY <3>3
    <3>. QED
      BY <3>4
  <2>. HIDE DEF possible
  <2>3. possible \in SUBSET Nat
    BY DEF possible
  <2>. QED
    BY <2>1, <2>2, <2>3, Induct
<1>5. IsRounds(rounds, N)
  BY <1>2, <1>4
<1>. HIDE DEF rounds
<1>6. rounds[0] = invalid /\ \A n \in Nat : n + 1 <= N => rounds[n + 1] = Step(rounds[n])
  BY <1>2, <1>5
<1>7. grown = Nat
  <2>1. 0 \in grown
    <3>1. Cardinality(invalid) \in Nat
      BY FS_Subset, FS_CardinalityType DEF sources
    <3>. QED
      BY <1>6, <3>1 DEF sources
  <2>2. ASSUME NEW k \in Nat, k \in grown PROVE k + 1 \in grown
    <3>. SUFFICES ASSUME k + 1 <= N
                  PROVE  /\ invalid \subseteq rounds[k + 1] /\ rounds[k + 1] \subseteq sources
                         /\ Closed(rounds[k + 1]) \/ Cardinality(rounds[k + 1]) >= k + 1
      OBVIOUS
    <3>1. /\ invalid \subseteq rounds[k] /\ rounds[k] \subseteq sources
          /\ Closed(rounds[k]) \/ Cardinality(rounds[k]) >= k
      BY <1>2, <2>2
    <3>2. rounds[k + 1] = rounds[k] \cup InvalidateOnce(rounds[k])
      BY <1>6 DEF Step
    <3>3. invalid \subseteq rounds[k + 1] /\ rounds[k + 1] \subseteq sources
      BY <1>1, <3>1, <3>2
    <3>4. CASE Closed(rounds[k])
      <4>1. rounds[k + 1] = rounds[k]
        BY <3>2, <3>4
      <4>. QED
        BY <3>3, <3>4, <4>1
    <3>5. CASE ~Closed(rounds[k])
      <4>1. rounds[k] \subseteq rounds[k + 1] /\ rounds[k] # rounds[k + 1]
        BY <3>2, <3>5
      <4>2. IsFiniteSet(rounds[k + 1]) /\ Cardinality(rounds[k + 1]) \in Nat
        BY <3>3, FS_Subset, FS_CardinalityType DEF sources
      <4>3. /\ IsFiniteSet(rounds[k])
            /\ Cardinality(rounds[k]) <= Cardinality(rounds[k + 1])
            /\ Cardinality(rounds[k]) # Cardinality(rounds[k + 1])
        BY <4>1, <4>2, FS_Subset
      <4>4. Cardinality(rounds[k]) \in Nat
        BY <4>3, FS_CardinalityType
      <4>5. Cardinality(rounds[k + 1]) >= k + 1
        BY <3>1, <3>5, <4>2, <4>3, <4>4
      <4>. QED
        BY <3>3, <4>5
    <3>. QED
      BY <3>4, <3>5
  <2>3. grown \in SUBSET Nat
    OBVIOUS
  <2>. HIDE DEF grown
  <2>. QED
    BY <2>1, <2>2, <2>3, Induct
<1>8. /\ invalid \subseteq rounds[N] /\ rounds[N] \subseteq sources
      /\ Closed(rounds[N]) \/ Cardinality(rounds[N]) >= N
  BY <1>2, <1>7
<1>9. CASE Cardinality(rounds[N]) >= N
  <2>1. /\ IsFiniteSet(rounds[N]) /\ Cardinality(rounds[N]) <= N
        /\ N = Cardinality(rounds[N]) => sources = rounds[N]
    BY <1>8, FS_Subset DEF sources, N
  <2>2. Cardinality(rounds[N]) \in Nat
    BY <2>1, FS_CardinalityType
  <2>3. sources = rounds[N]
    BY <1>2, <1>9, <2>1, <2>2
  <2>. QED
    BY <1>1, <1>3, <1>8, <2>3
<1>. QED
  BY <1>3, <1>8, <1>9

(* What a candidate needs of other sources in unstable is a candidate itself,  *)
(* or not waiting for anything: invalidate() follows the reverse dependencies  *)
(* of the excuses that are no candidates through any number of steps.          *)
THEOREM CandidatesClosed == Spec => InvalidatedClosed
<1>1. RunInv /\ [Next]_vars =>
         [phase = "excuses" =>
            \A op \in packages' : op.what = "source" =>
                \A d \in ExcDeps(op.src) : SourceExcuse(d) => Op(d, "source") \in packages']_vars
  <2>. SUFFICES ASSUME RunInv, [Next]_vars, phase = "excuses", vars' # vars,
                       NEW op \in packages', op.what = "source",
                       NEW d \in ExcDeps(op.src), SourceExcuse(d)
                PROVE  Op(d, "source") \in packages'
    OBVIOUS
  <2>. DEFINE invalid == Invalidate(Unconsidered)
  <2>1. packages' = Removals \cup BinaryUpgrades \cup {o \in Upgrades : o.src \notin invalid}
    BY DEF Next, Consider, SkipHint, DoAll, TakeNext, Lead, JudgeEasy, StartIterEnd, Try, Tried,
           EndLoop, UndoChange
  <2>2. /\ IsFiniteSet(DOMAIN unstable) /\ world \in Worlds
        /\ \A src \in DOMAIN unstable, arch \in Architectures :
               \A b \in unstable[src].bins[arch] : b.source = src
    BY WorldsAssumption DEF RunInv, unstable
  <2>3. /\ Unconsidered \subseteq invalid /\ InvalidateOnce(invalid) \subseteq invalid
        /\ Unconsidered \subseteq DOMAIN unstable
    <3>1. Unconsidered \subseteq DOMAIN unstable
      BY DEF Unconsidered
    <3>. QED
      BY <2>2, <3>1, InvalidateCloses
  <2>. HIDE DEF invalid
  <2>4. op \in Upgrades /\ op.src \notin invalid
    <3>1. op \notin Removals
      BY DEF Removals, Op
    <3>2. op \notin BinaryUpgrades
      <4>1. \A o \in BinaryUpgrades : o.what \in Architectures
        <5>. HIDE DEF unstable, testing
        <5>. QED
          BY DEF BinaryUpgrades, Op
      <4>. QED
        BY <4>1, ArchitecturesAssumption
    <3>. QED
      BY <2>1, <3>1, <3>2
  <2>5. op.src \in DOMAIN unstable /\ ShouldUpgradeSrc(op.src)
    BY <2>4 DEF Upgrades, Op
  <2>6. d \in DOMAIN unstable
    <3>1. PICK arch \in Architectures : d \in DepsOn(op.src, arch)
      BY DEF ExcDeps
    <3>2. PICK c \in Bins(unstable, arch) : d = c.source
      BY <3>1 DEF DepsOn
    <3>. QED
      BY <2>2, <3>2 DEF Bins
  <2>7. d \notin invalid
    <3>1. SourceExcuse(op.src)
      BY <2>5 DEF ShouldUpgradeSrc
    <3>. HIDE DEF unstable
    <3>. QED
      BY <2>3, <2>4, <2>5, <3>1 DEF InvalidateOnce
  <2>8. ShouldUpgradeSrc(d)
    BY <2>3, <2>6, <2>7 DEF Unconsidered
  <2>9. Op(d, "source") \in Upgrades
    BY <2>6, <2>8 DEF Upgrades
  <2>. QED
    BY <2>1, <2>7, <2>9 DEF Op
<1>. QED
  BY <1>1, RunAlways, PTL DEF Spec, InvalidatedClosed
=============================================================================
