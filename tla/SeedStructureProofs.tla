------------------------- MODULE SeedStructureProofs -------------------------
(***************************************************************************)
(* Theorems about the structure of seeds (seeds.py, tsort.py), for every   *)
(* collection of seeds and every order in which the sorter's popitem may   *)
(* take the nodes. First what Python's lists do, in the operators of       *)
(* SeedStructure, that germinate's own proofs use as well.                 *)
(***************************************************************************)
EXTENDS ReverseDependencies, TLAPS, FiniteSetTheorems, SequenceTheorems,
        WellFoundedInduction

-----------------------------------------------------------------------------
(* Induction on natural numbers, as a fact about a set of them.            *)
LEMMA NatInduct ==
  ASSUME NEW S \in SUBSET Nat, 0 \in S, \A n \in Nat : n \in S => n + 1 \in S
  PROVE  S = Nat
<1>1. SUFFICES ASSUME Nat \ S # {} PROVE FALSE
  OBVIOUS
<1>2. PICK m \in Nat \ S : \A n \in Nat \ S : ~(n < m)
  <2>1. IsWellFoundedOn(OpToRel(<, Nat), Nat)
    BY NatLessThanWellFounded, Zenon
  <2>2. PICK m \in Nat \ S : \A n \in Nat \ S : <<n, m>> \notin OpToRel(<, Nat)
    BY <1>1, <2>1, WFMin, Zenon
  <2>. QED
    BY <2>2 DEF OpToRel
<1>3. m # 0 /\ m - 1 \in Nat
  BY <1>2
<1>4. m - 1 \in S
  BY <1>2, <1>3
<1>. QED
  BY <1>2, <1>3, <1>4

(* The same up to a bound.                                                 *)
LEMMA InductUpTo ==
  ASSUME NEW L \in Nat, NEW S, 0 \in S,
         \A n \in Nat : n < L /\ n \in S => n + 1 \in S
  PROVE  \A n \in 0..L : n \in S
<1>. DEFINE T == {n \in Nat : n <= L => n \in S}
<1>1. \A n \in Nat : n \in T => n + 1 \in T
  OBVIOUS
<1>2. 0 \in T /\ T \in SUBSET Nat
  OBVIOUS
<1>3. T = Nat
  <2>. HIDE DEF T
  <2>. QED
    BY <1>1, <1>2, NatInduct
<1>. QED
  BY <1>3

(* A recursive function on 0..L exists, whatever a step does.              *)
StepsIn(step, L, S) == \A x \in S : \A n \in 1..L : step[<<x, n>>] \in S

Recursive(g, step, start, L, S) ==
  /\ g \in [0..L -> S] /\ g[0] = start
  /\ \A n \in 1..L : g[n] = step[<<g[n - 1], n>>]

LEMMA Recursion ==
  ASSUME NEW L \in Nat, NEW S, NEW start \in S, NEW step, StepsIn(step, L, S)
  PROVE  \E g : Recursive(g, step, start, L, S)
<1>. DEFINE Is(g, k) ==
       /\ g = [n \in 0..k |-> IF n = 0 THEN start ELSE step[<<g[n - 1], n>>]]
       /\ g \in [0..k -> S]
     possible == {k \in Nat : \E g : Is(g, k)}
<1>1. 0 \in possible
  <2>. DEFINE g == [n \in 0..0 |-> start]
  <2>1. \A n \in 0..0 : g[n] = IF n = 0 THEN start ELSE step[<<g[n - 1], n>>]
    OBVIOUS
  <2>2. Is(g, 0)
    BY <2>1
  <2>. QED
    BY <2>2
<1>2. ASSUME NEW k \in Nat, k < L, k \in possible PROVE k + 1 \in possible
  <2>1. PICK f : Is(f, k)
    BY <1>2
  <2>. DEFINE g == [n \in 0 .. k + 1 |-> IF n = k + 1 THEN step[<<f[k], k + 1>>] ELSE f[n]]
  <2>2. f[k] \in S /\ step[<<f[k], k + 1>>] \in S
    BY <2>1, <1>2 DEF StepsIn
  <2>3. g \in [0 .. k + 1 -> S]
    BY <2>1, <2>2
  <2>4. \A n \in 0 .. k + 1 : g[n] = IF n = 0 THEN start ELSE step[<<g[n - 1], n>>]
    <3>. SUFFICES ASSUME NEW n \in 0 .. k + 1
                  PROVE  g[n] = IF n = 0 THEN start ELSE step[<<g[n - 1], n>>]
      OBVIOUS
    <3>1. CASE n = k + 1
      <4>1. n - 1 = k /\ n # 0 /\ k \in 0 .. k + 1 /\ k # k + 1
        BY <3>1
      <4>2. g[n - 1] = f[k] /\ g[n] = step[<<f[k], n>>]
        BY <3>1, <4>1
      <4>. QED
        BY <4>1, <4>2
    <3>2. CASE n \in 0 .. k
      <4>1. g[n] = f[n] /\ f[n] = IF n = 0 THEN start ELSE step[<<f[n - 1], n>>]
        BY <2>1, <3>2
      <4>2. n # 0 => g[n - 1] = f[n - 1]
        BY <3>2
      <4>. QED
        BY <4>1, <4>2
    <3>. QED
      BY <3>1, <3>2
  <2>5. Is(g, k + 1)
    BY <2>3, <2>4
  <2>. HIDE DEF g, Is
  <2>6. \E h : Is(h, k + 1)
    BY <2>5
  <2>. QED
    BY <2>6
<1>3. L \in possible
  <2>. HIDE DEF possible
  <2>. QED
    BY <1>1, <1>2, InductUpTo
<1>4. PICK g : Is(g, L)
  BY <1>3
<1>5. \A n \in 0..L : g[n] = IF n = 0 THEN start ELSE step[<<g[n - 1], n>>]
  BY <1>4, Zenon
<1>6. 0 \in 0..L /\ \A n \in 1..L : n \in 0..L /\ n # 0
  OBVIOUS
<1>7. g[0] = start /\ \A n \in 1..L : g[n] = step[<<g[n - 1], n>>]
  BY <1>5, <1>6, Zenon
<1>. QED
  BY <1>4, <1>7 DEF Recursive

-----------------------------------------------------------------------------
(* The elements of sequences.                                              *)
LEMMA ToSetProperties ==
  /\ \A S : \A s \in Seq(S) : ToSet(s) \subseteq S /\ s \in Seq(ToSet(s))
  /\ \A S : \A s \in Seq(S) : \A x : Contains(s, x) <=> x \in ToSet(s)
  /\ ToSet(<<>>) = {}
  /\ \A x : ToSet(<<x>>) = {x}
<1>1. ASSUME NEW S, NEW s \in Seq(S) PROVE ToSet(s) \subseteq S /\ s \in Seq(ToSet(s))
  BY DEF ToSet
<1>2. ASSUME NEW S, NEW s \in Seq(S), NEW x PROVE Contains(s, x) <=> x \in ToSet(s)
  BY DEF ToSet, Contains
<1>3. ToSet(<<>>) = {}
  BY DEF ToSet
<1>4. ASSUME NEW x PROVE ToSet(<<x>>) = {x}
  BY DEF ToSet
<1>. QED
  BY <1>1, <1>2, <1>3, <1>4

LEMMA SeqOfMore ==
  ASSUME NEW S, NEW T, S \subseteq T, NEW s \in Seq(S) PROVE s \in Seq(T)
  OBVIOUS

LEMMA ToSetAppend ==
  ASSUME NEW S, NEW s \in Seq(S), NEW x
  PROVE  ToSet(Append(s, x)) = ToSet(s) \cup {x}
<1>1. /\ Append(s, x) \in Seq(S \cup {x}) /\ Len(Append(s, x)) = Len(s) + 1
      /\ \A i \in 1..Len(s) : Append(s, x)[i] = s[i]
      /\ Append(s, x)[Len(s) + 1] = x
  OBVIOUS
<1>2. DOMAIN Append(s, x) = 1 .. Len(s) + 1 /\ DOMAIN s = 1..Len(s)
  BY <1>1
<1>. QED
  BY <1>1, <1>2 DEF ToSet

LEMMA ToSetConcat ==
  ASSUME NEW S, NEW s \in Seq(S), NEW t \in Seq(S)
  PROVE  ToSet(s \o t) = ToSet(s) \cup ToSet(t)
<1>1. /\ s \o t \in Seq(S) /\ Len(s \o t) = Len(s) + Len(t)
      /\ \A i \in 1 .. Len(s) + Len(t) : (s \o t)[i] = IF i <= Len(s) THEN s[i] ELSE t[i - Len(s)]
  BY ConcatProperties
<1>2. /\ DOMAIN (s \o t) = 1 .. Len(s) + Len(t) /\ DOMAIN s = 1..Len(s) /\ DOMAIN t = 1..Len(t)
      /\ Len(s) \in Nat /\ Len(t) \in Nat
  BY <1>1
<1>3. ASSUME NEW x \in ToSet(s \o t) PROVE x \in ToSet(s) \cup ToSet(t)
  <2>1. PICK i \in 1 .. Len(s) + Len(t) : x = (s \o t)[i]
    BY <1>2 DEF ToSet
  <2>. QED
    BY <1>1, <1>2, <2>1 DEF ToSet
<1>4. ASSUME NEW x \in ToSet(s) PROVE x \in ToSet(s \o t)
  <2>1. PICK i \in 1..Len(s) : x = s[i]
    BY <1>2 DEF ToSet
  <2>. QED
    BY <1>1, <1>2, <2>1 DEF ToSet
<1>5. ASSUME NEW x \in ToSet(t) PROVE x \in ToSet(s \o t)
  <2>1. PICK i \in 1..Len(t) : x = t[i]
    BY <1>2 DEF ToSet
  <2>2. i + Len(s) \in 1 .. Len(s) + Len(t) /\ (s \o t)[i + Len(s)] = t[i]
    BY <1>1, <1>2, <2>1
  <2>. QED
    BY <1>2, <2>1, <2>2 DEF ToSet
<1>. QED
  BY <1>3, <1>4, <1>5

LEMMA ToSetTail ==
  ASSUME NEW S, NEW s \in Seq(S), s # <<>>
  PROVE  ToSet(s) = {s[1]} \cup ToSet(Tail(s)) /\ Head(s) = s[1] /\ s[1] \in S
<1>1. /\ Tail(s) \in Seq(S) /\ Len(Tail(s)) = Len(s) - 1 /\ Len(s) \in Nat \ {0}
      /\ \A i \in 1..Len(Tail(s)) : Tail(s)[i] = s[i + 1]
  BY HeadTailProperties, EmptySeq
<1>2. DOMAIN Tail(s) = 1 .. Len(s) - 1 /\ DOMAIN s = 1..Len(s)
  BY <1>1
<1>3. ASSUME NEW x \in ToSet(s) PROVE x \in {s[1]} \cup ToSet(Tail(s))
  <2>1. PICK i \in 1..Len(s) : x = s[i]
    BY <1>2 DEF ToSet
  <2>2. i # 1 => i - 1 \in 1 .. Len(s) - 1 /\ Tail(s)[i - 1] = s[i]
    BY <1>1, <2>1
  <2>. QED
    BY <1>2, <2>1, <2>2 DEF ToSet
<1>4. ASSUME NEW x \in ToSet(Tail(s)) PROVE x \in ToSet(s)
  <2>1. PICK i \in 1 .. Len(s) - 1 : x = Tail(s)[i]
    BY <1>2 DEF ToSet
  <2>2. i + 1 \in 1..Len(s) /\ Tail(s)[i] = s[i + 1]
    BY <1>1, <2>1
  <2>. QED
    BY <1>2, <2>1, <2>2 DEF ToSet
<1>5. Head(s) = s[1] /\ s[1] \in S /\ 1 \in DOMAIN s
  BY <1>1, <1>2
<1>6. s[1] \in ToSet(s)
  BY <1>5 DEF ToSet
<1>. QED
  BY <1>3, <1>4, <1>5, <1>6

LEMMA ToSetReverse ==
  ASSUME NEW S, NEW s \in Seq(S)
  PROVE  /\ Reverse(s) \in Seq(S) /\ Len(Reverse(s)) = Len(s) /\ ToSet(Reverse(s)) = ToSet(s)
         /\ \A i \in 1..Len(s) : Reverse(s)[i] = s[Len(s) - i + 1]
<1>1. Len(s) \in Nat /\ DOMAIN s = 1..Len(s)
  OBVIOUS
<1>2. /\ Reverse(s) \in Seq(S) /\ Len(Reverse(s)) = Len(s) /\ DOMAIN Reverse(s) = 1..Len(s)
      /\ \A i \in 1..Len(s) : Reverse(s)[i] = s[Len(s) - i + 1]
  BY <1>1 DEF Reverse
<1>3. \A i \in 1..Len(s) : Len(s) - i + 1 \in 1..Len(s) /\ Reverse(s)[Len(s) - i + 1] = s[i]
  <2>. TAKE i \in 1..Len(s)
  <2>1. Len(s) - i + 1 \in 1..Len(s) /\ Len(s) - (Len(s) - i + 1) + 1 = i
    BY <1>1
  <2>. QED
    BY <1>2, <2>1
<1>4. \A i \in 1..Len(s) : Len(s) - i + 1 \in 1..Len(s)
  BY <1>1
<1>5. ToSet(Reverse(s)) \subseteq ToSet(s)
  BY <1>1, <1>2, <1>4 DEF ToSet
<1>6. ToSet(s) \subseteq ToSet(Reverse(s))
  BY <1>1, <1>2, <1>3, <1>4 DEF ToSet
<1>. QED
  BY <1>2, <1>5, <1>6

-----------------------------------------------------------------------------
(* Keep. It goes through the sequence, with what it has kept so far.       *)
KeepsUpTo(h, seq, set, T) ==
  /\ h \in [0..Len(seq) -> Seq(T)]
  /\ h[0] = <<>>
  /\ \A n \in 1..Len(seq) :
       h[n] = IF seq[n] \in set THEN Append(h[n - 1], seq[n]) ELSE h[n - 1]

LEMMA KeepSteps ==
  ASSUME NEW T, NEW seq \in Seq(T), NEW set
  PROVE  \E h : KeepsUpTo(h, seq, set, T) /\ Keep(seq, set) = h[Len(seq)]
<1>. DEFINE L == Len(seq)
     Is(g) == g = [n \in 0..L |->
       IF n = 0 THEN <<>>
       ELSE IF seq[n] \in set THEN Append(g[n - 1], seq[n]) ELSE g[n - 1]]
     step == [x \in Seq(T) \X (1..L) |->
               IF seq[x[2]] \in set THEN Append(x[1], seq[x[2]]) ELSE x[1]]
<1>1. L \in Nat /\ <<>> \in Seq(T) /\ \A n \in 1..L : seq[n] \in T
  OBVIOUS
<1>2. StepsIn(step, L, Seq(T))
  BY <1>1 DEF StepsIn
<1>3. PICK g : Recursive(g, step, <<>>, L, Seq(T))
  <2>. HIDE DEF step, L
  <2>. QED
    BY <1>1, <1>2, Recursion
<1>5. Is(g)
  <2>1. ASSUME NEW n \in 0..L, n # 0
        PROVE  g[n] = IF seq[n] \in set THEN Append(g[n - 1], seq[n]) ELSE g[n - 1]
    <3>1. n - 1 \in 0..L /\ n \in 1..L
      BY <1>1, <2>1
    <3>2. <<g[n - 1], n>> \in Seq(T) \X (1..L)
      BY <1>3, <3>1 DEF Recursive
    <3>. QED
      BY <1>3, <3>1, <3>2 DEF Recursive
  <2>. HIDE DEF step, L
  <2>. QED
    BY <1>3, <2>1 DEF Recursive
<1>. DEFINE h == CHOOSE f : Is(f)
<1>6. Is(h)
  <2>. HIDE DEF Is
  <2>. QED
    BY <1>5
<1>7. Keep(seq, set) = h[L]
  BY DEF Keep
<1>. HIDE DEF h
<1>8. \A n \in 0..L :
        h[n] = IF n = 0 THEN <<>>
               ELSE IF seq[n] \in set THEN Append(h[n - 1], seq[n]) ELSE h[n - 1]
  BY <1>6, Zenon
<1>a. 0 \in 0..L /\ \A n \in 1..L : n \in 0..L /\ n # 0
  BY <1>1
<1>b. /\ h[0] = <<>>
      /\ \A n \in 1..L : h[n] = IF seq[n] \in set THEN Append(h[n - 1], seq[n]) ELSE h[n - 1]
  <2>. HIDE DEF L
  <2>. QED
    BY <1>8, <1>a, Zenon
<1>9. h \in [0..L -> Seq(T)]
  <2>. DEFINE good == {n \in 0..L : h[n] \in Seq(T)}
  <2>1. 0 \in good
    BY <1>1, <1>a, <1>b
  <2>2. ASSUME NEW n \in Nat, n < L, n \in good PROVE n + 1 \in good
    <3>1. n + 1 \in 0..L /\ seq[n + 1] \in T /\ h[n] \in Seq(T) /\ (n + 1) - 1 = n /\ n + 1 # 0
      BY <1>1, <2>2
    <3>2. h[n + 1] = IF seq[n + 1] \in set THEN Append(h[n], seq[n + 1]) ELSE h[n]
      BY <1>8, <3>1
    <3>3. h[n + 1] \in Seq(T)
      BY <3>1, <3>2
    <3>. QED
      BY <3>1, <3>3
  <2>3. \A n \in 0..L : n \in good
    <3>. HIDE DEF good, L
    <3>. QED
      BY <1>1, <2>1, <2>2, InductUpTo
  <2>. QED
    BY <1>6, <2>3
<1>. QED
  BY <1>7, <1>9, <1>b, Zenon DEF KeepsUpTo

LEMMA KeepProperties ==
  ASSUME NEW T, NEW seq \in Seq(T), NEW set
  PROVE  Keep(seq, set) \in Seq(T) /\ ToSet(Keep(seq, set)) = ToSet(seq) \cap set
<1>. DEFINE L == Len(seq)
<1>0. PICK h : KeepsUpTo(h, seq, set, T) /\ Keep(seq, set) = h[Len(seq)]
  BY KeepSteps
<1>1. /\ h \in [0..L -> Seq(T)] /\ h[0] = <<>> /\ Keep(seq, set) = h[L]
      /\ \A n \in 1..L :
           h[n] = IF seq[n] \in set THEN Append(h[n - 1], seq[n]) ELSE h[n - 1]
  BY <1>0, Zenon DEF KeepsUpTo
<1>2. L \in Nat /\ DOMAIN seq = 1..L
  OBVIOUS
<1>. DEFINE good == {n \in 0..L : ToSet(h[n]) = {seq[i] : i \in 1..n} \cap set}
<1>. HIDE DEF L
<1>3. 0 \in good
  BY <1>1, <1>2, ToSetProperties
<1>4. ASSUME NEW n \in Nat, n < L, n \in good PROVE n + 1 \in good
  <2>1. n + 1 \in 1..L /\ n + 1 \in 0..L /\ n \in 0..L /\ (n + 1) - 1 = n
    BY <1>2, <1>4
  <2>2. h[n + 1] = IF seq[n + 1] \in set THEN Append(h[n], seq[n + 1]) ELSE h[n]
    BY <1>1, <2>1
  <2>3. h[n] \in Seq(T) /\ ToSet(h[n]) = {seq[i] : i \in 1..n} \cap set
    BY <1>1, <1>4, <2>1
  <2>4. {seq[i] : i \in 1 .. n + 1} = {seq[i] : i \in 1..n} \cup {seq[n + 1]}
    BY <1>2, <2>1
  <2>5. CASE seq[n + 1] \in set
    <3>1. ToSet(h[n + 1]) = ToSet(h[n]) \cup {seq[n + 1]}
      BY <2>2, <2>3, <2>5, ToSetAppend
    <3>. QED
      BY <2>1, <2>3, <2>4, <2>5, <3>1
  <2>6. CASE seq[n + 1] \notin set
    BY <2>1, <2>2, <2>3, <2>4, <2>6
  <2>. QED
    BY <2>5, <2>6
<1>5. \A n \in 0..L : n \in good
  <2>. HIDE DEF good
  <2>. QED
    BY <1>2, <1>3, <1>4, InductUpTo
<1>6. ToSet(h[L]) = {seq[i] : i \in 1..L} \cap set
  BY <1>2, <1>5
<1>7. h[L] \in Seq(T)
  BY <1>1, <1>2
<1>8. ToSet(seq) = {seq[i] : i \in 1..L}
  BY <1>2, Zenon DEF ToSet
<1>. QED
  BY <1>1, <1>6, <1>7, <1>8

(* What it keeps first is the first element that is to be kept.            *)
LEMMA KeepFirst ==
  ASSUME NEW T, NEW seq \in Seq(T), NEW set, NEW i \in 1..Len(seq), seq[i] \in set,
         \A j \in 1 .. i - 1 : seq[j] \notin set
  PROVE  Keep(seq, set) # <<>> /\ Keep(seq, set)[1] = seq[i]
<1>. DEFINE L == Len(seq)
<1>0. PICK h : KeepsUpTo(h, seq, set, T) /\ Keep(seq, set) = h[Len(seq)]
  BY KeepSteps
<1>1. /\ h \in [0..L -> Seq(T)] /\ h[0] = <<>> /\ Keep(seq, set) = h[L]
      /\ \A n \in 1..L :
           h[n] = IF seq[n] \in set THEN Append(h[n - 1], seq[n]) ELSE h[n - 1]
  BY <1>0, Zenon DEF KeepsUpTo
<1>2. L \in Nat /\ i \in 1..L
  OBVIOUS
<1>. DEFINE good == {n \in 0..L : IF n < i THEN h[n] = <<>> ELSE h[n] # <<>> /\ h[n][1] = seq[i]}
<1>. HIDE DEF L
<1>3. 0 \in good
  BY <1>1, <1>2
<1>4. ASSUME NEW n \in Nat, n < L, n \in good PROVE n + 1 \in good
  <2>1. n + 1 \in 1..L /\ n + 1 \in 0..L /\ n \in 0..L /\ (n + 1) - 1 = n
    BY <1>2, <1>4
  <2>2. h[n + 1] = IF seq[n + 1] \in set THEN Append(h[n], seq[n + 1]) ELSE h[n]
    BY <1>1, <2>1
  <2>3. h[n] \in Seq(T)
    BY <1>1, <2>1
  <2>4. CASE n + 1 < i
    <3>1. seq[n + 1] \notin set /\ h[n] = <<>>
      BY <1>2, <1>4, <2>1, <2>4
    <3>. QED
      BY <2>1, <2>2, <2>4, <3>1
  <2>5. CASE n + 1 = i
    <3>1. h[n] = <<>> /\ h[n + 1] = Append(h[n], seq[i])
      BY <1>2, <1>4, <2>2, <2>5
    <3>2. h[n + 1] = <<seq[i]>>
      BY <3>1
    <3>. QED
      BY <2>1, <2>5, <3>2
  <2>6. CASE n + 1 > i
    <3>1. h[n] # <<>> /\ h[n][1] = seq[i]
      BY <1>2, <1>4, <2>6
    <3>2. h[n + 1] # <<>> /\ h[n + 1][1] = h[n][1]
      BY <2>2, <2>3, <3>1
    <3>. QED
      BY <2>1, <2>6, <3>1, <3>2
  <2>. QED
    BY <1>2, <2>1, <2>4, <2>5, <2>6
<1>5. \A n \in 0..L : n \in good
  <2>. HIDE DEF good
  <2>. QED
    BY <1>2, <1>3, <1>4, InductUpTo
<1>6. L \in good /\ ~(L < i)
  BY <1>2, <1>5
<1>. QED
  BY <1>1, <1>2, <1>6

-----------------------------------------------------------------------------
(* AppendNew.                                                              *)
Distinct(s) == \A i, j \in DOMAIN s : s[i] = s[j] => i = j

LEMMA DistinctAppend ==
  ASSUME NEW S, NEW s \in Seq(S), NEW x, Distinct(s), x \notin ToSet(s)
  PROVE  Distinct(Append(s, x))
<1>1. /\ Append(s, x) \in Seq(S \cup {x}) /\ Len(Append(s, x)) = Len(s) + 1 /\ Len(s) \in Nat
      /\ \A i \in 1..Len(s) : Append(s, x)[i] = s[i]
      /\ Append(s, x)[Len(s) + 1] = x
  OBVIOUS
<1>2. DOMAIN Append(s, x) = 1 .. Len(s) + 1 /\ DOMAIN s = 1..Len(s)
  BY <1>1
<1>3. \A i \in 1..Len(s) : s[i] # x
  BY <1>2 DEF ToSet
<1>. QED
  BY <1>1, <1>2, <1>3 DEF Distinct

WithNew(seq, x) == IF Contains(seq, x) THEN seq ELSE Append(seq, x)

AppendsUpTo(h, seq, more, T) ==
  /\ h \in [0..Len(more) -> Seq(T)]
  /\ h[0] = seq
  /\ \A n \in 1..Len(more) : h[n] = WithNew(h[n - 1], more[n])

LEMMA WithNewProperties ==
  ASSUME NEW T, NEW seq \in Seq(T), NEW x \in T
  PROVE  /\ WithNew(seq, x) \in Seq(T) /\ ToSet(WithNew(seq, x)) = ToSet(seq) \cup {x}
         /\ Distinct(seq) => Distinct(WithNew(seq, x))
         /\ x \in ToSet(seq) => WithNew(seq, x) = seq
         /\ x \notin ToSet(seq) => WithNew(seq, x) = Append(seq, x)
<1>1. CASE x \in ToSet(seq)
  BY <1>1, ToSetProperties DEF WithNew
<1>2. CASE x \notin ToSet(seq)
  <2>1. WithNew(seq, x) = Append(seq, x)
    BY <1>2, ToSetProperties DEF WithNew
  <2>2. ToSet(Append(seq, x)) = ToSet(seq) \cup {x} /\ Append(seq, x) \in Seq(T)
    BY ToSetAppend
  <2>3. Distinct(seq) => Distinct(Append(seq, x))
    BY <1>2, DistinctAppend
  <2>. QED
    BY <1>2, <2>1, <2>2, <2>3
<1>. QED
  BY <1>1, <1>2

LEMMA AppendNewSteps ==
  ASSUME NEW T, NEW seq \in Seq(T), NEW more \in Seq(T)
  PROVE  \E h : AppendsUpTo(h, seq, more, T) /\ AppendNew(seq, more) = h[Len(more)]
<1>. DEFINE L == Len(more)
     Is(g) == g = [n \in 0..L |->
       IF n = 0 THEN seq
       ELSE LET before == g[n - 1]
            IN IF Contains(before, more[n]) THEN before ELSE Append(before, more[n])]
     step == [x \in Seq(T) \X (1..L) |-> WithNew(x[1], more[x[2]])]
<1>1. L \in Nat /\ \A n \in 1..L : more[n] \in T
  OBVIOUS
<1>2. StepsIn(step, L, Seq(T))
  BY <1>1, WithNewProperties DEF StepsIn
<1>3. PICK g : Recursive(g, step, seq, L, Seq(T))
  <2>. HIDE DEF step, L
  <2>. QED
    BY <1>1, <1>2, Recursion
<1>5. Is(g)
  <2>1. ASSUME NEW n \in 0..L, n # 0 PROVE g[n] = WithNew(g[n - 1], more[n])
    <3>1. n - 1 \in 0..L /\ n \in 1..L
      BY <1>1, <2>1
    <3>2. <<g[n - 1], n>> \in Seq(T) \X (1..L)
      BY <1>3, <3>1 DEF Recursive
    <3>. QED
      BY <1>3, <3>1, <3>2 DEF Recursive
  <2>. HIDE DEF step, L
  <2>. QED
    BY <1>3, <2>1 DEF Recursive, WithNew
<1>. DEFINE h == CHOOSE f : Is(f)
<1>6. Is(h)
  <2>. HIDE DEF Is
  <2>. QED
    BY <1>5
<1>7. AppendNew(seq, more) = h[L]
  BY DEF AppendNew
<1>. HIDE DEF h
<1>8. \A n \in 0..L : h[n] = IF n = 0 THEN seq ELSE WithNew(h[n - 1], more[n])
  BY <1>6, Zenon DEF WithNew
<1>a. 0 \in 0..L /\ \A n \in 1..L : n \in 0..L /\ n # 0
  BY <1>1
<1>b. h[0] = seq /\ \A n \in 1..L : h[n] = WithNew(h[n - 1], more[n])
  <2>. HIDE DEF L
  <2>. QED
    BY <1>8, <1>a, Zenon
<1>9. h \in [0..L -> Seq(T)]
  <2>. DEFINE good == {n \in 0..L : h[n] \in Seq(T)}
  <2>1. 0 \in good
    BY <1>1, <1>a, <1>b
  <2>2. ASSUME NEW n \in Nat, n < L, n \in good PROVE n + 1 \in good
    <3>1. /\ n + 1 \in 0..L /\ n + 1 \in 1..L /\ more[n + 1] \in T /\ h[n] \in Seq(T)
          /\ (n + 1) - 1 = n
      BY <1>1, <2>2
    <3>2. h[n + 1] = WithNew(h[n], more[n + 1])
      BY <1>b, <3>1
    <3>3. h[n + 1] \in Seq(T)
      BY <3>1, <3>2, WithNewProperties
    <3>. QED
      BY <3>1, <3>3
  <2>3. \A n \in 0..L : n \in good
    <3>. HIDE DEF good, L
    <3>. QED
      BY <1>1, <2>1, <2>2, InductUpTo
  <2>. QED
    BY <1>6, <2>3
<1>. QED
  BY <1>7, <1>9, <1>b, Zenon DEF AppendsUpTo

LEMMA AppendNewProperties ==
  ASSUME NEW T, NEW seq \in Seq(T), NEW more \in Seq(T)
  PROVE  /\ AppendNew(seq, more) \in Seq(T)
         /\ ToSet(AppendNew(seq, more)) = ToSet(seq) \cup ToSet(more)
         /\ Distinct(seq) => Distinct(AppendNew(seq, more))
         /\ ToSet(more) \subseteq ToSet(seq) => AppendNew(seq, more) = seq
<1>. DEFINE L == Len(more)
<1>0. PICK h : AppendsUpTo(h, seq, more, T) /\ AppendNew(seq, more) = h[L]
  BY AppendNewSteps
<1>1. /\ h \in [0..L -> Seq(T)] /\ h[0] = seq
      /\ \A n \in 1..L : h[n] = WithNew(h[n - 1], more[n])
  BY <1>0, Zenon DEF AppendsUpTo
<1>2. L \in Nat /\ DOMAIN more = 1..L /\ \A n \in 1..L : more[n] \in T
  OBVIOUS
<1>. DEFINE good == {n \in 0..L : /\ ToSet(h[n]) = ToSet(seq) \cup {more[i] : i \in 1..n}
                                  /\ Distinct(seq) => Distinct(h[n])
                                  /\ ToSet(more) \subseteq ToSet(seq) => h[n] = seq}
<1>a. ToSet(more) = {more[i] : i \in 1..L}
  BY <1>2, Zenon DEF ToSet
<1>. HIDE DEF L
<1>3. 0 \in good
  BY <1>1, <1>2
<1>4. ASSUME NEW n \in Nat, n < L, n \in good PROVE n + 1 \in good
  <2>1. n + 1 \in 1..L /\ n + 1 \in 0..L /\ n \in 0..L /\ (n + 1) - 1 = n
    BY <1>2, <1>4
  <2>2. h[n + 1] = WithNew(h[n], more[n + 1]) /\ h[n] \in Seq(T) /\ more[n + 1] \in T
    BY <1>1, <1>2, <2>1
  <2>3. {more[i] : i \in 1 .. n + 1} = {more[i] : i \in 1..n} \cup {more[n + 1]}
    BY <1>2, <2>1
  <2>a. h[n] \in Seq(T) /\ more[n + 1] \in T
    BY <2>2
  <2>b. ToSet(WithNew(h[n], more[n + 1])) = ToSet(h[n]) \cup {more[n + 1]}
    BY <2>a, WithNewProperties, ZenonT(60)
  <2>c. Distinct(h[n]) => Distinct(WithNew(h[n], more[n + 1]))
    BY <2>a, WithNewProperties, Zenon
  <2>4. ToSet(h[n + 1]) = ToSet(h[n]) \cup {more[n + 1]}
    BY <2>2, <2>b
  <2>5. Distinct(h[n]) => Distinct(h[n + 1])
    BY <2>2, <2>c
  <2>6. more[n + 1] \in ToSet(h[n]) => h[n + 1] = h[n]
    BY <2>2, WithNewProperties, Zenon
  <2>7. more[n + 1] \in ToSet(more)
    BY <1>2, <2>1 DEF ToSet
  <2>. QED
    BY <1>4, <2>1, <2>3, <2>4, <2>5, <2>6, <2>7
<1>5. \A n \in 0..L : n \in good
  <2>. HIDE DEF good
  <2>. QED
    BY <1>2, <1>3, <1>4, InductUpTo
<1>6. /\ ToSet(h[L]) = ToSet(seq) \cup {more[i] : i \in 1..L}
      /\ Distinct(seq) => Distinct(h[L])
      /\ ToSet(more) \subseteq ToSet(seq) => h[L] = seq
  BY <1>2, <1>5
<1>7. h[L] \in Seq(T)
  BY <1>1, <1>2
<1>. QED
  BY <1>0, <1>6, <1>7, <1>a

LEMMA AppendNewOne ==
  ASSUME NEW T, NEW seq \in Seq(T), NEW x \in T
  PROVE  AppendNew(seq, <<x>>) = WithNew(seq, x)
<1>1. <<x>> \in Seq(T) /\ Len(<<x>>) = 1 /\ <<x>>[1] = x
  OBVIOUS
<1>2. PICK h : AppendsUpTo(h, seq, <<x>>, T) /\ AppendNew(seq, <<x>>) = h[Len(<<x>>)]
  BY <1>1, AppendNewSteps
<1>3. h[0] = seq /\ h[1] = WithNew(h[0], x)
  <2>1. 1 \in 1..Len(<<x>>) /\ 1 - 1 = 0
    BY <1>1
  <2>. QED
    BY <1>1, <1>2, <2>1, Zenon DEF AppendsUpTo
<1>. QED
  BY <1>1, <1>2, <1>3

LEMMA AppendNewRest ==
  ASSUME NEW T, NEW seq \in Seq(T), NEW more \in Seq(T), more # <<>>
  PROVE  AppendNew(seq, more) = AppendNew(WithNew(seq, more[1]), Tail(more))
<1>. DEFINE L == Len(more)
            rest == Tail(more)
            one == WithNew(seq, more[1])
<1>2. /\ L \in Nat /\ L > 0 /\ rest \in Seq(T) /\ Len(rest) = L - 1 /\ L - 1 \in Nat
      /\ \A i \in 1 .. L - 1 : rest[i] = more[i + 1]
      /\ more[1] \in T
  BY HeadTailProperties, EmptySeq, ToSetTail
<1>3. one \in Seq(T)
  BY <1>2, WithNewProperties
<1>4. PICK h : AppendsUpTo(h, seq, more, T) /\ AppendNew(seq, more) = h[L]
  BY AppendNewSteps
<1>5. /\ h \in [0..L -> Seq(T)] /\ h[0] = seq
      /\ \A n \in 1..L : h[n] = WithNew(h[n - 1], more[n])
  BY <1>4, Zenon DEF AppendsUpTo
<1>6. PICK g : AppendsUpTo(g, one, rest, T) /\ AppendNew(one, rest) = g[Len(rest)]
  <2>. HIDE DEF one, rest
  <2>. QED
    BY <1>2, <1>3, AppendNewSteps
<1>. HIDE DEF rest, L, one
<1>7. /\ g \in [0 .. L - 1 -> Seq(T)] /\ g[0] = one
      /\ \A n \in 1 .. L - 1 : g[n] = WithNew(g[n - 1], rest[n])
  BY <1>2, <1>6, Zenon DEF AppendsUpTo
<1>. DEFINE good == {n \in 0 .. L - 1 : h[n + 1] = g[n]}
<1>8. 0 \in good
  <2>1. 1 \in 1..L /\ 1 - 1 = 0 /\ 0 \in 0 .. L - 1 /\ 0 + 1 = 1
    BY <1>2
  <2>2. h[1] = WithNew(h[0], more[1])
    BY <1>5, <2>1
  <2>. QED
    BY <1>5, <1>7, <2>1, <2>2 DEF one
<1>9. ASSUME NEW n \in Nat, n < L - 1, n \in good PROVE n + 1 \in good
  <2>1. /\ n + 1 \in 1 .. L - 1 /\ n + 1 \in 0 .. L - 1 /\ n + 2 \in 1..L /\ (n + 1) - 1 = n
        /\ (n + 2) - 1 = n + 1 /\ n + 1 + 1 = n + 2
    BY <1>2, <1>9
  <2>2. rest[n + 1] = more[n + 2]
    BY <1>2, <2>1
  <2>3. h[n + 2] = WithNew(h[n + 1], more[n + 2]) /\ g[n + 1] = WithNew(g[n], rest[n + 1])
    BY <1>5, <1>7, <2>1
  <2>. QED
    BY <1>9, <2>1, <2>2, <2>3
<1>10. \A n \in 0 .. L - 1 : n \in good
  <2>. HIDE DEF good
  <2>. QED
    BY <1>2, <1>8, <1>9, InductUpTo
<1>11. L - 1 \in good /\ L - 1 + 1 = L
  <2>. HIDE DEF good
  <2>. QED
    BY <1>2, <1>10
<1>. QED
  BY <1>2, <1>4, <1>6, <1>11 DEF rest, one

-----------------------------------------------------------------------------
(* A sequence whose elements are distinct has as many as its set.          *)
LEMMA ElementsFinite ==
  ASSUME NEW S, NEW s \in Seq(S)
  PROVE  IsFiniteSet(ToSet(s))
<1>1. Len(s) \in Nat /\ DOMAIN s = 1..Len(s) /\ s \in [1..Len(s) -> ToSet(s)]
  BY DEF ToSet
<1>2. IsFiniteSet(1..Len(s))
  BY <1>1, FS_Interval
<1>3. s \in Surjection(1..Len(s), ToSet(s))
  BY <1>1 DEF Surjection, ToSet
<1>. QED
  BY <1>2, <1>3, FS_Surjection

LEMMA DistinctLength ==
  ASSUME NEW S, NEW s \in Seq(S), Distinct(s)
  PROVE  Len(s) = Cardinality(ToSet(s))
<1>1. Len(s) \in Nat /\ DOMAIN s = 1..Len(s) /\ s \in [1..Len(s) -> ToSet(s)]
  BY DEF ToSet
<1>2. IsFiniteSet(1..Len(s)) /\ Cardinality(1..Len(s)) = Len(s)
  BY <1>1, FS_Interval
<1>3. s \in Surjection(1..Len(s), ToSet(s))
  BY <1>1 DEF Surjection, ToSet
<1>4. s \in Injection(1..Len(s), ToSet(s))
  BY <1>1 DEF Injection, IsInjective, Distinct
<1>5. Cardinality(ToSet(s)) = Cardinality(1..Len(s))
  BY <1>2, <1>3, <1>4, FS_Surjection
<1>. QED
  BY <1>2, <1>5

-----------------------------------------------------------------------------
(* Reached(start, next) is the least set with the elements of start that   *)
(* next does not lead out of.                                              *)
Closed(set, next) == \A x \in set : next[x] \subseteq set

ReachesUpTo(h, L, start, next, D) ==
  /\ h \in [0..L -> SUBSET D] /\ h[0] = start
  /\ \A n \in 1..L : h[n] = h[n - 1] \cup UNION {next[x] : x \in h[n - 1]}

LEMMA ReachedSteps ==
  ASSUME NEW D, NEW next \in [D -> SUBSET D], NEW start \in SUBSET D, IsFiniteSet(D)
  PROVE  \E h : /\ ReachesUpTo(h, Cardinality(D), start, next, D)
                /\ Reached(start, next) = h[Cardinality(D)]
<1>. DEFINE L == Cardinality(D)
     V == SUBSET D
     After(s) == s \cup UNION {next[x] : x \in s}
     Is(g) == g = [n \in 0..L |->
       IF n = 0 THEN start
       ELSE LET near == g[n - 1] IN near \cup UNION {next[x] : x \in near}]
     step == [y \in V \X (1..L) |-> After(y[1])]
<1>1. L \in Nat /\ DOMAIN next = D
  BY FS_CardinalityType
<1>. HIDE DEF L
<1>2. StepsIn(step, L, V)
  BY DEF StepsIn
<1>3. PICK g : Recursive(g, step, start, L, V)
  <2>. HIDE DEF step
  <2>. QED
    BY <1>1, <1>2, Recursion
<1>4. \A n \in 0..L : n # 0 => g[n] = After(g[n - 1])
  <2>1. ASSUME NEW n \in 0..L, n # 0 PROVE g[n] = After(g[n - 1])
    <3>1. n - 1 \in 0..L /\ n \in 1..L
      BY <1>1, <2>1
    <3>2. <<g[n - 1], n>> \in V \X (1..L)
      BY <1>3, <3>1 DEF Recursive
    <3>3. g[n] = step[<<g[n - 1], n>>]
      BY <1>3, <3>1 DEF Recursive
    <3>4. step[<<g[n - 1], n>>] = After(g[n - 1])
      BY <3>2
    <3>. QED
      BY <3>3, <3>4
  <2>. QED
    BY <2>1
<1>5. Is(g)
  <2>. HIDE DEF step
  <2>. QED
    BY <1>3, <1>4 DEF Recursive
<1>. DEFINE h == CHOOSE f : Is(f)
<1>6. Is(h)
  <2>. HIDE DEF Is
  <2>. QED
    BY <1>5
<1>7. Reached(start, next) = h[L]
  BY <1>1 DEF Reached, L
<1>. HIDE DEF h
<1>8. \A n \in 0..L : h[n] = IF n = 0 THEN start ELSE After(h[n - 1])
  BY <1>6, Zenon
<1>a. 0 \in 0..L /\ \A n \in 1..L : n \in 0..L /\ n # 0
  BY <1>1
<1>b. h[0] = start /\ \A n \in 1..L : h[n] = After(h[n - 1])
  BY <1>8, <1>a, Zenon
<1>9. h \in [0..L -> V]
  <2>. DEFINE good == {n \in 0..L : h[n] \in V}
  <2>1. 0 \in good
    BY <1>1, <1>a, <1>b
  <2>2. ASSUME NEW n \in Nat, n < L, n \in good PROVE n + 1 \in good
    <3>1. n + 1 \in 0..L /\ n + 1 \in 1..L /\ (n + 1) - 1 = n
      BY <1>1, <2>2
    <3>2. h[n + 1] = After(h[n]) /\ h[n] \subseteq D
      BY <1>b, <3>1, <2>2
    <3>3. h[n + 1] \subseteq D
      BY <3>2
    <3>. QED
      BY <3>1, <3>3
  <2>3. \A n \in 0..L : n \in good
    <3>. HIDE DEF good
    <3>. QED
      BY <1>1, <2>1, <2>2, InductUpTo
  <2>. QED
    BY <1>6, <2>3
<1>. QED
  BY <1>7, <1>9, <1>b, Zenon DEF L, ReachesUpTo

LEMMA ReachedLeast ==
  ASSUME NEW D, NEW next \in [D -> SUBSET D], NEW start \in SUBSET D, IsFiniteSet(D),
         NEW C, start \subseteq C, Closed(C, next)
  PROVE  Reached(start, next) \subseteq C
<1>. DEFINE L == Cardinality(D)
<1>0. PICK h : ReachesUpTo(h, Cardinality(D), start, next, D) /\ Reached(start, next) = h[L]
  BY ReachedSteps
<1>1. /\ h \in [0..L -> SUBSET D] /\ h[0] = start /\ Reached(start, next) = h[L]
      /\ \A n \in 1..L : h[n] = h[n - 1] \cup UNION {next[x] : x \in h[n - 1]}
  BY <1>0, Zenon DEF ReachesUpTo
<1>2. L \in Nat
  BY FS_CardinalityType
<1>. DEFINE good == {n \in 0..L : h[n] \subseteq C}
<1>. HIDE DEF L
<1>3. 0 \in good
  BY <1>1, <1>2
<1>4. ASSUME NEW n \in Nat, n < L, n \in good PROVE n + 1 \in good
  <2>1. n + 1 \in 1..L /\ n + 1 \in 0..L /\ (n + 1) - 1 = n /\ h[n] \subseteq C
    BY <1>2, <1>4
  <2>2. h[n + 1] = h[n] \cup UNION {next[x] : x \in h[n]}
    BY <1>1, <2>1
  <2>3. h[n + 1] \subseteq C
    BY <2>1, <2>2 DEF Closed
  <2>. QED
    BY <2>1, <2>3
<1>5. \A n \in 0..L : n \in good
  <2>. HIDE DEF good
  <2>. QED
    BY <1>2, <1>3, <1>4, InductUpTo
<1>. QED
  BY <1>1, <1>2, <1>5

LEMMA ReachedCloses ==
  ASSUME NEW D, NEW next \in [D -> SUBSET D], NEW start \in SUBSET D, IsFiniteSet(D)
  PROVE  /\ start \subseteq Reached(start, next) /\ Reached(start, next) \subseteq D
         /\ Closed(Reached(start, next), next)
<1>. DEFINE L == Cardinality(D)
<1>0. PICK h : ReachesUpTo(h, Cardinality(D), start, next, D) /\ Reached(start, next) = h[L]
  BY ReachedSteps
<1>1. /\ h \in [0..L -> SUBSET D] /\ h[0] = start /\ Reached(start, next) = h[L]
      /\ \A n \in 1..L : h[n] = h[n - 1] \cup UNION {next[x] : x \in h[n - 1]}
  BY <1>0, Zenon DEF ReachesUpTo
<1>2. L \in Nat
  BY FS_CardinalityType
<1>. DEFINE good == {n \in 0..L : /\ start \subseteq h[n]
                                  /\ Closed(h[n], next) \/ Cardinality(h[n]) >= n}
<1>3. 0 \in good
  <2>1. IsFiniteSet(h[0]) /\ Cardinality(h[0]) \in Nat
    BY <1>1, FS_Subset, FS_CardinalityType
  <2>. HIDE DEF L
  <2>. QED
    BY <1>1, <1>2, <2>1
<1>4. ASSUME NEW n \in Nat, n < L, n \in good PROVE n + 1 \in good
  <2>. HIDE DEF L
  <2>1. /\ n + 1 \in 1..L /\ n + 1 \in 0..L /\ n \in 0..L /\ (n + 1) - 1 = n
        /\ start \subseteq h[n]
        /\ Closed(h[n], next) \/ Cardinality(h[n]) >= n
    BY <1>2, <1>4
  <2>2. h[n + 1] = h[n] \cup UNION {next[x] : x \in h[n]} /\ h[n + 1] \subseteq D
    BY <1>1, <2>1
  <2>3. CASE Closed(h[n], next)
    <3>1. h[n + 1] = h[n]
      BY <2>2, <2>3 DEF Closed
    <3>. QED
      BY <2>1, <2>3, <3>1
  <2>4. CASE ~Closed(h[n], next)
    <3>1. h[n] \subseteq h[n + 1] /\ h[n] # h[n + 1]
      BY <2>2, <2>4 DEF Closed
    <3>2. IsFiniteSet(h[n + 1]) /\ Cardinality(h[n + 1]) \in Nat
      BY <2>2, FS_Subset, FS_CardinalityType
    <3>3. /\ IsFiniteSet(h[n]) /\ Cardinality(h[n]) <= Cardinality(h[n + 1])
          /\ Cardinality(h[n]) # Cardinality(h[n + 1])
      BY <3>1, <3>2, FS_Subset
    <3>4. Cardinality(h[n]) \in Nat
      BY <3>3, FS_CardinalityType
    <3>5. Cardinality(h[n + 1]) >= n + 1
      BY <2>1, <2>4, <3>2, <3>3, <3>4
    <3>. QED
      BY <2>1, <3>1, <3>5
  <2>. QED
    BY <2>3, <2>4
<1>5. \A n \in 0..L : n \in good
  <2>. HIDE DEF good, L
  <2>. QED
    BY <1>2, <1>3, <1>4, InductUpTo
<1>6. /\ start \subseteq h[L] /\ h[L] \subseteq D
      /\ Closed(h[L], next) \/ Cardinality(h[L]) >= L
  <2>. HIDE DEF L
  <2>. QED
    BY <1>1, <1>2, <1>5
<1>7. CASE Cardinality(h[L]) >= L
  <2>1. /\ IsFiniteSet(h[L]) /\ Cardinality(h[L]) <= L
        /\ L = Cardinality(h[L]) => D = h[L]
    BY <1>6, FS_Subset
  <2>2. Cardinality(h[L]) \in Nat
    BY <2>1, FS_CardinalityType
  <2>3. D = h[L]
    BY <1>2, <1>7, <2>1, <2>2
  <2>4. Closed(D, next)
    BY DEF Closed
  <2>. QED
    BY <1>1, <1>6, <2>3, <2>4
<1>. QED
  BY <1>1, <1>6, <1>7

(* Who is reached in steps from the start is in it, or from one of it.     *)
LEMMA ReachedUnfolds ==
  ASSUME NEW D, NEW next \in [D -> SUBSET D], NEW start \in SUBSET D, IsFiniteSet(D)
  PROVE  Reached(start, next) = start \cup UNION {Reached(next[x], next) : x \in start}
<1>. DEFINE beyond == start \cup UNION {Reached(next[x], next) : x \in start}
<1>1. \A x \in D : /\ next[x] \subseteq D /\ next[x] \subseteq Reached(next[x], next)
                   /\ Closed(Reached(next[x], next), next)
  BY ReachedCloses
<1>2. start \subseteq beyond /\ Closed(beyond, next)
  BY <1>1 DEF Closed
<1>3. Reached(start, next) \subseteq beyond
  <2>. HIDE DEF beyond
  <2>. QED
    BY <1>2, ReachedLeast
<1>4. start \subseteq Reached(start, next) /\ Closed(Reached(start, next), next)
  BY ReachedCloses
<1>5. ASSUME NEW x \in start PROVE Reached(next[x], next) \subseteq Reached(start, next)
  <2>1. next[x] \subseteq Reached(start, next) /\ next[x] \in SUBSET D
    BY <1>4 DEF Closed
  <2>. QED
    BY <1>4, <2>1, ReachedLeast
<1>. QED
  BY <1>3, <1>4, <1>5

-----------------------------------------------------------------------------
(* The least and the greatest of some positions.                           *)
LEMMA LeastPosition ==
  ASSUME NEW S \in SUBSET Nat, S # {}
  PROVE  Min(S) \in S /\ \A x \in S : Min(S) <= x
<1>1. PICK m \in S : \A n \in S : m <= n
  <2>1. IsWellFoundedOn(OpToRel(<, Nat), Nat)
    BY NatLessThanWellFounded, Zenon
  <2>2. PICK m \in S : \A n \in S : <<n, m>> \notin OpToRel(<, Nat)
    BY <2>1, WFMin, Zenon
  <2>3. \A n \in S : n \in Nat /\ m \in Nat /\ ~(n < m)
    BY <2>2 DEF OpToRel
  <2>. QED
    BY <2>3
<1>. QED
  BY <1>1 DEF Min

LEMMA GreatestPosition ==
  ASSUME NEW L \in Nat, NEW S \in SUBSET (1..L), S # {}
  PROVE  Max(S) \in S /\ \A x \in S : Max(S) >= x
<1>. DEFINE T == {n \in Nat : L - n \in S}
<1>1. T \in SUBSET Nat /\ T # {}
  <2>1. PICK x \in S : TRUE
    OBVIOUS
  <2>2. L - x \in Nat /\ L - (L - x) = x
    OBVIOUS
  <2>. QED
    BY <2>1, <2>2
<1>2. Min(T) \in T /\ \A n \in T : Min(T) <= n
  <2>. HIDE DEF T
  <2>. QED
    BY <1>1, LeastPosition
<1>3. PICK m \in Nat : L - m \in S /\ \A n \in T : m <= n
  BY <1>2
<1>4. \A x \in S : L - m >= x
  <2>. TAKE x \in S
  <2>1. L - x \in Nat /\ L - (L - x) = x
    OBVIOUS
  <2>2. m <= L - x
    BY <1>3, <2>1
  <2>. QED
    BY <1>3, <2>1, <2>2
<1>. QED
  BY <1>3, <1>4 DEF Max

LEMMA FirstProperties ==
  ASSUME NEW T, NEW seq \in Seq(T), NEW set, ToSet(seq) \cap set # {}
  PROVE  First(seq, set) \in ToSet(seq) \cap set
<1>. DEFINE S == {i \in DOMAIN seq : seq[i] \in set}
<1>1. S \in SUBSET Nat /\ S # {}
  BY DEF ToSet
<1>2. Min(S) \in S
  <2>. HIDE DEF S
  <2>. QED
    BY <1>1, LeastPosition
<1>. QED
  BY <1>2 DEF First, ToSet

-----------------------------------------------------------------------------
(* What a STRUCTURE file says.                                             *)
Line == [kind : STRING, marks : SUBSET STRING, name : STRING, values : Seq(STRING)]
AddedTo(w) == {x.pkg : x \in ToSet(w.seed_packages)}
SeedNames(w) == STRING \ (AddedTo(w) \cup {"extra", "all"})
Inherits(S) == UNION {[D -> Seq(STRING)] : D \in SUBSET S}

LEMMA LinesTyped ==
  ASSUME world \in Worlds, NEW b \in Branches, NEW kind
  PROVE  /\ LinesOf(b, kind) \in Seq(Line)
         /\ ToSet(LinesOf(b, kind)) =
              {line \in ToSet(world.branches[b].structure) : line.kind = kind}
<1>1. world.branches[b].structure \in Seq(Line)
  BY CollectionsAssumption DEF Text, Line, Branches
<1>. DEFINE lines == world.branches[b].structure
            some == {line \in ToSet(lines) : line.kind = kind}
<1>2. Keep(lines, some) \in Seq(Line) /\ ToSet(Keep(lines, some)) = ToSet(lines) \cap some
  <2>. HIDE DEF some, lines
  <2>1. lines \in Seq(Line)
    BY <1>1 DEF lines
  <2>. QED
    BY <2>1, KeepProperties
<1>3. LinesOf(b, kind) = Keep(lines, some)
  BY DEF LinesOf
<1>. QED
  BY <1>2, <1>3

LEMMA OwnTyped ==
  ASSUME world \in Worlds, NEW b \in Branches
  PROVE  /\ OwnNames(b) \in Seq(SeedNames(world))
         /\ OwnInherit(b) \in Inherits(SeedNames(world))
         /\ DOMAIN OwnInherit(b) = ToSet(OwnNames(b))
<1>. DEFINE lines == LinesOf(b, "seed")
            L == Len(lines)
<1>1. /\ lines \in Seq(Line) /\ L \in Nat /\ DOMAIN lines = 1..L
      /\ \A i \in 1..L : lines[i] \in Line
  BY LinesTyped
<1>2. \A line \in ToSet(lines) : line.name \in SeedNames(world)
  <2>1. \A line \in ToSet(lines) : /\ line \in ToSet(world.branches[b].structure)
                                   /\ line.kind = "seed" /\ line \in Line
    BY <1>1, LinesTyped, ToSetProperties
  <2>2. \A line \in ToSet(world.branches[b].structure) : line.name \notin {"extra", "all"}
    BY CollectionsAssumption DEF Branches
  <2>3. ASSUME NEW line \in ToSet(lines) PROVE line.name \notin AddedTo(world)
    <3>1. \A i \in DOMAIN world.seed_packages : line.name # world.seed_packages[i].pkg
      <4>1. line \in ToSet(world.branches[b].structure) /\ line.kind = "seed"
        BY <2>1, <2>3
      <4>. QED
        BY <4>1, CollectionsAssumption DEF Branches
    <3>. QED
      BY <3>1 DEF AddedTo, ToSet
  <2>. QED
    BY <2>1, <2>2, <2>3 DEF SeedNames, Line
<1>3. \A i \in 1..L : lines[i].name \in SeedNames(world) /\ lines[i].values \in Seq(STRING)
  <2>1. \A i \in 1..L : lines[i] \in ToSet(lines)
    BY <1>1 DEF ToSet
  <2>. QED
    BY <1>1, <1>2, <2>1 DEF Line
<1>. HIDE DEF lines, L
<1>4. OwnNames(b) = [i \in 1..L |-> lines[i].name]
  BY <1>1 DEF OwnNames, lines
<1>5. OwnNames(b) \in Seq(SeedNames(world))
  BY <1>1, <1>3, <1>4
<1>6. ToSet(OwnNames(b)) = {lines[i].name : i \in 1..L}
  BY <1>1, <1>4 DEF ToSet
<1>7. ASSUME NEW name \in ToSet(OwnNames(b))
      PROVE  lines[Max({i \in DOMAIN lines : lines[i].name = name})].values \in Seq(STRING)
  <2>. DEFINE S == {i \in DOMAIN lines : lines[i].name = name}
  <2>1. S \in SUBSET (1..L) /\ S # {}
    BY <1>1, <1>6, <1>7
  <2>2. Max(S) \in S
    <3>. HIDE DEF S
    <3>. QED
      BY <1>1, <2>1, GreatestPosition
  <2>. QED
    BY <1>1, <1>3, <2>2
<1>8. OwnInherit(b) \in [ToSet(OwnNames(b)) -> Seq(STRING)]
  BY <1>7 DEF OwnInherit, lines
<1>9. ToSet(OwnNames(b)) \subseteq SeedNames(world)
  BY <1>5, ToSetProperties
<1>. QED
  BY <1>5, <1>8, <1>9 DEF Inherits

LEMMA OwnBranchesTyped ==
  ASSUME world \in Worlds, NEW b \in Branches
  PROVE  OwnBranches(b) \in Seq(Branches) /\ OwnBranches(b) # <<>> /\ OwnBranches(b)[1] = b
<1>. DEFINE lines == LinesOf(b, "include")
     L == Len(lines)
     V == {s \in Seq(Branches) : s # <<>> /\ s[1] = b}
     Is(g) == g = [n \in 0..L |-> IF n = 0 THEN <<b>> ELSE g[n - 1] \o lines[n].values]
     step == [x \in V \X (1..L) |-> x[1] \o lines[x[2]].values]
<1>1. /\ lines \in Seq(Line) /\ L \in Nat /\ DOMAIN lines = 1..L
      /\ \A i \in 1..L : lines[i] \in ToSet(lines)
  BY LinesTyped DEF ToSet
<1>2. \A i \in 1..L : lines[i].values \in Seq(Branches)
  <2>. TAKE i \in 1..L
  <2>1. /\ lines[i] \in Line /\ lines[i] \in ToSet(world.branches[b].structure)
        /\ lines[i].kind = "include"
    BY <1>1, LinesTyped
  <2>2. lines[i].values \in Seq(STRING) /\ ToSet(lines[i].values) \subseteq Branches
    BY <2>1, CollectionsAssumption DEF Branches, Line
  <2>. QED
    BY <2>2, ToSetProperties, SeqMonotonic
<1>3. <<b>> \in V
  OBVIOUS
<1>4. ASSUME NEW x \in V, NEW y \in Seq(Branches) PROVE x \o y \in V
  <2>1. x \in Seq(Branches) /\ Len(x) \in Nat \ {0} /\ x[1] = b
    BY <1>4, EmptySeq
  <2>2. /\ x \o y \in Seq(Branches) /\ Len(x \o y) = Len(x) + Len(y)
        /\ (x \o y)[1] = x[1]
    BY <2>1, ConcatProperties
  <2>3. PICK z \in Seq(Branches) : z = x \o y
    BY <2>2
  <2>4. z # <<>> /\ z[1] = b
    BY <2>1, <2>2, <2>3
  <2>. QED
    BY <2>3, <2>4
<1>. HIDE DEF lines, V
<1>5. StepsIn(step, L, V)
  BY <1>2, <1>4 DEF StepsIn
<1>6. PICK g : Recursive(g, step, <<b>>, L, V)
  <2>. HIDE DEF step, L
  <2>. QED
    BY <1>1, <1>3, <1>5, Recursion
<1>. HIDE DEF L
<1>7. ASSUME NEW n \in 0..L, n # 0 PROVE g[n] = g[n - 1] \o lines[n].values
  <2>1. n - 1 \in 0..L /\ n \in 1..L
    BY <1>1, <1>7
  <2>2. <<g[n - 1], n>> \in V \X (1..L) /\ g[n] = step[<<g[n - 1], n>>]
    BY <1>6, <2>1 DEF Recursive
  <2>. QED
    BY <2>2
<1>8. Is(g)
  <2>. HIDE DEF step
  <2>. QED
    BY <1>6, <1>7 DEF Recursive
<1>. DEFINE h == CHOOSE f : Is(f)
<1>9. Is(h)
  <2>. HIDE DEF Is
  <2>. QED
    BY <1>8
<1>10. OwnBranches(b) = h[L]
  BY DEF OwnBranches, lines, L
<1>. HIDE DEF h
<1>11. \A n \in 0..L : h[n] = IF n = 0 THEN <<b>> ELSE h[n - 1] \o lines[n].values
  BY <1>9, Zenon
<1>12. \A n \in 0..L : h[n] \in V
  <2>. DEFINE good == {n \in 0..L : h[n] \in V}
  <2>1. 0 \in good
    <3>1. 0 \in 0..L
      BY <1>1
    <3>2. h[0] = <<b>>
      BY <1>11, <3>1, Zenon
    <3>. QED
      BY <1>3, <3>1, <3>2
  <2>2. ASSUME NEW n \in Nat, n < L, n \in good PROVE n + 1 \in good
    <3>1. n + 1 \in 0..L /\ n + 1 \in 1..L /\ (n + 1) - 1 = n /\ n + 1 # 0 /\ h[n] \in V
      BY <1>1, <2>2
    <3>2. h[n + 1] = h[n] \o lines[n + 1].values
      BY <1>11, <3>1
    <3>3. h[n + 1] \in V
      BY <1>2, <1>4, <3>1, <3>2
    <3>. QED
      BY <3>1, <3>3
  <2>3. \A n \in 0..L : n \in good
    <3>. HIDE DEF good
    <3>. QED
      BY <1>1, <2>1, <2>2, InductUpTo
  <2>. QED
    BY <2>3
<1>. QED
  BY <1>1, <1>10, <1>12 DEF V

(* What a seed's parents inherit and the parents, each once.               *)
LEMMA WithAncestorsProperties ==
  ASSUME NEW S, NEW name, inherit[name] \in Seq(S),
         \A p \in ToSet(inherit[name]) : inherit[p] \in Seq(S)
  PROVE  /\ WithAncestors(name) \in Seq(S) /\ Distinct(WithAncestors(name))
         /\ ToSet(WithAncestors(name)) =
              ToSet(inherit[name]) \cup UNION {ToSet(inherit[p]) : p \in ToSet(inherit[name])}
<1>. DEFINE parents == inherit[name]
     L == Len(parents)
     V == {s \in Seq(S) : Distinct(s)}
     Then(s, p) == AppendNew(AppendNew(s, inherit[p]), <<p>>)
     Is(g) == g = [n \in 0..L |->
       IF n = 0 THEN <<>> ELSE AppendNew(AppendNew(g[n - 1], inherit[parents[n]]), <<parents[n]>>)]
     step == [x \in V \X (1..L) |-> Then(x[1], parents[x[2]])]
<1>1. /\ parents \in Seq(S) /\ L \in Nat /\ DOMAIN parents = 1..L /\ <<>> \in V
      /\ \A n \in 1..L : /\ parents[n] \in S /\ inherit[parents[n]] \in Seq(S)
                         /\ <<parents[n]>> \in Seq(S)
  BY DEF ToSet, Distinct
<1>2. ASSUME NEW s \in V, NEW n \in 1..L
      PROVE  /\ Then(s, parents[n]) \in V
             /\ ToSet(Then(s, parents[n])) =
                  ToSet(s) \cup ToSet(inherit[parents[n]]) \cup {parents[n]}
  <2>. DEFINE p == parents[n]
  <2>. HIDE DEF parents, L, p
  <2>0. p \in S /\ inherit[p] \in Seq(S) /\ <<p>> \in Seq(S)
    BY <1>1 DEF p
  <2>1. /\ AppendNew(s, inherit[p]) \in Seq(S)
        /\ Distinct(AppendNew(s, inherit[p]))
        /\ ToSet(AppendNew(s, inherit[p])) = ToSet(s) \cup ToSet(inherit[p])
    BY <2>0, AppendNewProperties
  <2>2. PICK t \in Seq(S) : t = AppendNew(s, inherit[p])
    BY <2>1
  <2>3. /\ AppendNew(t, <<p>>) \in Seq(S)
        /\ Distinct(AppendNew(t, <<p>>))
        /\ ToSet(AppendNew(t, <<p>>)) = ToSet(t) \cup ToSet(<<p>>)
    BY <2>0, <2>1, <2>2, AppendNewProperties
  <2>. QED
    BY <2>1, <2>2, <2>3, ToSetProperties DEF p
<1>. HIDE DEF parents, V, Then
<1>3. StepsIn(step, L, V)
  BY <1>2 DEF StepsIn
<1>4. PICK g : Recursive(g, step, <<>>, L, V)
  <2>. HIDE DEF step, L
  <2>. QED
    BY <1>1, <1>3, Recursion
<1>. HIDE DEF L
<1>5. ASSUME NEW n \in 0..L, n # 0 PROVE g[n] = Then(g[n - 1], parents[n])
  <2>1. n - 1 \in 0..L /\ n \in 1..L
    BY <1>1, <1>5
  <2>2. <<g[n - 1], n>> \in V \X (1..L) /\ g[n] = step[<<g[n - 1], n>>]
    BY <1>4, <2>1 DEF Recursive
  <2>. QED
    BY <2>2
<1>6. Is(g)
  <2>. HIDE DEF step
  <2>. QED
    BY <1>4, <1>5 DEF Recursive, Then
<1>. DEFINE h == CHOOSE f : Is(f)
<1>7. Is(h)
  <2>. HIDE DEF Is
  <2>. QED
    BY <1>6
<1>8. WithAncestors(name) = h[L]
  BY DEF WithAncestors, parents, L
<1>. HIDE DEF h
<1>9. \A n \in 0..L : h[n] = IF n = 0 THEN <<>> ELSE Then(h[n - 1], parents[n])
  BY <1>7, Zenon DEF Then
<1>. DEFINE before(n) == {parents[i] : i \in 1..n}
     good == {n \in 0..L : h[n] \in V /\ ToSet(h[n]) = before(n) \cup UNION {ToSet(inherit[p]) : p \in before(n)}}
<1>10. 0 \in good
  <2>1. 0 \in 0..L
    BY <1>1
  <2>2. h[0] = <<>>
    BY <1>9, <2>1, Zenon
  <2>. QED
    BY <1>1, <2>1, <2>2, ToSetProperties
<1>11. ASSUME NEW n \in Nat, n < L, n \in good PROVE n + 1 \in good
  <2>1. n + 1 \in 0..L /\ n + 1 \in 1..L /\ (n + 1) - 1 = n /\ n + 1 # 0 /\ h[n] \in V
    BY <1>1, <1>11
  <2>2. h[n + 1] = Then(h[n], parents[n + 1])
    BY <1>9, <2>1
  <2>3. h[n + 1] \in V
    BY <1>2, <2>1, <2>2
  <2>4. ToSet(h[n + 1]) = ToSet(h[n]) \cup ToSet(inherit[parents[n + 1]]) \cup {parents[n + 1]}
    BY <1>2, <2>1, <2>2
  <2>5. before(n + 1) = before(n) \cup {parents[n + 1]}
    BY <1>1, <2>1
  <2>. HIDE DEF before
  <2>. QED
    BY <1>11, <2>1, <2>3, <2>4, <2>5
<1>12. \A n \in 0..L : n \in good
  <2>. HIDE DEF good
  <2>. QED
    BY <1>1, <1>10, <1>11, InductUpTo
<1>13. L \in good
  <2>. HIDE DEF good
  <2>. QED
    BY <1>1, <1>12
<1>14. before(L) = ToSet(inherit[name])
  BY <1>1 DEF ToSet, parents
<1>. QED
  BY <1>8, <1>13, <1>14 DEF V

-----------------------------------------------------------------------------
(* What else happens leaves the structure alone.                           *)
Early == {"plant", "grow", "grown"}
Late  == {"extras", "done", "rdepends", "written", "noReason"}

GoesOn ==
  \/ phase' = phase
  \/ phase = "archive" /\ phase' = "parse"
  \/ phase \in Early /\ phase' \in Early \cup {"noSeed"}
  \/ phase \in Late /\ phase' \in Late

LEMMA StructureSteps ==
  ASSUME [RdependsNext]_rdependsAllVars
  PROVE  \/ StructureNext
         \/ addExtras
         \/ GoesOn /\ UNCHANGED <<world, structureVars>>
<1>1. CASE UNCHANGED rdependsAllVars
  BY <1>1 DEF rdependsAllVars, vars, GoesOn
<1>2. CASE reverseDepends \/ writeLists \/ writeRdependList \/ _writeRdependList
  BY <1>2 DEF reverseDepends, writeLists, writeRdependList, _writeRdependList, vars, GoesOn, Late
<1>3. CASE sortStructure
  BY <1>3 DEF sortStructure
<1>4. CASE parseArchive
  BY <1>4 DEF parseArchive, GoesOn
<1>5. CASE plantSeed
  BY <1>5 DEF plantSeed, GoesOn, Early
<1>6. CASE readLine \/ plantPackage \/ plantHints
  BY <1>6 DEF readLine, plantPackage, plantHints, GoesOn
<1>7. CASE prune
  BY <1>7 DEF prune, GoesOn, Early
<1>8. CASE growSeed
  BY <1>8 DEF growSeed, GoesOn
<1>9. CASE rescueForBuild
  BY <1>9 DEF rescueForBuild, GoesOn, Early
<1>10. CASE refusePackage \/ addPackage \/ addSource \/ checkSatisfied
  BY <1>10 DEF refusePackage, addPackage, addSource, checkSatisfied, GoesOn
<1>11. CASE promoteDependency \/ newDependency \/ startRescue \/ rescueSource \/ rescuePackage
  BY <1>11 DEF promoteDependency, newDependency, startRescue, rescueSource, rescuePackage,
               GoesOn
<1>12. CASE addExtras
  BY <1>12
<1>13. CASE extraPass \/ extraBinary
  BY <1>13 DEF extraPass, extraBinary, GoesOn
<1>14. CASE finish
  BY <1>14 DEF finish, GoesOn, Late
<1>. QED
  BY <1>1, <1>2, <1>3, <1>4, <1>5, <1>6, <1>7, <1>8, <1>9, <1>10, <1>11, <1>12, <1>13, <1>14
     DEF RdependsNext, Next

-----------------------------------------------------------------------------
(* _parse: what the calls in progress have put together so far.            *)
CallType(w) ==
  [branch : DOMAIN w.branches, left : Seq(DOMAIN w.branches),
   names : Seq(SeedNames(w)), inherit : Inherits(SeedNames(w)),
   branches : Seq(DOMAIN w.branches)]

ParseInv ==
  /\ world \in Worlds
  /\ phase \in {"archive", "parse"} =>
       /\ parsing \in Seq(CallType(world)) /\ parsing # <<>>
       /\ \A i \in 1..Len(parsing) : DOMAIN parsing[i].inherit = ToSet(parsing[i].names)
       /\ names = <<>> /\ nodeStack = <<>> /\ pendingParents = <<>>
  /\ phase \in {"archive", "parse", "sort"} => adding = world.seed_packages
  /\ phase \notin {"archive", "parse"} =>
       /\ structure.names \in Seq(SeedNames(world))
       /\ structure.inherit \in Inherits(SeedNames(world))
       /\ DOMAIN structure.inherit = ToSet(structure.names)
       /\ structure.branches \in Seq(Branches)

LEMMA UpdateTyped ==
  ASSUME NEW S, NEW f \in Inherits(S), NEW g \in Inherits(S)
  PROVE  Update(f, g) \in Inherits(S) /\ DOMAIN Update(f, g) = DOMAIN f \cup DOMAIN g
<1>1. /\ f \in [DOMAIN f -> Seq(STRING)] /\ DOMAIN f \subseteq S
      /\ g \in [DOMAIN g -> Seq(STRING)] /\ DOMAIN g \subseteq S
  BY DEF Inherits
<1>2. Update(f, g) \in [DOMAIN f \cup DOMAIN g -> Seq(STRING)]
  BY <1>1 DEF Update
<1>. QED
  BY <1>1, <1>2 DEF Inherits

LEMMA ParseCallTyped ==
  ASSUME world \in Worlds, NEW b \in Branches
  PROVE  /\ ParseCall(b) \in CallType(world)
         /\ DOMAIN ParseCall(b).inherit = ToSet(ParseCall(b).names)
<1>1. OwnBranches(b) \in Seq(Branches)
  BY OwnBranchesTyped
<1>2. /\ <<>> \in Seq(SeedNames(world)) /\ <<>> \in Seq(Branches)
      /\ <<>> \in Inherits(SeedNames(world)) /\ DOMAIN <<>> = {} /\ ToSet(<<>>) = {}
  <2>1. PICK D \in SUBSET SeedNames(world) : D = {}
    OBVIOUS
  <2>2. <<>> \in [D -> Seq(STRING)]
    BY <2>1
  <2>3. <<>> \in Inherits(SeedNames(world))
    BY <2>2 DEF Inherits
  <2>. QED
    BY <2>3, ToSetProperties
<1>. QED
  BY <1>1, <1>2 DEF ParseCall, CallType, Branches

LEMMA ParsedTyped ==
  ASSUME world \in Worlds, NEW c \in CallType(world), DOMAIN c.inherit = ToSet(c.names)
  PROVE  /\ Parsed(c).names \in Seq(SeedNames(world))
         /\ Parsed(c).inherit \in Inherits(SeedNames(world))
         /\ DOMAIN Parsed(c).inherit = ToSet(Parsed(c).names)
         /\ Parsed(c).branches \in Seq(Branches)
<1>1. /\ c.branch \in Branches /\ c.names \in Seq(SeedNames(world))
      /\ c.inherit \in Inherits(SeedNames(world)) /\ c.branches \in Seq(Branches)
  BY DEF CallType, Branches
<1>2. /\ OwnNames(c.branch) \in Seq(SeedNames(world))
      /\ OwnInherit(c.branch) \in Inherits(SeedNames(world))
      /\ DOMAIN OwnInherit(c.branch) = ToSet(OwnNames(c.branch))
      /\ OwnBranches(c.branch) \in Seq(Branches)
  BY <1>1, OwnTyped, OwnBranchesTyped
<1>3. /\ c.names \o OwnNames(c.branch) \in Seq(SeedNames(world))
      /\ ToSet(c.names \o OwnNames(c.branch)) = ToSet(c.names) \cup ToSet(OwnNames(c.branch))
  BY <1>1, <1>2, ConcatProperties, ToSetConcat
<1>4. Update(c.inherit, OwnInherit(c.branch)) \in Inherits(SeedNames(world))
  BY <1>1, <1>2, UpdateTyped
<1>7. DOMAIN Update(c.inherit, OwnInherit(c.branch)) =
        DOMAIN c.inherit \cup DOMAIN OwnInherit(c.branch)
  BY DEF Update
<1>5. AppendNew(c.branches, OwnBranches(c.branch)) \in Seq(Branches)
  BY <1>1, <1>2, AppendNewProperties
<1>6. Reverse(AppendNew(c.branches, OwnBranches(c.branch))) \in Seq(Branches)
  BY <1>5, ToSetReverse
<1>. QED
  BY <1>2, <1>3, <1>4, <1>6, <1>7 DEF Parsed

LEMMA WithTyped ==
  ASSUME world \in Worlds, NEW c \in CallType(world), DOMAIN c.inherit = ToSet(c.names),
         NEW child, child.names \in Seq(SeedNames(world)),
         child.inherit \in Inherits(SeedNames(world)),
         DOMAIN child.inherit = ToSet(child.names), child.branches \in Seq(Branches)
  PROVE  /\ With(c, child) \in CallType(world)
         /\ DOMAIN With(c, child).inherit = ToSet(With(c, child).names)
<1>1. /\ c.branch \in Branches /\ c.names \in Seq(SeedNames(world)) /\ c.left \in Seq(Branches)
      /\ c.inherit \in Inherits(SeedNames(world)) /\ c.branches \in Seq(Branches)
  BY DEF CallType, Branches
<1>2. /\ c.names \o child.names \in Seq(SeedNames(world))
      /\ ToSet(c.names \o child.names) = ToSet(c.names) \cup ToSet(child.names)
  BY <1>1, ConcatProperties, ToSetConcat
<1>3. Update(c.inherit, child.inherit) \in Inherits(SeedNames(world))
  BY <1>1, UpdateTyped
<1>8. DOMAIN Update(c.inherit, child.inherit) = DOMAIN c.inherit \cup DOMAIN child.inherit
  BY DEF Update
<1>4. AppendNew(c.branches, child.branches) \in Seq(Branches)
  BY <1>1, AppendNewProperties
<1>. DEFINE w == With(c, child)
            x == c.names \o child.names
            y == Update(c.inherit, child.inherit)
            z == AppendNew(c.branches, child.branches)
<1>5. w = [c EXCEPT !.names = x, !.inherit = y, !.branches = z]
  BY DEF With
<1>. HIDE DEF x, y, z, w
<1>6. /\ x \in Seq(SeedNames(world)) /\ y \in Inherits(SeedNames(world))
      /\ z \in Seq(DOMAIN world.branches)
  BY <1>2, <1>3, <1>4 DEF x, y, z, Branches
<1>7. w \in CallType(world) /\ w.inherit = y /\ w.names = x
  BY <1>5, <1>6 DEF CallType
<1>. QED
  BY <1>2, <1>7, <1>8 DEF x, y, w

LEMMA OnTop ==
  ASSUME NEW T, NEW s \in Seq(T), NEW x \in T
  PROVE  /\ <<x>> \o s \in Seq(T) /\ Len(<<x>> \o s) = Len(s) + 1 /\ (<<x>> \o s)[1] = x
         /\ \A i \in 2 .. Len(s) + 1 : (<<x>> \o s)[i] = s[i - 1]
         /\ <<x>> \o s # <<>> /\ Tail(<<x>> \o s) = s /\ ToSet(<<x>> \o s) = {x} \cup ToSet(s)
<1>1. <<x>> \in Seq(T) /\ Len(<<x>>) = 1 /\ <<x>>[1] = x /\ Len(s) \in Nat
  OBVIOUS
<1>2. /\ <<x>> \o s \in Seq(T) /\ Len(<<x>> \o s) = 1 + Len(s)
      /\ \A i \in 1 .. 1 + Len(s) : (<<x>> \o s)[i] = IF i <= 1 THEN <<x>>[i] ELSE s[i - 1]
  <2>1. /\ <<x>> \o s \in Seq(T) /\ Len(<<x>> \o s) = Len(<<x>>) + Len(s)
        /\ \A i \in 1 .. Len(<<x>>) + Len(s) :
             (<<x>> \o s)[i] = IF i <= Len(<<x>>) THEN <<x>>[i] ELSE s[i - Len(<<x>>)]
    BY <1>1, ConcatProperties
  <2>. QED
    BY <1>1, <2>1
<1>3. PICK t \in Seq(T) : t = <<x>> \o s
  BY <1>2
<1>4. /\ Len(t) = Len(s) + 1 /\ t[1] = x /\ \A i \in 2 .. Len(s) + 1 : t[i] = s[i - 1]
      /\ t # <<>>
  BY <1>1, <1>2, <1>3
<1>5. Tail(t) = s
  <2>1. /\ Tail(t) \in Seq(T) /\ Len(Tail(t)) = Len(s)
        /\ \A i \in 1..Len(s) : Tail(t)[i] = t[i + 1]
    BY <1>1, <1>4, HeadTailProperties
  <2>2. \A i \in 1..Len(s) : Tail(t)[i] = s[i]
    BY <1>1, <1>4, <2>1
  <2>. QED
    BY <2>1, <2>2, SeqEqual
<1>6. ToSet(t) = {x} \cup ToSet(s)
  BY <1>4, <1>5, ToSetTail
<1>. QED
  BY <1>3, <1>4, <1>5, <1>6

LEMMA InnermostCall ==
  ASSUME NEW T, NEW s \in Seq(T), s # <<>>
  PROVE  /\ s[1] \in T /\ Head(s) = s[1] /\ Tail(s) \in Seq(T) /\ Len(Tail(s)) = Len(s) - 1
         /\ \A i \in 1 .. Len(s) - 1 : Tail(s)[i] = s[i + 1]
         /\ Len(s) \in Nat \ {0}
  BY HeadTailProperties, EmptySeq, ToSetTail

LEMMA IncludeTyped ==
  ASSUME ParseInv, IncludeBranch
  PROVE  /\ parsing' \in Seq(CallType(world)) /\ parsing' # <<>>
         /\ \A i \in 1..Len(parsing') : DOMAIN parsing'[i].inherit = ToSet(parsing'[i].names)
<1>. DEFINE c == parsing[1]
            child == Head(c.left)
            later == [c EXCEPT !.left = Tail(@)]
            rest == <<later>> \o Tail(parsing)
            Fits(x) == DOMAIN x.inherit = ToSet(x.names)
<1>1. /\ parsing \in Seq(CallType(world)) /\ parsing # <<>> /\ world \in Worlds
      /\ \A i \in 1..Len(parsing) : Fits(parsing[i]) /\ c.left # <<>>
  BY DEF IncludeBranch, ParseInv
<1>2. /\ c \in CallType(world) /\ Tail(parsing) \in Seq(CallType(world))
      /\ Len(Tail(parsing)) = Len(parsing) - 1 /\ Len(parsing) \in Nat \ {0}
      /\ \A i \in 1 .. Len(parsing) - 1 : Tail(parsing)[i] = parsing[i + 1]
  BY <1>1, InnermostCall
<1>3. c.left \in Seq(Branches)
  BY <1>2 DEF CallType, Branches
<1>4. child \in Branches /\ Tail(c.left) \in Seq(Branches)
  <2>1. c.left # <<>>
    BY <1>1, <1>2
  <2>. QED
    BY <1>3, <2>1, HeadTailProperties
<1>5. later \in CallType(world) /\ later.inherit = c.inherit /\ later.names = c.names
  BY <1>2, <1>4 DEF CallType, Branches
<1>. HIDE DEF later, c
<1>6. /\ rest \in Seq(CallType(world)) /\ Len(rest) = Len(parsing) /\ rest[1] = later
      /\ \A i \in 2..Len(rest) : rest[i] = parsing[i] /\ i - 1 \in 1 .. Len(parsing) - 1
      /\ rest # <<>>
  BY <1>2, <1>5, OnTop
<1>7. \A i \in 1..Len(rest) : Fits(rest[i])
  <2>. TAKE i \in 1..Len(rest)
  <2>1. CASE i = 1
    BY <1>1, <1>2, <1>5, <1>6, <2>1 DEF c
  <2>2. CASE i # 1
    BY <1>1, <1>2, <1>6, <2>2
  <2>. QED
    BY <2>1, <2>2
<1>. HIDE DEF rest
<1>8. CASE child \in got_branches
  <2>1. parsing' = rest
    BY <1>8 DEF IncludeBranch, rest, later, c
  <2>. QED
    BY <1>6, <1>7, <2>1
<1>9. CASE child \notin got_branches
  <2>1. parsing' = <<ParseCall(child)>> \o rest
    BY <1>9 DEF IncludeBranch, rest, later, c
  <2>2. ParseCall(child) \in CallType(world) /\ Fits(ParseCall(child))
    BY <1>1, <1>4, ParseCallTyped
  <2>3. /\ parsing' \in Seq(CallType(world)) /\ Len(parsing') = Len(rest) + 1
        /\ parsing'[1] = ParseCall(child) /\ parsing' # <<>>
        /\ \A i \in 2 .. Len(rest) + 1 : parsing'[i] = rest[i - 1]
    BY <1>6, <2>1, <2>2, OnTop
  <2>4. Len(rest) \in Nat
    BY <1>2, <1>6
  <2>5. \A i \in 1..Len(parsing') : Fits(parsing'[i])
    <3>. TAKE i \in 1..Len(parsing')
    <3>1. CASE i = 1
      BY <2>2, <2>3, <3>1
    <3>2. CASE i # 1
      <4>1. i - 1 \in 1..Len(rest) /\ parsing'[i] = rest[i - 1]
        BY <2>3, <2>4, <3>2
      <4>. QED
        BY <1>7, <4>1
    <3>. QED
      BY <3>1, <3>2
  <2>. QED
    BY <2>3, <2>5
<1>. QED
  BY <1>8, <1>9

LEMMA FinishTyped ==
  ASSUME ParseInv, FinishBranch, Len(parsing) # 1
  PROVE  /\ parsing' \in Seq(CallType(world)) /\ parsing' # <<>>
         /\ \A i \in 1..Len(parsing') : DOMAIN parsing'[i].inherit = ToSet(parsing'[i].names)
<1>. DEFINE Fits(x) == DOMAIN x.inherit = ToSet(x.names)
            t == Tail(parsing)
            parsed == Parsed(parsing[1])
            w == With(parsing[2], parsed)
<1>1. /\ parsing \in Seq(CallType(world)) /\ parsing # <<>> /\ world \in Worlds
      /\ \A i \in 1..Len(parsing) : Fits(parsing[i])
      /\ parsing' = <<w>> \o Tail(t)
  BY DEF FinishBranch, ParseInv
<1>2. /\ parsing[1] \in CallType(world) /\ t \in Seq(CallType(world))
      /\ Len(t) = Len(parsing) - 1 /\ Len(parsing) \in Nat \ {0}
      /\ \A i \in 1 .. Len(parsing) - 1 : t[i] = parsing[i + 1]
  BY <1>1, InnermostCall
<1>. HIDE DEF t
<1>9. /\ 1 \in 1..Len(parsing)
      /\ DOMAIN parsing[1].inherit = ToSet(parsing[1].names)
  BY <1>1, <1>2
<1>3. /\ t # <<>> /\ Len(parsing) > 1 /\ parsing[2] \in CallType(world)
  BY <1>1, <1>2
<1>4. /\ Tail(t) \in Seq(CallType(world)) /\ Len(Tail(t)) = Len(parsing) - 2
      /\ \A i \in 1 .. Len(parsing) - 2 : Tail(t)[i] = parsing[i + 2]
  <2>1. /\ Tail(t) \in Seq(CallType(world)) /\ Len(Tail(t)) = Len(t) - 1
        /\ \A i \in 1 .. Len(t) - 1 : Tail(t)[i] = t[i + 1]
    BY <1>2, <1>3, InnermostCall
  <2>2. \A i \in 1 .. Len(parsing) - 2 : t[i + 1] = parsing[i + 2]
    BY <1>2, <1>3
  <2>. QED
    BY <1>2, <1>3, <2>1, <2>2
<1>5. /\ parsed.names \in Seq(SeedNames(world)) /\ parsed.inherit \in Inherits(SeedNames(world))
      /\ DOMAIN parsed.inherit = ToSet(parsed.names) /\ parsed.branches \in Seq(Branches)
  <2>. PICK c \in CallType(world) : c = parsing[1]
    BY <1>2
  <2>1. world \in Worlds /\ DOMAIN c.inherit = ToSet(c.names)
    BY <1>1, <1>9
  <2>. QED
    BY <2>1, ParsedTyped
<1>. HIDE DEF parsed
<1>10. 2 \in 1..Len(parsing) /\ DOMAIN parsing[2].inherit = ToSet(parsing[2].names)
  BY <1>1, <1>2, <1>3
<1>6. w \in CallType(world) /\ Fits(w)
  <2>. PICK d \in CallType(world) : d = parsing[2]
    BY <1>3
  <2>1. DOMAIN d.inherit = ToSet(d.names)
    BY <1>10
  <2>2. world \in Worlds
    BY <1>1
  <2>. HIDE DEF Fits
  <2>3. /\ With(d, parsed) \in CallType(world)
        /\ DOMAIN With(d, parsed).inherit = ToSet(With(d, parsed).names)
    BY <2>1, <2>2, <1>5, WithTyped
  <2>. QED
    BY <2>3 DEF Fits
<1>. HIDE DEF w
<1>7. /\ parsing' \in Seq(CallType(world)) /\ Len(parsing') = Len(parsing) - 1
      /\ parsing'[1] = w /\ parsing' # <<>>
      /\ \A i \in 2 .. Len(parsing) - 1 : parsing'[i] = Tail(t)[i - 1]
  BY <1>1, <1>2, <1>3, <1>4, <1>6, OnTop
<1>8. \A i \in 1..Len(parsing') : Fits(parsing'[i])
  <2>. TAKE i \in 1..Len(parsing')
  <2>1. CASE i = 1
    BY <1>6, <1>7, <2>1
  <2>2. CASE i # 1
    <3>1. /\ i \in 2 .. Len(parsing) - 1 /\ i - 1 \in 1 .. Len(parsing) - 2
          /\ (i - 1) + 2 = i + 1 /\ i + 1 \in 1..Len(parsing)
      BY <1>2, <1>3, <1>7, <2>2
    <3>2. parsing'[i] = parsing[i + 1]
      BY <1>4, <1>7, <3>1
    <3>. QED
      BY <1>1, <3>1, <3>2
  <2>. QED
    BY <2>1, <2>2
<1>. QED
  BY <1>7, <1>8

LEMMA ParseAlways == RdependsSpec => []ParseInv
<1>1. RdependsInit => ParseInv
  <2>. SUFFICES ASSUME RdependsInit PROVE ParseInv
    OBVIOUS
  <2>1. world \in Worlds /\ world.top \in Branches /\ parsing = <<ParseCall(world.top)>>
    BY CollectionsAssumption DEF RdependsInit, Init, StructureInit, Branches
  <2>2. /\ ParseCall(world.top) \in CallType(world)
        /\ DOMAIN ParseCall(world.top).inherit = ToSet(ParseCall(world.top).names)
    BY <2>1, ParseCallTyped
  <2>3. /\ parsing \in Seq(CallType(world)) /\ parsing # <<>>
        /\ \A i \in 1..Len(parsing) : DOMAIN parsing[i].inherit = ToSet(parsing[i].names)
    BY <2>1, <2>2
  <2>4. phase \in {"archive", "parse"}
    BY DEF RdependsInit, Init
  <2>. QED
    BY <2>1, <2>3, <2>4 DEF RdependsInit, Init, StructureInit, SorterInit, ParseInv
<1>2. ParseInv /\ [RdependsNext]_rdependsAllVars => ParseInv'
  <2>. SUFFICES ASSUME ParseInv, [RdependsNext]_rdependsAllVars PROVE ParseInv'
    OBVIOUS
  <2>1. CASE GoesOn /\ UNCHANGED <<world, structureVars>>
    BY <2>1 DEF ParseInv, GoesOn, structureVars, parseVars, sortVars, Early, Late, Branches
  <2>2. CASE addExtras
    BY <2>2 DEF ParseInv, addExtras, parseVars, Branches
  <2>3. CASE IncludeBranch /\ UNCHANGED <<world, unexpanded, adding>>
    <3>1. /\ phase = "parse" /\ phase' = phase /\ world' = world /\ adding' = adding
          /\ UNCHANGED <<names, nodeStack, pendingParents>>
      BY <2>3 DEF IncludeBranch, sortVars
    <3>2. /\ parsing' \in Seq(CallType(world)) /\ parsing' # <<>>
          /\ \A i \in 1..Len(parsing') : DOMAIN parsing'[i].inherit = ToSet(parsing'[i].names)
      BY <2>3, IncludeTyped
    <3>. QED
      BY <3>1, <3>2 DEF ParseInv
  <2>4. CASE FinishBranch /\ UNCHANGED <<world, unexpanded, adding>>
    <3>1. CASE Len(parsing) = 1
      <4>1. /\ phase' = "sort" /\ structure' = Parsed(parsing[1]) /\ world' = world
            /\ parsing[1] \in CallType(world) /\ world \in Worlds
            /\ DOMAIN parsing[1].inherit = ToSet(parsing[1].names)
        <5>1. parsing \in Seq(CallType(world)) /\ 1 \in 1..Len(parsing)
          BY <2>4, <3>1 DEF FinishBranch, ParseInv
        <5>. QED
          BY <2>4, <3>1, <5>1 DEF FinishBranch, ParseInv
      <4>2. /\ structure'.names \in Seq(SeedNames(world))
            /\ structure'.inherit \in Inherits(SeedNames(world))
            /\ DOMAIN structure'.inherit = ToSet(structure'.names)
            /\ structure'.branches \in Seq(Branches)
        BY <4>1, ParsedTyped
      <4>. QED
        <5>1. phase = "parse" /\ adding' = adding
          BY <2>4 DEF FinishBranch
        <5>2. adding' = world'.seed_packages
          BY <4>1, <5>1 DEF ParseInv
        <5>. QED
          BY <4>1, <4>2, <5>2 DEF ParseInv, Branches
    <3>2. CASE Len(parsing) # 1
      <4>1. /\ phase = "parse" /\ phase' = phase /\ world' = world /\ adding' = adding
            /\ UNCHANGED <<names, nodeStack, pendingParents>>
        BY <2>4, <3>2 DEF FinishBranch
      <4>2. /\ parsing' \in Seq(CallType(world)) /\ parsing' # <<>>
            /\ \A i \in 1..Len(parsing') : DOMAIN parsing'[i].inherit = ToSet(parsing'[i].names)
        BY <2>4, <3>2, FinishTyped
      <4>. QED
        BY <4>1, <4>2 DEF ParseInv
    <3>. QED
      BY <3>1, <3>2
  <2>5. CASE /\ \/ (PopItem \/ VisitParent \/ PopNode) /\ UNCHANGED adding
                \/ StartExpanding \/ ExpandInheritance \/ addSeedPackage \/ StartPlanting
             /\ UNCHANGED parseVars /\ UNCHANGED world
    BY <2>5 DEF ParseInv, PopItem, VisitParent, Popped, PopNode, StartExpanding, ExpandInheritance,
                addSeedPackage, StartPlanting, parseVars, Branches
  <2>. QED
    BY <2>1, <2>2, <2>3, <2>4, <2>5, StructureSteps DEF StructureNext
<1>. QED
  BY <1>1, <1>2, PTL DEF RdependsSpec

-----------------------------------------------------------------------------
(* The sort. What is on the stack waits for what is above it; of what a    *)
(* node inherits, all that is not pending any more is completed, is no     *)
(* node, or is next on the stack.                                          *)
LEMMA FrontLast ==
  ASSUME NEW T, NEW s \in Seq(T), s # <<>>
  PROVE  /\ Front(s) \in Seq(T) /\ Len(Front(s)) = Len(s) - 1 /\ Len(s) \in Nat \ {0}
         /\ \A i \in 1 .. Len(s) - 1 : Front(s)[i] = s[i]
         /\ Last(s) = s[Len(s)] /\ Last(s) \in T
         /\ ToSet(s) = ToSet(Front(s)) \cup {Last(s)}
<1>1. /\ Front(s) \in Seq(T) /\ Len(Front(s)) = Len(s) - 1 /\ Len(s) \in Nat \ {0}
      /\ \A i \in 1 .. Len(s) - 1 : Front(s)[i] = s[i]
      /\ Last(s) = s[Len(s)] /\ Last(s) \in T
  <2>1. Len(s) \in Nat \ {0} /\ Last(s) = s[Len(s)] /\ Front(s) = SubSeq(s, 1, Len(s) - 1)
    BY EmptySeq DEF Front, Last
  <2>2. /\ SubSeq(s, 1, Len(s) - 1) \in Seq(T) /\ Len(SubSeq(s, 1, Len(s) - 1)) = Len(s) - 1
        /\ \A i \in 1 .. Len(s) - 1 : SubSeq(s, 1, Len(s) - 1)[i] = s[i]
    <3>1. 1 \in Int /\ Len(s) - 1 \in Int /\ \A i \in 1 .. Len(s) - 1 : s[i] \in T
      BY <2>1
    <3>. DEFINE k == Len(s) - 1
                f == SubSeq(s, 1, k)
    <3>2. /\ f \in Seq(T) /\ Len(f) = IF 1 <= k THEN k - 1 + 1 ELSE 0
          /\ \A i \in 1 .. k - 1 + 1 : f[i] = s[1 + i - 1]
      BY <3>1, SubSeqProperties
    <3>3. k \in Nat
      BY <2>1
    <3>. HIDE DEF f, k
    <3>4. Len(f) = k
      BY <3>2, <3>3
    <3>5. ASSUME NEW i \in 1..k PROVE f[i] = s[i]
      <4>1. i \in 1 .. k - 1 + 1 /\ 1 + i - 1 = i
        BY <3>3
      <4>. QED
        BY <3>2, <4>1
    <3>. QED
      BY <3>2, <3>4, <3>5 DEF f, k
  <2>. QED
    BY <2>1, <2>2
<1>2. DOMAIN Front(s) = 1 .. Len(s) - 1 /\ DOMAIN s = 1..Len(s)
  BY <1>1
<1>. QED
  BY <1>1, <1>2 DEF ToSet

LEMMA AppendParts ==
  ASSUME NEW T, NEW s \in Seq(T), NEW x \in T
  PROVE  /\ Append(s, x) \in Seq(T) /\ Len(Append(s, x)) = Len(s) + 1 /\ Len(s) \in Nat
         /\ \A i \in 1..Len(s) : Append(s, x)[i] = s[i]
         /\ Append(s, x)[Len(s) + 1] = x
         /\ ToSet(Append(s, x)) = ToSet(s) \cup {x}
  BY ToSetAppend

Ordered(seq, inh) ==
  \A i \in 1..Len(seq) :
    ToSet(inh[seq[i]]) \cap DOMAIN inh \subseteq {seq[j] : j \in 1 .. i - 1}

Waits(i, ns, nodes, pending, inh) ==
  /\ ToSet(pending[i]) \subseteq ToSet(inh[nodes[i]])
  /\ i < Len(nodes) => nodes[i + 1] \in ToSet(inh[nodes[i]])
  /\ \A p \in ToSet(inh[nodes[i]]) \cap DOMAIN inh :
       \/ p \in ToSet(ns) \cup ToSet(pending[i])
       \/ i < Len(nodes) /\ p = nodes[i + 1]

SortParts(ns, nodes, pending, left, inh) ==
  /\ ns \in Seq(DOMAIN inh) /\ Distinct(ns)
  /\ nodes \in Seq(DOMAIN inh) /\ Distinct(nodes)
  /\ pending \in Seq(Seq(STRING)) /\ Len(pending) = Len(nodes)
  /\ left \cup ToSet(ns) \cup ToSet(nodes) = DOMAIN inh
  /\ left \cap ToSet(ns) = {} /\ left \cap ToSet(nodes) = {} /\ ToSet(ns) \cap ToSet(nodes) = {}
  /\ Ordered(ns, inh)
  /\ \A i \in 1..Len(nodes) : Waits(i, ns, nodes, pending, inh)

SortInv ==
  phase = "sort" =>
    /\ inherit = structure.inherit
    /\ SortParts(names, nodeStack, pendingParents, graph, inherit)

LEMMA PushKeeps ==
  ASSUME NEW ns, NEW nodes, NEW pending, NEW popped, NEW left, NEW inh \in Inherits(STRING),
         SortParts(ns, nodes, pending, left, inh),
         NEW node \in left,
         popped \in Seq(Seq(STRING)), Len(popped) = Len(nodes),
         \A i \in 1..Len(nodes) : /\ i < Len(nodes) => popped[i] = pending[i]
                                  /\ ToSet(popped[i]) \subseteq ToSet(pending[i])
                                  /\ ToSet(pending[i]) \subseteq ToSet(popped[i]) \cup {node},
         nodes # <<>> => node \in ToSet(inh[nodes[Len(nodes)]])
  PROVE  SortParts(ns, Append(nodes, node), Append(popped, inh[node]), left \ {node}, inh)
<1>. DEFINE nodes2 == Append(nodes, node)
            pending2 == Append(popped, inh[node])
            L == Len(nodes)
<1>1. /\ node \in DOMAIN inh /\ inh[node] \in Seq(STRING) /\ node \notin ToSet(nodes)
      /\ nodes \in Seq(DOMAIN inh)
  <2>1. PICK D : inh \in [D -> Seq(STRING)]
    BY DEF Inherits
  <2>2. node \in DOMAIN inh /\ node \notin ToSet(nodes) /\ nodes \in Seq(DOMAIN inh)
    BY DEF SortParts
  <2>. QED
    BY <2>1, <2>2
<1>2. /\ nodes2 \in Seq(DOMAIN inh) /\ Len(nodes2) = L + 1 /\ L \in Nat
      /\ \A i \in 1..L : nodes2[i] = nodes[i]
      /\ nodes2[L + 1] = node
      /\ ToSet(nodes2) = ToSet(nodes) \cup {node}
  BY <1>1, AppendParts
<1>3. /\ pending2 \in Seq(Seq(STRING)) /\ Len(pending2) = L + 1
      /\ \A i \in 1..L : pending2[i] = popped[i]
      /\ pending2[L + 1] = inh[node]
  BY <1>1, AppendParts
<1>4. Distinct(nodes2)
  BY <1>1, DistinctAppend DEF SortParts
<1>. HIDE DEF nodes2, pending2
<1>5. ASSUME NEW i \in 1..Len(nodes2) PROVE Waits(i, ns, nodes2, pending2, inh)
  <2>1. CASE i = L + 1
    BY <1>2, <1>3, <2>1 DEF Waits
  <2>2. CASE i # L + 1
    <3>1. /\ i \in 1..L /\ nodes2[i] = nodes[i] /\ pending2[i] = popped[i]
          /\ Waits(i, ns, nodes, pending, inh)
      BY <1>2, <1>3, <1>5, <2>2 DEF SortParts
    <3>2. CASE i < L
      <4>1. nodes2[i + 1] = nodes[i + 1] /\ pending2[i] = pending[i]
        BY <1>2, <3>1, <3>2
      <4>. QED
        BY <1>2, <3>1, <3>2, <4>1 DEF Waits
    <3>3. CASE i = L
      <4>1. nodes2[i + 1] = node /\ node \in ToSet(inh[nodes[i]]) /\ ~(i < Len(nodes))
        BY <1>2, <3>1, <3>3
      <4>2. /\ ToSet(popped[i]) \subseteq ToSet(pending[i])
            /\ ToSet(pending[i]) \subseteq ToSet(popped[i]) \cup {node}
        BY <3>1
      <4>3. \A p \in ToSet(inh[nodes[i]]) \cap DOMAIN inh :
              p \in ToSet(ns) \cup ToSet(popped[i]) \cup {node}
        BY <3>1, <4>1, <4>2 DEF Waits
      <4>4. i < Len(nodes2)
        BY <1>2, <3>1
      <4>5. ToSet(pending2[i]) \subseteq ToSet(inh[nodes2[i]])
        BY <3>1, <4>2 DEF Waits
      <4>. QED
        BY <3>1, <4>1, <4>3, <4>4, <4>5 DEF Waits
    <3>. QED
      BY <1>2, <3>1, <3>2, <3>3
  <2>. QED
    BY <2>1, <2>2
<1>6. /\ (left \ {node}) \cup ToSet(ns) \cup ToSet(nodes2) = DOMAIN inh
      /\ (left \ {node}) \cap ToSet(ns) = {} /\ (left \ {node}) \cap ToSet(nodes2) = {}
      /\ ToSet(ns) \cap ToSet(nodes2) = {}
      /\ ns \in Seq(DOMAIN inh) /\ Distinct(ns) /\ Ordered(ns, inh)
  <2>1. /\ left \cup ToSet(ns) \cup ToSet(nodes) = DOMAIN inh
        /\ left \cap ToSet(ns) = {} /\ left \cap ToSet(nodes) = {}
        /\ ToSet(ns) \cap ToSet(nodes) = {}
        /\ ns \in Seq(DOMAIN inh) /\ Distinct(ns) /\ Ordered(ns, inh)
    BY DEF SortParts
  <2>2. ToSet(nodes2) = ToSet(nodes) \cup {node}
    BY <1>2
  <2>3. (left \ {node}) \cup ToSet(ns) \cup ToSet(nodes2) = DOMAIN inh
    BY <2>1, <2>2
  <2>4. /\ (left \ {node}) \cap ToSet(ns) = {} /\ (left \ {node}) \cap ToSet(nodes2) = {}
        /\ ToSet(ns) \cap ToSet(nodes2) = {}
    BY <2>1, <2>2
  <2>. QED
    BY <2>1, <2>3, <2>4
<1>7. Len(pending2) = Len(nodes2)
  BY <1>2, <1>3
<1>8. SortParts(ns, nodes2, pending2, left \ {node}, inh)
  BY <1>2, <1>3, <1>4, <1>5, <1>6, <1>7 DEF SortParts
<1>. QED
  BY <1>8 DEF nodes2, pending2

LEMMA SkipKeeps ==
  ASSUME NEW ns, NEW nodes, NEW pending, NEW popped, NEW left, NEW inh,
         SortParts(ns, nodes, pending, left, inh),
         NEW parent, parent \in ToSet(ns) \/ parent \notin DOMAIN inh,
         popped \in Seq(Seq(STRING)), Len(popped) = Len(nodes),
         \A i \in 1..Len(nodes) : /\ ToSet(popped[i]) \subseteq ToSet(pending[i])
                                  /\ ToSet(pending[i]) \subseteq ToSet(popped[i]) \cup {parent}
  PROVE  SortParts(ns, nodes, popped, left, inh)
<1>1. ASSUME NEW i \in 1..Len(nodes) PROVE Waits(i, ns, nodes, popped, inh)
  BY DEF SortParts, Waits
<1>. QED
  BY <1>1 DEF SortParts

LEMMA PopKeeps ==
  ASSUME NEW ns, NEW nodes, NEW pending, NEW left, NEW inh,
         SortParts(ns, nodes, pending, left, inh), nodes # <<>>, Last(pending) = <<>>
  PROVE  SortParts(Append(ns, Last(nodes)), Front(nodes), Front(pending), left, inh)
<1>. DEFINE L == Len(nodes)
            node == Last(nodes)
            ns2 == Append(ns, node)
            nodes2 == Front(nodes)
            pending2 == Front(pending)
<1>1. /\ nodes2 \in Seq(DOMAIN inh) /\ Len(nodes2) = L - 1 /\ L \in Nat \ {0}
      /\ \A i \in 1 .. L - 1 : nodes2[i] = nodes[i]
      /\ node = nodes[L] /\ node \in DOMAIN inh
      /\ ToSet(nodes) = ToSet(nodes2) \cup {node}
  BY FrontLast DEF SortParts
<1>2. /\ pending2 \in Seq(Seq(STRING)) /\ Len(pending2) = L - 1
      /\ \A i \in 1 .. L - 1 : pending2[i] = pending[i]
      /\ pending[L] = <<>>
  <2>1. pending # <<>> /\ pending \in Seq(Seq(STRING)) /\ Len(pending) = L
    BY <1>1 DEF SortParts
  <2>. QED
    BY <2>1, FrontLast
<1>3. node \in ToSet(nodes) /\ node \notin ToSet(ns)
  BY <1>1 DEF SortParts
<1>4. node \notin ToSet(nodes2)
  <2>1. \A i \in 1 .. L - 1 : nodes2[i] # node
    <3>1. Distinct(nodes) /\ DOMAIN nodes = 1..L
      BY DEF SortParts
    <3>. QED
      BY <1>1, <3>1 DEF Distinct
  <2>2. DOMAIN nodes2 = 1 .. L - 1
    BY <1>1
  <2>. QED
    BY <2>1, <2>2 DEF ToSet
<1>5. Distinct(nodes2)
  <2>1. Distinct(nodes) /\ DOMAIN nodes = 1..L
    BY DEF SortParts
  <2>2. DOMAIN nodes2 = 1 .. L - 1
    BY <1>1
  <2>. QED
    BY <1>1, <2>1, <2>2 DEF Distinct
<1>6. /\ ns2 \in Seq(DOMAIN inh) /\ Len(ns2) = Len(ns) + 1 /\ Len(ns) \in Nat
      /\ \A i \in 1..Len(ns) : ns2[i] = ns[i]
      /\ ns2[Len(ns) + 1] = node /\ ToSet(ns2) = ToSet(ns) \cup {node}
  BY <1>1, AppendParts DEF SortParts
<1>7. Distinct(ns2)
  BY <1>3, DistinctAppend DEF SortParts
<1>. HIDE DEF nodes2, pending2, ns2, node, L
<1>8. Ordered(ns2, inh)
  <2>1. ToSet(inh[node]) \cap DOMAIN inh \subseteq ToSet(ns)
    <3>1. Waits(L, ns, nodes, pending, inh)
      BY <1>1 DEF SortParts, L
    <3>. QED
      BY <1>1, <1>2, <3>1, ToSetProperties DEF Waits, L
  <2>2. ToSet(ns) = {ns2[j] : j \in 1..Len(ns)}
    <3>1. DOMAIN ns = 1..Len(ns)
      BY DEF SortParts
    <3>. QED
      BY <1>6, <3>1 DEF ToSet
  <2>3. ASSUME NEW i \in 1..Len(ns)
        PROVE  ToSet(inh[ns2[i]]) \cap DOMAIN inh \subseteq {ns2[j] : j \in 1 .. i - 1}
    <3>1. {ns2[j] : j \in 1 .. i - 1} = {ns[j] : j \in 1 .. i - 1}
      BY <1>6
    <3>. QED
      BY <1>6, <3>1 DEF SortParts, Ordered
  <2>4. ToSet(inh[ns2[Len(ns) + 1]]) \cap DOMAIN inh
          \subseteq {ns2[j] : j \in 1 .. (Len(ns) + 1) - 1}
    BY <1>6, <2>1, <2>2
  <2>. QED
    BY <1>6, <2>3, <2>4 DEF Ordered
<1>9. ASSUME NEW i \in 1..Len(nodes2) PROVE Waits(i, ns2, nodes2, pending2, inh)
  <2>1. /\ i \in 1..L /\ i \in 1 .. L - 1 /\ nodes2[i] = nodes[i] /\ pending2[i] = pending[i]
        /\ Waits(i, ns, nodes, pending, inh) /\ i < Len(nodes)
    <3>1. i \in 1..L /\ i \in 1 .. L - 1 /\ i < L
      BY <1>1, <1>9
    <3>2. \A k \in 1..L : Waits(k, ns, nodes, pending, inh)
      BY DEF SortParts, L
    <3>. QED
      BY <1>1, <1>2, <3>1, <3>2 DEF L
  <2>2. CASE i + 1 = L
    BY <1>1, <1>6, <2>1, <2>2 DEF Waits
  <2>3. CASE i + 1 # L
    <3>1. i + 1 \in 1 .. L - 1 /\ nodes2[i + 1] = nodes[i + 1]
      BY <1>1, <2>1, <2>3
    <3>. QED
      BY <1>1, <1>6, <2>1, <3>1 DEF Waits
  <2>. QED
    BY <2>2, <2>3
<1>10. /\ left \cup ToSet(ns2) \cup ToSet(nodes2) = DOMAIN inh
       /\ left \cap ToSet(ns2) = {} /\ left \cap ToSet(nodes2) = {}
       /\ ToSet(ns2) \cap ToSet(nodes2) = {}
  <2>1. /\ left \cup ToSet(ns) \cup ToSet(nodes) = DOMAIN inh
        /\ left \cap ToSet(ns) = {} /\ left \cap ToSet(nodes) = {}
        /\ ToSet(ns) \cap ToSet(nodes) = {}
    BY DEF SortParts
  <2>. QED
    BY <1>1, <1>4, <1>6, <2>1
<1>11. Len(pending2) = Len(nodes2)
  BY <1>1, <1>2
<1>12. SortParts(ns2, nodes2, pending2, left, inh)
  BY <1>1, <1>2, <1>5, <1>6, <1>7, <1>8, <1>9, <1>10, <1>11 DEF SortParts
<1>. QED
  BY <1>12 DEF ns2, nodes2, pending2, node

LEMMA SortStarts ==
  ASSUME ParseInv, FinishBranch, Len(parsing) = 1
  PROVE  SortInv'
<1>1. /\ structure' = Parsed(parsing[1]) /\ inherit' = Parsed(parsing[1]).inherit
      /\ graph' = DOMAIN Parsed(parsing[1]).inherit
      /\ names' = names /\ nodeStack' = nodeStack /\ pendingParents' = pendingParents
      /\ phase = "parse"
  BY DEF FinishBranch
<1>2. names = <<>> /\ nodeStack = <<>> /\ pendingParents = <<>>
  BY <1>1 DEF ParseInv
<1>. DEFINE D == DOMAIN Parsed(parsing[1]).inherit
<1>3. /\ <<>> \in Seq(D) /\ <<>> \in Seq(Seq(STRING)) /\ Len(<<>>) = 0 /\ ToSet(<<>>) = {}
      /\ Distinct(<<>>) /\ 1..0 = {}
  BY ToSetProperties DEF Distinct
<1>4. SortParts(<<>>, <<>>, <<>>, D, Parsed(parsing[1]).inherit)
  BY <1>3 DEF SortParts, Ordered
<1>. QED
  BY <1>1, <1>2, <1>4 DEF SortInv

(* A parent that is taken off the pending ones of the top node.            *)
LEMMA ParentTaken ==
  ASSUME SortParts(names, nodeStack, pendingParents, graph, inherit), nodeStack # <<>>,
         Last(pendingParents) # <<>>,
         NEW popped, popped = Append(Front(pendingParents), Front(Last(pendingParents))),
         NEW parent, parent = Last(Last(pendingParents))
  PROVE  /\ popped \in Seq(Seq(STRING)) /\ Len(popped) = Len(nodeStack)
         /\ \A i \in 1..Len(nodeStack) :
              /\ i < Len(nodeStack) => popped[i] = pendingParents[i]
              /\ ToSet(popped[i]) \subseteq ToSet(pendingParents[i])
              /\ ToSet(pendingParents[i]) \subseteq ToSet(popped[i]) \cup {parent}
         /\ parent \in ToSet(inherit[nodeStack[Len(nodeStack)]])
<1>. DEFINE L == Len(nodeStack)
            front == Front(pendingParents)
            top == Last(pendingParents)
<1>1. /\ pendingParents \in Seq(Seq(STRING)) /\ Len(pendingParents) = L /\ L \in Nat \ {0}
      /\ pendingParents # <<>>
  <2>1. nodeStack \in Seq(DOMAIN inherit) /\ pendingParents \in Seq(Seq(STRING))
        /\ Len(pendingParents) = L
    BY DEF SortParts
  <2>2. L \in Nat \ {0}
    BY <2>1, EmptySeq
  <2>. QED
    BY <2>1, <2>2
<1>2. /\ front \in Seq(Seq(STRING)) /\ Len(front) = L - 1
      /\ \A i \in 1 .. L - 1 : front[i] = pendingParents[i]
      /\ top = pendingParents[L] /\ top \in Seq(STRING)
  BY <1>1, FrontLast
<1>. HIDE DEF front, top
<1>3. /\ Front(top) \in Seq(STRING) /\ ToSet(top) = ToSet(Front(top)) \cup {parent}
  <2>1. top # <<>> /\ parent = Last(top)
    BY DEF top
  <2>. QED
    BY <1>2, <2>1, FrontLast
<1>4. /\ popped \in Seq(Seq(STRING)) /\ Len(popped) = (L - 1) + 1
      /\ \A i \in 1 .. L - 1 : popped[i] = front[i]
      /\ popped[(L - 1) + 1] = Front(top)
  <2>1. popped = Append(front, Front(top))
    BY DEF front, top
  <2>. QED
    BY <1>2, <1>3, <2>1, AppendParts
<1>5. parent \in ToSet(inherit[nodeStack[L]])
  <2>1. Waits(L, names, nodeStack, pendingParents, inherit)
    BY <1>1 DEF SortParts
  <2>. QED
    BY <1>2, <1>3, <2>1 DEF Waits
<1>6. ASSUME NEW i \in 1..L
      PROVE  /\ i < L => popped[i] = pendingParents[i]
             /\ ToSet(popped[i]) \subseteq ToSet(pendingParents[i])
             /\ ToSet(pendingParents[i]) \subseteq ToSet(popped[i]) \cup {parent}
  <2>1. CASE i = L
    <3>1. popped[i] = Front(top) /\ pendingParents[i] = top
      BY <1>1, <1>2, <1>4, <2>1
    <3>. QED
      BY <1>1, <1>3, <2>1, <3>1
  <2>2. CASE i # L
    <3>1. i \in 1 .. L - 1
      BY <1>1, <2>2
    <3>. QED
      BY <1>2, <1>4, <3>1
  <2>. QED
    BY <2>1, <2>2
<1>7. popped \in Seq(Seq(STRING)) /\ Len(popped) = L
  BY <1>1, <1>4
<1>. QED
  BY <1>5, <1>6, <1>7

LEMMA SortGoesOn ==
  ASSUME ParseInv, SortInv, phase = "sort", PopItem \/ VisitParent \/ PopNode,
         UNCHANGED <<world, parseVars>>
  PROVE  SortInv'
<1>1. /\ inherit = structure.inherit
      /\ SortParts(names, nodeStack, pendingParents, graph, inherit)
      /\ inherit \in Inherits(STRING) /\ inherit' = inherit /\ structure' = structure
  <2>1. structure.inherit \in Inherits(SeedNames(world))
    BY DEF ParseInv
  <2>2. structure.inherit \in Inherits(STRING)
    BY <2>1 DEF Inherits, SeedNames
  <2>. QED
    BY <2>2 DEF SortInv, parseVars, PopItem, VisitParent, Popped, PopNode
<1>2. CASE PopItem
  <2>1. PICK node \in graph : PushNode(node) /\ pendingParents' = <<inherit[node]>>
    BY <1>2 DEF PopItem
  <2>2. /\ nodeStack' = Append(nodeStack, node) /\ graph' = graph \ {node} /\ names' = names
        /\ nodeStack = <<>>
    BY <1>2, <2>1 DEF PopItem, PushNode
  <2>3. /\ <<>> \in Seq(Seq(STRING)) /\ Len(<<>>) = Len(nodeStack) /\ 1..Len(nodeStack) = {}
        /\ Append(<<>>, inherit[node]) = <<inherit[node]>>
    BY <2>2
  <2>4. SortParts(names, Append(nodeStack, node), Append(<<>>, inherit[node]), graph \ {node},
                  inherit)
    BY <1>1, <2>2, <2>3, PushKeeps
  <2>. QED
    BY <1>1, <2>1, <2>2, <2>3, <2>4 DEF SortInv
<1>3. CASE VisitParent
  <2>. DEFINE parent == Last(Last(pendingParents))
              popped == Append(Front(pendingParents), Front(Last(pendingParents)))
  <2>1. nodeStack # <<>> /\ Last(pendingParents) # <<>> /\ names' = names
    BY <1>3 DEF VisitParent, Popped
  <2>2. /\ popped \in Seq(Seq(STRING)) /\ Len(popped) = Len(nodeStack)
        /\ \A i \in 1..Len(nodeStack) :
             /\ i < Len(nodeStack) => popped[i] = pendingParents[i]
             /\ ToSet(popped[i]) \subseteq ToSet(pendingParents[i])
             /\ ToSet(pendingParents[i]) \subseteq ToSet(popped[i]) \cup {parent}
        /\ parent \in ToSet(inherit[nodeStack[Len(nodeStack)]])
    BY <1>1, <2>1, ParentTaken
  <2>3. \/ /\ Contains(names, parent) \/ parent \notin DOMAIN inherit
           /\ pendingParents' = popped /\ UNCHANGED <<graph, nodeStack>>
        \/ /\ parent \in graph /\ PushNode(parent)
           /\ pendingParents' = Append(popped, inherit[parent])
        \/ phase' = "cycle"
    BY <1>3 DEF VisitParent, Popped
  <2>. HIDE DEF parent, popped
  <2>4. CASE /\ Contains(names, parent) \/ parent \notin DOMAIN inherit
             /\ pendingParents' = popped /\ UNCHANGED <<graph, nodeStack>>
    <3>1. parent \in ToSet(names) \/ parent \notin DOMAIN inherit
      BY <1>1, <2>4, ToSetProperties DEF SortParts
    <3>2. SortParts(names, nodeStack, popped, graph, inherit)
      BY <1>1, <2>2, <3>1, SkipKeeps
    <3>. QED
      BY <1>1, <2>1, <2>4, <3>2 DEF SortInv
  <2>5. CASE /\ parent \in graph /\ PushNode(parent)
             /\ pendingParents' = Append(popped, inherit[parent])
    <3>1. nodeStack' = Append(nodeStack, parent) /\ graph' = graph \ {parent}
      BY <2>5 DEF PushNode
    <3>2. SortParts(names, Append(nodeStack, parent), Append(popped, inherit[parent]),
                    graph \ {parent}, inherit)
      BY <1>1, <2>2, <2>5, PushKeeps
    <3>. QED
      BY <1>1, <2>1, <2>5, <3>1, <3>2 DEF SortInv
  <2>6. CASE phase' = "cycle"
    BY <2>6 DEF SortInv
  <2>. QED
    BY <2>3, <2>4, <2>5, <2>6
<1>4. CASE PopNode
  <2>1. /\ nodeStack # <<>> /\ Last(pendingParents) = <<>>
        /\ names' = Append(names, Last(nodeStack)) /\ nodeStack' = Front(nodeStack)
        /\ pendingParents' = Front(pendingParents) /\ graph' = graph
    BY <1>4 DEF PopNode
  <2>2. SortParts(Append(names, Last(nodeStack)), Front(nodeStack), Front(pendingParents),
                  graph, inherit)
    BY <1>1, <2>1, PopKeeps
  <2>. QED
    BY <1>1, <2>1, <2>2 DEF SortInv
<1>. QED
  BY <1>2, <1>3, <1>4

LEMMA SortAlways == RdependsSpec => []SortInv
<1>1. RdependsInit => SortInv
  BY DEF RdependsInit, Init, SortInv
<1>2. ParseInv /\ SortInv /\ [RdependsNext]_rdependsAllVars => SortInv'
  <2>. SUFFICES ASSUME ParseInv, SortInv, [RdependsNext]_rdependsAllVars PROVE SortInv'
    OBVIOUS
  <2>1. CASE GoesOn /\ UNCHANGED <<world, structureVars>>
    BY <2>1 DEF SortInv, GoesOn, structureVars, parseVars, sortVars, Early, Late
  <2>2. CASE addExtras
    BY <2>2 DEF SortInv, addExtras
  <2>3. CASE IncludeBranch
    BY <2>3 DEF SortInv, IncludeBranch
  <2>4. CASE FinishBranch
    <3>1. CASE Len(parsing) = 1
      BY <2>4, <3>1, SortStarts
    <3>2. CASE Len(parsing) # 1
      BY <2>4, <3>2 DEF SortInv, FinishBranch
    <3>. QED
      BY <3>1, <3>2
  <2>5. CASE (PopItem \/ VisitParent \/ PopNode) /\ UNCHANGED parseVars /\ UNCHANGED world
    <3>1. phase = "sort"
      BY <2>5 DEF PopItem, VisitParent, Popped, PopNode
    <3>. QED
      BY <2>5, <3>1, SortGoesOn
  <2>6. CASE StartExpanding \/ ExpandInheritance \/ addSeedPackage \/ StartPlanting
    BY <2>6 DEF SortInv, StartExpanding, ExpandInheritance, addSeedPackage, StartPlanting
  <2>. QED
    BY <2>1, <2>2, <2>3, <2>4, <2>5, <2>6, StructureSteps DEF StructureNext
<1>. QED
  BY <1>1, <1>2, ParseAlways, PTL DEF RdependsSpec

-----------------------------------------------------------------------------
(* Who inherits from whom, as it was given.                                *)
Parsing == {"archive", "parse"}
AddedSeed == [parent : STRING, pkg : STRING]

LEMMA GivenTyped ==
  ASSUME ParseInv, phase \notin Parsing
  PROVE  /\ IsFiniteSet(GivenSeeds) /\ GivenParents \in [GivenSeeds -> SUBSET GivenSeeds]
         /\ \A s \in DOMAIN structure.inherit :
              s \in GivenSeeds /\ GivenParents[s] = GivenSeeds \cap ToSet(structure.inherit[s])
         /\ \A i \in 1..Len(world.seed_packages) :
              /\ world.seed_packages[i].pkg \in GivenSeeds
              /\ GivenParents[world.seed_packages[i].pkg] =
                   GivenSeeds \cap {world.seed_packages[i].parent}
<1>. DEFINE added == world.seed_packages
            D == DOMAIN structure.inherit
<1>1. /\ world \in Worlds /\ structure.names \in Seq(SeedNames(world)) /\ D = ToSet(structure.names)
      /\ added \in Seq(AddedSeed)
      /\ \A i, j \in 1..Len(added) : i # j => added[j].pkg # added[i].pkg
      /\ DOMAIN added = 1..Len(added)
  <2>1. /\ world \in Worlds /\ structure.names \in Seq(SeedNames(world))
        /\ D = ToSet(structure.names)
    BY DEF ParseInv, Parsing
  <2>2. /\ added \in Seq(AddedSeed)
        /\ \A i, j \in DOMAIN added : i # j => added[j].pkg # added[i].pkg
    BY <2>1, CollectionsAssumption DEF AddedSeed
  <2>3. DOMAIN added = 1..Len(added)
    BY <2>2
  <2>. QED
    BY <2>1, <2>2, <2>3
<1>2. AddedSeeds = {added[i].pkg : i \in 1..Len(added)} /\ AddedSeeds = AddedTo(world)
  BY <1>1 DEF AddedSeeds, AddedTo, ToSet
<1>3. IsFiniteSet(GivenSeeds)
  <2>1. IsFiniteSet(D)
    BY <1>1, ElementsFinite
  <2>. DEFINE pkgs == [i \in 1..Len(added) |-> added[i].pkg]
  <2>2. pkgs \in Seq(STRING) /\ ToSet(pkgs) = {added[i].pkg : i \in 1..Len(added)}
    <3>. DEFINE K == Len(added)
    <3>1. K \in Nat /\ \A i \in 1..K : added[i].pkg \in STRING
      <4>1. K \in Nat /\ \A i \in 1..K : added[i] \in AddedSeed
        BY <1>1
      <4>. QED
        BY <4>1 DEF AddedSeed
    <3>. HIDE DEF K
    <3>2. pkgs \in Seq(STRING) /\ DOMAIN pkgs = 1..K
      BY <3>1 DEF K
    <3>. QED
      BY <3>2 DEF ToSet, K
  <2>3. IsFiniteSet(AddedSeeds)
    <3>. HIDE DEF pkgs
    <3>. QED
      BY <1>2, <2>2, ElementsFinite
  <2>. QED
    BY <2>1, <2>3, FS_Union DEF GivenSeeds
<1>4. GivenParents \in [GivenSeeds -> SUBSET GivenSeeds]
  BY DEF GivenParents
<1>5. ASSUME NEW s \in D
      PROVE  s \in GivenSeeds /\ GivenParents[s] = GivenSeeds \cap ToSet(structure.inherit[s])
  <2>1. s \notin AddedSeeds
    BY <1>1, <1>2, ToSetProperties DEF SeedNames
  <2>2. ~IsAdded(s)
    BY <2>1 DEF IsAdded, AddedSeeds
  <2>. QED
    BY <2>2 DEF GivenParents, GivenSeeds
<1>6. ASSUME NEW i \in 1..Len(added)
      PROVE  /\ added[i].pkg \in GivenSeeds
             /\ GivenParents[added[i].pkg] = GivenSeeds \cap {added[i].parent}
  <2>1. added[i] \in ToSet(added) /\ added[i].pkg \in GivenSeeds /\ IsAdded(added[i].pkg)
    BY <1>1, <1>2 DEF ToSet, GivenSeeds, IsAdded
  <2>2. {y \in ToSet(added) : y.pkg = added[i].pkg} = {added[i]}
    BY <1>1, <2>1 DEF ToSet
  <2>. QED
    BY <2>1, <2>2 DEF GivenParents
<1>. QED
  BY <1>3, <1>4, <1>5, <1>6

LEMMA AncestorsProperties ==
  ASSUME ParseInv, phase \notin Parsing, NEW s \in GivenSeeds
  PROVE  /\ Ancestors(s) = GivenParents[s] \cup UNION {Ancestors(p) : p \in GivenParents[s]}
         /\ GivenParents[s] \subseteq Ancestors(s) /\ Ancestors(s) \subseteq GivenSeeds
         /\ Closed(Ancestors(s), GivenParents)
<1>1. /\ IsFiniteSet(GivenSeeds) /\ GivenParents \in [GivenSeeds -> SUBSET GivenSeeds]
      /\ GivenParents[s] \in SUBSET GivenSeeds
  BY GivenTyped
<1>. HIDE DEF GivenParents
<1>2. Reached(GivenParents[s], GivenParents) =
        GivenParents[s] \cup UNION {Reached(GivenParents[p], GivenParents) : p \in GivenParents[s]}
  BY <1>1, ReachedUnfolds
<1>3. /\ GivenParents[s] \subseteq Reached(GivenParents[s], GivenParents)
      /\ Reached(GivenParents[s], GivenParents) \subseteq GivenSeeds
      /\ Closed(Reached(GivenParents[s], GivenParents), GivenParents)
  BY <1>1, ReachedCloses
<1>. QED
  BY <1>2, <1>3 DEF Ancestors

(* The nodes of the stack inherit each from the next.                      *)
CycleInv ==
  phase = "cycle" => \E s \in DOMAIN structure.inherit : s \in Ancestors(s)

LEMMA CycleFound ==
  ASSUME ParseInv, SortInv, VisitParent, phase' # "sort"
  PROVE  \E s \in DOMAIN structure.inherit : s \in Ancestors(s)
<1>. DEFINE parent == Last(Last(pendingParents))
            popped == Append(Front(pendingParents), Front(Last(pendingParents)))
            L == Len(nodeStack)
<1>1. /\ phase = "sort" /\ nodeStack # <<>> /\ Last(pendingParents) # <<>>
      /\ parent \in DOMAIN inherit \ graph /\ ~Contains(names, parent)
  BY DEF VisitParent, Popped
<1>2. /\ inherit = structure.inherit
      /\ SortParts(names, nodeStack, pendingParents, graph, inherit)
  BY <1>1 DEF SortInv
<1>3. parent \in ToSet(inherit[nodeStack[L]])
  BY <1>1, <1>2, ParentTaken
<1>. HIDE DEF parent
<1>4. parent \in ToSet(nodeStack)
  <2>1. names \in Seq(DOMAIN inherit)
    BY <1>2 DEF SortParts
  <2>2. parent \notin ToSet(names)
    BY <1>1, <2>1, ToSetProperties
  <2>. QED
    BY <1>1, <1>2, <2>2 DEF SortParts
<1>5. /\ nodeStack \in Seq(DOMAIN inherit) /\ DOMAIN nodeStack = 1..L /\ L \in Nat
      /\ \A i \in 1..L : nodeStack[i] \in DOMAIN inherit
      /\ \A i \in 1 .. L - 1 : nodeStack[i + 1] \in ToSet(inherit[nodeStack[i]])
  <2>1. nodeStack \in Seq(DOMAIN inherit)
    BY <1>2 DEF SortParts
  <2>2. L \in Nat /\ DOMAIN nodeStack = 1..L /\ \A i \in 1..L : nodeStack[i] \in DOMAIN inherit
    BY <2>1
  <2>3. \A i \in 1..L : Waits(i, names, nodeStack, pendingParents, inherit)
    BY <1>2 DEF SortParts
  <2>4. \A i \in 1 .. L - 1 : i \in 1..L /\ i < L
    BY <2>2
  <2>. QED
    BY <2>1, <2>2, <2>3, <2>4 DEF Waits
<1>6. PICK m \in 1..L : parent = nodeStack[m]
  BY <1>4, <1>5 DEF ToSet
<1>7. /\ \A s \in DOMAIN structure.inherit :
           s \in GivenSeeds /\ GivenParents[s] = GivenSeeds \cap ToSet(structure.inherit[s])
  BY <1>1, GivenTyped DEF Parsing
<1>. DEFINE X == Ancestors(parent)
<1>8. /\ GivenParents[parent] \subseteq X /\ Closed(X, GivenParents)
  BY <1>1, <1>2, <1>7, AncestorsProperties DEF Parsing
<1>. HIDE DEF X, L
<1>. DEFINE good == {n \in 0 .. L - m : m + n \in 1..L /\ ToSet(inherit[nodeStack[m + n]]) \cap GivenSeeds \subseteq X}
<1>9. 0 \in good
  BY <1>1, <1>2, <1>5, <1>6, <1>7, <1>8
<1>10. ASSUME NEW n \in Nat, n < L - m, n \in good PROVE n + 1 \in good
  <2>1. /\ m + n \in 1 .. L - 1 /\ m + (n + 1) \in 1..L /\ n + 1 \in 0 .. L - m
        /\ m + (n + 1) = (m + n) + 1
    BY <1>5, <1>6, <1>10
  <2>2. nodeStack[m + (n + 1)] \in ToSet(inherit[nodeStack[m + n]])
    BY <1>5, <2>1
  <2>3. nodeStack[m + (n + 1)] \in X /\ nodeStack[m + (n + 1)] \in DOMAIN structure.inherit
    BY <1>2, <1>5, <1>7, <1>10, <2>1, <2>2
  <2>4. GivenParents[nodeStack[m + (n + 1)]] \subseteq X
    BY <1>8, <2>3 DEF Closed
  <2>. QED
    BY <1>2, <1>7, <2>1, <2>3, <2>4
<1>11. \A n \in 0 .. L - m : n \in good
  <2>1. L - m \in Nat
    BY <1>5, <1>6
  <2>. HIDE DEF good
  <2>. QED
    BY <1>9, <1>10, <2>1, InductUpTo
<1>12. L - m \in 0 .. L - m /\ m + (L - m) = L
  BY <1>5, <1>6
<1>13. ToSet(inherit[nodeStack[L]]) \cap GivenSeeds \subseteq X
  BY <1>11, <1>12
<1>14. parent \in X
  BY <1>1, <1>2, <1>3, <1>7, <1>13 DEF L
<1>. QED
  BY <1>1, <1>2, <1>14 DEF X

LEMMA CycleAlways == RdependsSpec => []CycleInv
<1>1. RdependsInit => CycleInv
  BY DEF RdependsInit, Init, CycleInv
<1>2. ParseInv /\ SortInv /\ CycleInv /\ [RdependsNext]_rdependsAllVars => CycleInv'
  <2>. SUFFICES ASSUME ParseInv, SortInv, CycleInv, [RdependsNext]_rdependsAllVars
                PROVE  CycleInv'
    OBVIOUS
  <2>1. CASE GoesOn /\ UNCHANGED <<world, structureVars>>
    BY <2>1 DEF CycleInv, GoesOn, structureVars, parseVars, Early, Late, Ancestors,
                GivenParents, GivenSeeds, AddedSeeds, IsAdded
  <2>2. CASE VisitParent /\ UNCHANGED <<world, parseVars>>
    <3>1. CASE phase' # "sort"
      BY <2>2, <3>1, CycleFound DEF CycleInv, parseVars, Ancestors,
                GivenParents, GivenSeeds, AddedSeeds, IsAdded
    <3>2. CASE phase' = "sort"
      BY <3>2 DEF CycleInv
    <3>. QED
      BY <3>1, <3>2
  <2>3. CASE addExtras \/ IncludeBranch \/ FinishBranch \/ PopItem \/ PopNode
    BY <2>3 DEF CycleInv, addExtras, IncludeBranch, FinishBranch, PopItem, PopNode
  <2>4. CASE StartExpanding \/ ExpandInheritance \/ addSeedPackage \/ StartPlanting
    BY <2>4 DEF CycleInv, StartExpanding, ExpandInheritance, addSeedPackage, StartPlanting
  <2>. QED
    BY <2>1, <2>2, <2>3, <2>4, StructureSteps DEF StructureNext
<1>. QED
  BY <1>1, <1>2, ParseAlways, SortAlways, PTL DEF RdependsSpec

-----------------------------------------------------------------------------
(* _expandInheritance and add: the seeds that come before unexpanded have  *)
(* their ancestors, the others what the STRUCTURE files give them.         *)
AllAncestors == [s \in GivenSeeds |-> Ancestors(s)]

Expanded(i, ns, inh, anc) ==
  /\ inh[ns[i]] \in Seq(STRING) /\ Distinct(inh[ns[i]])
  /\ ToSet(inh[ns[i]]) = anc[ns[i]]
  /\ ToSet(inh[ns[i]]) \subseteq {ns[j] : j \in 1 .. i - 1}

AsGiven(i, ns, inh, given) ==
  /\ inh[ns[i]] = given[ns[i]] /\ ns[i] \in DOMAIN given
  /\ ToSet(given[ns[i]]) \cap DOMAIN given \subseteq {ns[j] : j \in 1 .. i - 1}

ExpandParts(ns, inh, left, anc, given) ==
  /\ ns \in Seq(DOMAIN anc) /\ Distinct(ns) /\ ToSet(ns) = DOMAIN inh
  /\ left \in Seq(STRING) /\ Len(left) <= Len(ns)
  /\ \A i \in 1..Len(left) : left[i] = ns[Len(ns) - Len(left) + i]
  /\ \A i \in 1 .. Len(ns) - Len(left) : Expanded(i, ns, inh, anc)
  /\ \A i \in Len(ns) - Len(left) + 1 .. Len(ns) : AsGiven(i, ns, inh, given)
  /\ DOMAIN given \subseteq ToSet(ns)
  /\ left # <<>> => ToSet(ns) = DOMAIN given

AddParts(ns, adds, added) ==
  /\ adds \in Seq(AddedSeed) /\ Len(adds) <= Len(added)
  /\ \A i \in 1..Len(adds) : adds[i] = added[Len(added) - Len(adds) + i]
  /\ \A i \in 1..Len(adds) : adds[i].pkg \notin ToSet(ns)

ExpandInv ==
  phase = "expand" =>
    /\ ExpandParts(names, inherit, unexpanded, AllAncestors, structure.inherit)
    /\ AddParts(names, adding, world.seed_packages)

LEMMA AncestorsStay ==
  ASSUME UNCHANGED <<world, parseVars>>
  PROVE  AllAncestors' = AllAncestors /\ GivenSeeds' = GivenSeeds
  BY DEF AllAncestors, Ancestors, GivenParents, GivenSeeds, AddedSeeds, IsAdded, parseVars

LEMMA AllAncestorsProperties ==
  ASSUME ParseInv, phase \notin Parsing
  PROVE  /\ DOMAIN AllAncestors = GivenSeeds /\ GivenSeeds \subseteq STRING \ {"extra", "all"}
         /\ DOMAIN structure.inherit \subseteq GivenSeeds
         /\ structure.inherit \in [DOMAIN structure.inherit -> Seq(STRING)]
         /\ \A s \in DOMAIN structure.inherit :
              ToSet(structure.inherit[s]) \subseteq DOMAIN structure.inherit =>
                AllAncestors[s] = ToSet(structure.inherit[s])
                  \cup UNION {AllAncestors[p] : p \in ToSet(structure.inherit[s])}
         /\ world.seed_packages \in Seq(AddedSeed)
         /\ \A i \in 1..Len(world.seed_packages) :
              /\ world.seed_packages[i].pkg \in GivenSeeds \ DOMAIN structure.inherit
              /\ world.seed_packages[i].parent \in GivenSeeds =>
                   AllAncestors[world.seed_packages[i].pkg] = {world.seed_packages[i].parent}
                     \cup AllAncestors[world.seed_packages[i].parent]
<1>. DEFINE added == world.seed_packages
            D == DOMAIN structure.inherit
<1>1. /\ world \in Worlds /\ D \subseteq SeedNames(world)
      /\ structure.inherit \in Inherits(SeedNames(world))
  <2>1. /\ world \in Worlds /\ structure.inherit \in Inherits(SeedNames(world))
    BY DEF ParseInv, Parsing
  <2>. QED
    BY <2>1 DEF Inherits
<1>2. structure.inherit \in [D -> Seq(STRING)]
  BY <1>1 DEF Inherits
<1>3. /\ added \in Seq(AddedSeed)
      /\ \A i \in 1..Len(added) : added[i].pkg \in AddedTo(world) \cap STRING
      /\ \A i \in 1..Len(added) : added[i].pkg \notin {"extra", "all"}
  <2>1. added \in Seq(AddedSeed) /\ \A i \in DOMAIN added : added[i].pkg \notin {"extra", "all"}
    BY <1>1, CollectionsAssumption DEF AddedSeed
  <2>2. DOMAIN added = 1..Len(added) /\ \A i \in 1..Len(added) : added[i] \in AddedSeed
    BY <2>1
  <2>3. \A i \in 1..Len(added) : added[i] \in ToSet(added)
    BY <2>2 DEF ToSet
  <2>. QED
    BY <2>1, <2>2, <2>3 DEF AddedTo, AddedSeed
<1>4. GivenSeeds \subseteq STRING \ {"extra", "all"} /\ D \subseteq GivenSeeds
  <2>1. GivenSeeds = D \cup AddedTo(world)
    BY DEF GivenSeeds, AddedSeeds, AddedTo
  <2>2. \A x \in AddedTo(world) : \E i \in 1..Len(added) : x = added[i].pkg
    BY <1>3 DEF AddedTo, ToSet
  <2>. QED
    BY <1>1, <1>3, <2>1, <2>2 DEF SeedNames
<1>5. ASSUME NEW s \in D, ToSet(structure.inherit[s]) \subseteq D
      PROVE  AllAncestors[s] = ToSet(structure.inherit[s])
               \cup UNION {AllAncestors[p] : p \in ToSet(structure.inherit[s])}
  <2>1. s \in GivenSeeds /\ GivenParents[s] = ToSet(structure.inherit[s])
    <3>1. s \in GivenSeeds /\ GivenParents[s] = GivenSeeds \cap ToSet(structure.inherit[s])
      BY <1>5, GivenTyped
    <3>. QED
      BY <1>4, <1>5, <3>1
  <2>2. Ancestors(s) = GivenParents[s] \cup UNION {Ancestors(p) : p \in GivenParents[s]}
    BY <2>1, AncestorsProperties
  <2>. QED
    BY <1>4, <1>5, <2>1, <2>2 DEF AllAncestors
<1>6. ASSUME NEW i \in 1..Len(added)
      PROVE  /\ added[i].pkg \in GivenSeeds \ D
             /\ added[i].parent \in GivenSeeds =>
                  AllAncestors[added[i].pkg] = {added[i].parent} \cup AllAncestors[added[i].parent]
  <2>1. added[i].pkg \in GivenSeeds \ D
    BY <1>1, <1>3, GivenTyped DEF SeedNames
  <2>2. ASSUME added[i].parent \in GivenSeeds
        PROVE AllAncestors[added[i].pkg] = {added[i].parent} \cup AllAncestors[added[i].parent]
    <3>1. GivenParents[added[i].pkg] = {added[i].parent}
      BY <2>2, GivenTyped
    <3>. PICK s \in GivenSeeds : s = added[i].pkg
      BY <2>1
    <3>2. Ancestors(s) = GivenParents[s] \cup UNION {Ancestors(p) : p \in GivenParents[s]}
      BY AncestorsProperties
    <3>. QED
      BY <2>1, <2>2, <3>1, <3>2 DEF AllAncestors
  <2>. QED
    BY <2>1, <2>2
<1>. QED
  BY <1>2, <1>3, <1>4, <1>5, <1>6 DEF AllAncestors

LEMMA ExpandStarts ==
  ASSUME ParseInv, SortInv, StartExpanding, UNCHANGED <<world, parseVars>>
  PROVE  ExpandInv'
<1>1. /\ phase = "sort" /\ nodeStack = <<>> /\ graph = {} /\ phase' = "expand"
      /\ unexpanded' = names /\ names' = names /\ inherit' = inherit /\ adding' = adding
      /\ structure' = structure /\ world' = world
  BY DEF StartExpanding, parseVars
<1>2. /\ SortParts(names, nodeStack, pendingParents, graph, inherit) /\ inherit = structure.inherit
      /\ adding = world.seed_packages
  BY <1>1 DEF SortInv, ParseInv
<1>3. /\ names \in Seq(DOMAIN inherit) /\ Distinct(names) /\ Ordered(names, inherit)
      /\ ToSet(names) = DOMAIN inherit
  <2>1. graph \cup ToSet(names) \cup ToSet(nodeStack) = DOMAIN inherit /\ ToSet(nodeStack) = {}
    BY <1>1, <1>2, ToSetProperties DEF SortParts
  <2>. QED
    BY <1>1, <1>2, <2>1 DEF SortParts
<1>4. /\ DOMAIN AllAncestors = GivenSeeds /\ GivenSeeds \subseteq STRING
      /\ DOMAIN inherit \subseteq GivenSeeds
      /\ world.seed_packages \in Seq(AddedSeed)
      /\ \A i \in 1..Len(world.seed_packages) :
           world.seed_packages[i].pkg \in GivenSeeds \ DOMAIN inherit
  BY <1>1, <1>2, AllAncestorsProperties DEF Parsing
<1>5. ExpandParts(names, inherit, names, AllAncestors, inherit)
  <2>1. names \in Seq(GivenSeeds) /\ names \in Seq(STRING) /\ Len(names) \in Nat
    BY <1>3, <1>4
  <2>2. 1 .. Len(names) - Len(names) = {} /\ Len(names) - Len(names) + 1 = 1
    BY <2>1
  <2>3. \A i \in 1..Len(names) : Len(names) - Len(names) + i = i
    BY <2>1
  <2>4. \A i \in 1..Len(names) : AsGiven(i, names, inherit, inherit)
    <3>1. \A i \in 1..Len(names) : names[i] \in DOMAIN inherit
      BY <1>3
    <3>. QED
      BY <1>3, <3>1 DEF AsGiven, Ordered
  <2>. QED
    BY <1>3, <1>4, <2>1, <2>2, <2>3, <2>4 DEF ExpandParts
<1>6. AddParts(names, adding, world.seed_packages)
  <2>1. Len(adding) \in Nat /\ \A i \in 1..Len(adding) : Len(adding) - Len(adding) + i = i
    BY <1>2, <1>4
  <2>. QED
    BY <1>2, <1>3, <1>4, <2>1 DEF AddParts
<1>. QED
  BY <1>1, <1>2, <1>5, <1>6, AncestorsStay DEF ExpandInv

LEMMA ExpandStep ==
  ASSUME ParseInv, phase \notin Parsing, unexpanded # <<>>,
         ExpandParts(names, inherit, unexpanded, AllAncestors, structure.inherit),
         NEW name, name = Head(unexpanded), ToSet(inherit[name]) \subseteq DOMAIN inherit
  PROVE  ExpandParts(names, [inherit EXCEPT ![name] = WithAncestors(name)], Tail(unexpanded),
                     AllAncestors, structure.inherit)
<1>. DEFINE L == Len(names)
            U == Len(unexpanded)
            m == L - U + 1
            given == structure.inherit
            before == {names[j] : j \in 1 .. m - 1}
            w == WithAncestors(name)
            inh == [inherit EXCEPT ![name] = w]
            rest == Tail(unexpanded)
<1>1. /\ names \in Seq(GivenSeeds) /\ Distinct(names) /\ ToSet(names) = DOMAIN inherit
      /\ unexpanded \in Seq(STRING) /\ U <= L
      /\ \A i \in 1..U : unexpanded[i] = names[L - U + i]
      /\ \A i \in 1 .. L - U : Expanded(i, names, inherit, AllAncestors)
      /\ \A i \in L - U + 1 .. L : AsGiven(i, names, inherit, given)
      /\ ToSet(names) = DOMAIN given
  BY DEF ExpandParts, AllAncestors
<1>2. /\ L \in Nat /\ U \in Nat \ {0} /\ m \in 1..L /\ m - 1 = L - U /\ DOMAIN names = 1..L
      /\ name = names[m]
      /\ rest \in Seq(STRING) /\ Len(rest) = U - 1
      /\ \A i \in 1 .. U - 1 : rest[i] = unexpanded[i + 1]
  <2>1. /\ rest \in Seq(STRING) /\ Len(rest) = U - 1 /\ U \in Nat \ {0}
        /\ \A i \in 1 .. U - 1 : rest[i] = unexpanded[i + 1]
        /\ name = unexpanded[1]
    BY <1>1, InnermostCall
  <2>2. L \in Nat /\ DOMAIN names = 1..L
    BY <1>1
  <2>3. m \in 1..L /\ m - 1 = L - U /\ 1 \in 1..U
    BY <1>1, <2>1, <2>2
  <2>. QED
    BY <1>1, <2>1, <2>2, <2>3
<1>. HIDE DEF U, L, m, rest, given
<1>3. /\ name \in DOMAIN given /\ inherit[name] = given[name] /\ given[name] \in Seq(STRING)
      /\ ToSet(given[name]) \subseteq DOMAIN given /\ ToSet(given[name]) \subseteq before
  <2>1. AsGiven(m, names, inherit, given)
    BY <1>1, <1>2 DEF m
  <2>2. given \in [DOMAIN given -> Seq(STRING)]
    BY AllAncestorsProperties DEF given
  <2>3. name \in DOMAIN given /\ inherit[name] = given[name]
    BY <1>2, <2>1 DEF AsGiven
  <2>4. ToSet(given[name]) \subseteq DOMAIN given
    BY <1>1, <2>3
  <2>. QED
    BY <1>2, <2>1, <2>2, <2>3, <2>4 DEF AsGiven
<1>4. ASSUME NEW p \in ToSet(given[name])
      PROVE  /\ inherit[p] \in Seq(STRING) /\ ToSet(inherit[p]) = AllAncestors[p]
             /\ ToSet(inherit[p]) \subseteq before
  <2>1. PICK j \in 1 .. m - 1 : p = names[j]
    BY <1>3
  <2>2. Expanded(j, names, inherit, AllAncestors)
    BY <1>1, <1>2, <2>1
  <2>3. {names[i] : i \in 1 .. j - 1} \subseteq before
    <3>1. 1 .. j - 1 \subseteq 1 .. m - 1
      BY <1>2
    <3>. QED
      BY <3>1
  <2>. QED
    BY <2>1, <2>2, <2>3 DEF Expanded
<1>5. /\ w \in Seq(STRING) /\ Distinct(w) /\ ToSet(w) = AllAncestors[name]
      /\ ToSet(w) \subseteq before
  <2>1. inherit[name] \in Seq(STRING) /\ \A p \in ToSet(inherit[name]) : inherit[p] \in Seq(STRING)
    BY <1>3, <1>4
  <2>2. /\ w \in Seq(STRING) /\ Distinct(w)
        /\ ToSet(w) = ToSet(inherit[name]) \cup UNION {ToSet(inherit[p]) : p \in ToSet(inherit[name])}
    BY <2>1, WithAncestorsProperties
  <2>3. AllAncestors[name] =
          ToSet(given[name]) \cup UNION {AllAncestors[p] : p \in ToSet(given[name])}
    BY <1>3, AllAncestorsProperties DEF given
  <2>. HIDE DEF w, before
  <2>4. {ToSet(inherit[p]) : p \in ToSet(given[name])} = {AllAncestors[p] : p \in ToSet(given[name])}
    BY <1>4
  <2>5. \A p \in ToSet(given[name]) : ToSet(inherit[p]) \subseteq before
    BY <1>4
  <2>6. inherit[name] = given[name]
    BY <1>3
  <2>7. ToSet(w) = AllAncestors[name]
    BY <2>2, <2>3, <2>4, <2>6
  <2>8. ToSet(w) \subseteq before
    BY <1>3, <2>2, <2>5, <2>6
  <2>. QED
    BY <2>2, <2>7, <2>8
<1>. HIDE DEF w
<1>6. /\ DOMAIN inh = DOMAIN inherit /\ inh[name] = w
      /\ \A j \in 1..L : j # m => inh[names[j]] = inherit[names[j]] /\ names[j] # name
  <2>1. \A j \in 1..L : names[j] \in DOMAIN inherit /\ (j # m => names[j] # name)
    BY <1>1, <1>2 DEF ToSet, Distinct
  <2>. QED
    BY <1>1, <1>2, <2>1
<1>. HIDE DEF inh, before
<1>7. \A i \in 1..Len(rest) : rest[i] = names[L - Len(rest) + i]
  <2>. TAKE i \in 1..Len(rest)
  <2>1. i \in 1 .. U - 1 /\ i + 1 \in 1..U /\ L - U + (i + 1) = L - Len(rest) + i
    BY <1>2
  <2>. QED
    BY <1>1, <1>2, <2>1
<1>8. ASSUME NEW i \in 1 .. L - Len(rest) PROVE Expanded(i, names, inh, AllAncestors)
  <2>1. CASE i = m
    BY <1>2, <1>5, <1>6, <2>1 DEF Expanded, before
  <2>2. CASE i # m
    <3>1. i \in 1 .. L - U /\ i \in 1..L
      BY <1>1, <1>2, <2>2 DEF m
    <3>2. Expanded(i, names, inherit, AllAncestors)
      BY <1>1, <3>1
    <3>. QED
      BY <1>6, <2>2, <3>1, <3>2 DEF Expanded
  <2>. QED
    BY <2>1, <2>2
<1>9. ASSUME NEW i \in L - Len(rest) + 1 .. L PROVE AsGiven(i, names, inh, given)
  <2>1. i \in L - U + 1 .. L /\ i # m /\ i \in 1..L
    BY <1>1, <1>2 DEF m
  <2>2. AsGiven(i, names, inherit, given)
    BY <1>1, <2>1
  <2>. QED
    BY <1>6, <2>1, <2>2 DEF AsGiven
<1>10. Len(rest) <= L
  BY <1>1, <1>2
<1>11. ExpandParts(names, inh, rest, AllAncestors, given)
  BY <1>1, <1>2, <1>6, <1>7, <1>8, <1>9, <1>10 DEF ExpandParts, AllAncestors, L
<1>. QED
  BY <1>11 DEF inh, w, rest, given

LEMMA AddStep ==
  ASSUME ParseInv, phase \notin Parsing, unexpanded = <<>>, adding # <<>>,
         ExpandParts(names, inherit, unexpanded, AllAncestors, structure.inherit),
         AddParts(names, adding, world.seed_packages),
         NEW x, x = Head(adding), x.parent \in DOMAIN inherit
  PROVE  /\ ExpandParts(Append(names, x.pkg),
                        Put(inherit, x.pkg, Append(inherit[x.parent], x.parent)),
                        unexpanded, AllAncestors, structure.inherit)
         /\ AddParts(Append(names, x.pkg), Tail(adding), world.seed_packages)
<1>. DEFINE L == Len(names)
            given == structure.inherit
            added == world.seed_packages
            ns == Append(names, x.pkg)
            new == Append(inherit[x.parent], x.parent)
            inh == Put(inherit, x.pkg, new)
            A == Len(adding)
            rest == Tail(adding)
<1>1. /\ names \in Seq(GivenSeeds) /\ Distinct(names) /\ ToSet(names) = DOMAIN inherit
      /\ \A i \in 1..L : Expanded(i, names, inherit, AllAncestors)
      /\ DOMAIN given \subseteq ToSet(names) /\ L \in Nat /\ DOMAIN names = 1..L
  <2>1. names \in Seq(GivenSeeds) /\ L \in Nat /\ DOMAIN names = 1..L
    BY DEF ExpandParts, AllAncestors
  <2>2. Len(unexpanded) = 0 /\ L - Len(unexpanded) = L
    BY <2>1
  <2>3. \A i \in 1..L : Expanded(i, names, inherit, AllAncestors)
    BY <2>2 DEF ExpandParts
  <2>. QED
    BY <2>1, <2>3 DEF ExpandParts
<1>2. /\ adding \in Seq(AddedSeed) /\ A <= Len(added) /\ A \in Nat \ {0}
      /\ \A i \in 1..A : adding[i] = added[Len(added) - A + i] /\ adding[i].pkg \notin ToSet(names)
      /\ rest \in Seq(AddedSeed) /\ Len(rest) = A - 1
      /\ \A i \in 1 .. A - 1 : rest[i] = adding[i + 1]
      /\ x = adding[1]
  <2>1. /\ adding \in Seq(AddedSeed) /\ A <= Len(added)
        /\ \A i \in 1..A : adding[i] = added[Len(added) - A + i] /\ adding[i].pkg \notin ToSet(names)
    BY DEF AddParts
  <2>. QED
    BY <2>1, InnermostCall
<1>3. /\ added \in Seq(AddedSeed) /\ Len(added) \in Nat /\ GivenSeeds \subseteq STRING
      /\ \A i, j \in 1..Len(added) : i # j => added[j].pkg # added[i].pkg
      /\ \A i \in 1..Len(added) :
           /\ added[i].pkg \in GivenSeeds
           /\ added[i].parent \in GivenSeeds =>
                AllAncestors[added[i].pkg] = {added[i].parent} \cup AllAncestors[added[i].parent]
  <2>1. added \in Seq(AddedSeed) /\ Len(added) \in Nat /\ GivenSeeds \subseteq STRING
    BY AllAncestorsProperties
  <2>2. \A i, j \in 1..Len(added) : i # j => added[j].pkg # added[i].pkg
    <3>1. world \in Worlds
      BY DEF ParseInv
    <3>2. \A i, j \in DOMAIN added : i # j => added[j].pkg # added[i].pkg
      BY <3>1, CollectionsAssumption
    <3>. QED
      BY <2>1, <3>2
  <2>3. \A i \in 1..Len(added) :
           /\ added[i].pkg \in GivenSeeds
           /\ added[i].parent \in GivenSeeds =>
                AllAncestors[added[i].pkg] = {added[i].parent} \cup AllAncestors[added[i].parent]
    BY AllAncestorsProperties
  <2>. QED
    BY <2>1, <2>2, <2>3
<1>. HIDE DEF added, rest, A, given
<1>4. PICK i \in 1..Len(added) : i = Len(added) - A + 1 /\ x = added[i]
  <2>1. 1 \in 1..A /\ Len(added) - A + 1 \in 1..Len(added)
    BY <1>2, <1>3
  <2>2. x = added[Len(added) - A + 1]
    BY <1>2, <2>1
  <2>. QED
    BY <2>1, <2>2
<1>5. PICK j \in 1..L : x.parent = names[j]
  BY <1>1 DEF ToSet
<1>6. /\ x.pkg \in GivenSeeds /\ x.pkg \notin ToSet(names) /\ x.parent \in STRING
      /\ x.parent \in GivenSeeds
      /\ AllAncestors[x.pkg] = {x.parent} \cup AllAncestors[x.parent]
  <2>1. x.parent \in GivenSeeds
    BY <1>1, <1>5
  <2>2. x.pkg \notin ToSet(names)
    <3>1. 1 \in 1..A
      BY <1>2
    <3>. QED
      BY <1>2, <3>1
  <2>. QED
    BY <1>3, <1>4, <2>1, <2>2
<1>7. Expanded(j, names, inherit, AllAncestors)
  BY <1>1
<1>8. x.parent \notin ToSet(inherit[x.parent])
  <2>1. x.parent \notin {names[n] : n \in 1 .. j - 1}
    BY <1>1, <1>5 DEF Distinct
  <2>. QED
    BY <1>5, <1>7, <2>1 DEF Expanded
<1>9. /\ new \in Seq(STRING) /\ Distinct(new) /\ ToSet(new) = AllAncestors[x.pkg]
  <2>1. inherit[x.parent] \in Seq(STRING) /\ Distinct(inherit[x.parent])
        /\ ToSet(inherit[x.parent]) = AllAncestors[x.parent]
    BY <1>5, <1>7 DEF Expanded
  <2>2. new \in Seq(STRING) /\ ToSet(new) = ToSet(inherit[x.parent]) \cup {x.parent}
    BY <1>6, <2>1, AppendParts
  <2>3. Distinct(new)
    BY <1>8, <2>1, DistinctAppend
  <2>. QED
    BY <1>6, <2>1, <2>2, <2>3
<1>10. ToSet(new) \subseteq ToSet(names)
  <2>1. ToSet(inherit[x.parent]) \subseteq {names[n] : n \in 1 .. j - 1}
    BY <1>5, <1>7 DEF Expanded
  <2>2. {names[n] : n \in 1 .. j - 1} \subseteq ToSet(names)
    BY <1>1 DEF ToSet
  <2>3. ToSet(new) = ToSet(inherit[x.parent]) \cup {x.parent}
    BY <1>5, <1>7, ToSetAppend DEF Expanded
  <2>. QED
    BY <1>1, <2>1, <2>2, <2>3
<1>. HIDE DEF new
<1>11. /\ ns \in Seq(GivenSeeds) /\ Len(ns) = L + 1 /\ \A n \in 1..L : ns[n] = names[n]
       /\ ns[L + 1] = x.pkg /\ ToSet(ns) = ToSet(names) \cup {x.pkg}
  BY <1>1, <1>6, AppendParts
<1>12. Distinct(ns)
  BY <1>1, <1>6, DistinctAppend
<1>13. /\ DOMAIN inh = DOMAIN inherit \cup {x.pkg} /\ inh[x.pkg] = new
       /\ \A n \in 1..L : inh[names[n]] = inherit[names[n]]
  <2>1. \A n \in 1..L : names[n] \in DOMAIN inherit /\ names[n] # x.pkg
    BY <1>1, <1>6 DEF ToSet
  <2>. QED
    BY <2>1 DEF Put
<1>. HIDE DEF inh, ns
<1>14. ASSUME NEW n \in 1..Len(ns) PROVE Expanded(n, ns, inh, AllAncestors)
  <2>1. CASE n = L + 1
    <3>1. ToSet(names) = {ns[k] : k \in 1 .. n - 1}
      BY <1>1, <1>11, <2>1 DEF ToSet
    <3>. QED
      BY <1>9, <1>10, <1>11, <1>13, <2>1, <3>1 DEF Expanded
  <2>2. CASE n # L + 1
    <3>1. n \in 1..L
      <4>1. L \in Nat /\ Len(ns) = L + 1
        BY <1>1, <1>11
      <4>. HIDE DEF L
      <4>. QED
        BY <1>14, <2>2, <4>1
    <3>2. {names[k] : k \in 1 .. n - 1} = {ns[k] : k \in 1 .. n - 1}
      BY <1>1, <1>11, <3>1
    <3>3. Expanded(n, names, inherit, AllAncestors)
      BY <1>1, <3>1
    <3>. QED
      BY <1>11, <1>13, <3>1, <3>2, <3>3 DEF Expanded
  <2>. QED
    BY <2>1, <2>2
<1>15. ExpandParts(ns, inh, <<>>, AllAncestors, given)
  <2>1. /\ <<>> \in Seq(STRING) /\ Len(<<>>) = 0 /\ Len(ns) \in Nat /\ Len(ns) - 0 = Len(ns)
        /\ Len(ns) + 1 .. Len(ns) = {} /\ 1..0 = {}
    BY <1>11
  <2>2. DOMAIN AllAncestors = GivenSeeds
    BY DEF AllAncestors
  <2>. QED
    BY <1>1, <1>11, <1>12, <1>13, <1>14, <2>1, <2>2 DEF ExpandParts
<1>16. AddParts(ns, rest, added)
  <2>1. Len(rest) <= Len(added)
    BY <1>2, <1>3
  <2>2. ASSUME NEW n \in 1..Len(rest)
        PROVE  rest[n] = added[Len(added) - Len(rest) + n] /\ rest[n].pkg \notin ToSet(ns)
    <3>1. /\ n \in 1 .. A - 1 /\ n + 1 \in 1..A
          /\ Len(added) - A + (n + 1) = Len(added) - Len(rest) + n
          /\ Len(added) - A + (n + 1) \in 1..Len(added)
          /\ Len(added) - A + (n + 1) # i
      BY <1>2, <1>3, <1>4
    <3>2. rest[n] = added[Len(added) - A + (n + 1)] /\ rest[n].pkg \notin ToSet(names)
      BY <1>2, <3>1
    <3>3. rest[n].pkg # x.pkg
      BY <1>3, <1>4, <3>1, <3>2
    <3>. QED
      BY <1>11, <3>1, <3>2, <3>3
  <2>. QED
    BY <1>2, <2>1, <2>2 DEF AddParts
<1>. QED
  BY <1>15, <1>16 DEF ns, inh, new, rest, given, added

LEMMA ExpandAlways == RdependsSpec => []ExpandInv
<1>1. RdependsInit => ExpandInv
  BY DEF RdependsInit, Init, ExpandInv
<1>2. ParseInv /\ SortInv /\ ExpandInv /\ [RdependsNext]_rdependsAllVars => ExpandInv'
  <2>. SUFFICES ASSUME ParseInv, SortInv, ExpandInv, [RdependsNext]_rdependsAllVars
                PROVE  ExpandInv'
    OBVIOUS
  <2>1. CASE GoesOn /\ UNCHANGED <<world, structureVars>>
    <3>1. AllAncestors' = AllAncestors
      BY <2>1, AncestorsStay DEF structureVars, parseVars
    <3>. QED
      BY <2>1, <3>1 DEF ExpandInv, GoesOn, structureVars, parseVars, Early, Late
  <2>2. CASE StartExpanding /\ UNCHANGED <<world, parseVars>>
    BY <2>2, ExpandStarts
  <2>3. CASE ExpandInheritance /\ UNCHANGED <<world, parseVars>>
    <3>. DEFINE name == Head(unexpanded)
    <3>1. /\ phase = "expand" /\ unexpanded # <<>> /\ names' = names /\ adding' = adding
          /\ structure' = structure /\ world' = world /\ AllAncestors' = AllAncestors
      BY <2>3, AncestorsStay DEF ExpandInheritance, parseVars
    <3>2. CASE ToSet(inherit[name]) \subseteq DOMAIN inherit
      <4>1. /\ inherit' = [inherit EXCEPT ![name] = WithAncestors(name)]
            /\ unexpanded' = Tail(unexpanded)
        BY <2>3, <3>2 DEF ExpandInheritance
      <4>2. ExpandParts(names, [inherit EXCEPT ![name] = WithAncestors(name)], Tail(unexpanded),
                        AllAncestors, structure.inherit)
        BY <3>1, <3>2, ExpandStep DEF ExpandInv, Parsing
      <4>. QED
        BY <3>1, <4>1, <4>2 DEF ExpandInv
    <3>3. CASE ~(ToSet(inherit[name]) \subseteq DOMAIN inherit)
      BY <2>3, <3>3 DEF ExpandInheritance, ExpandInv
    <3>. QED
      BY <3>2, <3>3
  <2>4. CASE addSeedPackage /\ UNCHANGED <<world, parseVars>>
    <3>. DEFINE x == Head(adding)
    <3>1. /\ phase = "expand" /\ unexpanded = <<>> /\ adding # <<>> /\ unexpanded' = unexpanded
          /\ structure' = structure /\ world' = world /\ AllAncestors' = AllAncestors
      BY <2>4, AncestorsStay DEF addSeedPackage, parseVars
    <3>2. CASE x.parent \in DOMAIN inherit
      <4>1. /\ names' = Append(names, x.pkg) /\ adding' = Tail(adding)
            /\ inherit' = Put(inherit, x.pkg, Append(inherit[x.parent], x.parent))
        BY <2>4, <3>2 DEF addSeedPackage
      <4>2. /\ ExpandParts(Append(names, x.pkg),
                           Put(inherit, x.pkg, Append(inherit[x.parent], x.parent)),
                           unexpanded, AllAncestors, structure.inherit)
            /\ AddParts(Append(names, x.pkg), Tail(adding), world.seed_packages)
        BY <3>1, <3>2, AddStep DEF ExpandInv, Parsing
      <4>. QED
        BY <3>1, <4>1, <4>2 DEF ExpandInv
    <3>3. CASE x.parent \notin DOMAIN inherit
      BY <2>4, <3>3 DEF addSeedPackage, ExpandInv
    <3>. QED
      BY <3>2, <3>3
  <2>5. CASE addExtras \/ IncludeBranch \/ FinishBranch \/ PopItem \/ PopNode \/ VisitParent
    BY <2>5 DEF ExpandInv, addExtras, IncludeBranch, FinishBranch, PopItem, PopNode, VisitParent, Popped
  <2>6. CASE StartPlanting
    BY <2>6 DEF ExpandInv, StartPlanting
  <2>. QED
    BY <2>1, <2>2, <2>3, <2>4, <2>5, <2>6, StructureSteps DEF StructureNext
<1>. QED
  BY <1>1, <1>2, ParseAlways, SortAlways, PTL DEF RdependsSpec

(* From then on nothing changes but for the seed that addExtras adds.      *)
SeedName == STRING \cup {Extra}

PlantInv ==
  phase \in Early \cup Late =>
    /\ names \in Seq(SeedName) /\ Distinct(names) /\ ToSet(names) = DOMAIN inherit
    /\ DOMAIN structure.inherit \subseteq ToSet(names) /\ structure.names # <<>>
    /\ ToSet(names) \subseteq GivenSeeds \cup {Extra}
    /\ phase \in Early => Extra \notin ToSet(names)
    /\ \A i \in 1..Len(names) : names[i] # Extra => Expanded(i, names, inherit, AllAncestors)
    /\ phase \in Late => Extra \in ToSet(names) /\ inherit[Extra] = names

LEMMA PlantAlways == RdependsSpec => []PlantInv
<1>1. RdependsInit => PlantInv
  BY DEF RdependsInit, Init, PlantInv, Early, Late
<1>2. ParseInv /\ ExpandInv /\ PlantInv /\ [RdependsNext]_rdependsAllVars => PlantInv'
  <2>. SUFFICES ASSUME ParseInv, ExpandInv, PlantInv, [RdependsNext]_rdependsAllVars
                PROVE  PlantInv'
    OBVIOUS
  <2>1. CASE GoesOn /\ UNCHANGED <<world, structureVars>>
    <3>1. AllAncestors' = AllAncestors /\ GivenSeeds' = GivenSeeds
      BY <2>1, AncestorsStay DEF structureVars, parseVars
    <3>2. CASE phase' \in Early \cup Late
      <4>1. phase \in Early \cup Late /\ (phase' \in Early => phase \in Early)
            /\ (phase' \in Late => phase \in Late)
        BY <2>1, <3>2 DEF GoesOn, Early, Late
      <4>. QED
        BY <2>1, <3>1, <4>1 DEF PlantInv, structureVars, parseVars
    <3>. QED
      BY <3>2 DEF PlantInv
  <2>2. CASE StartPlanting /\ UNCHANGED <<world, parseVars>>
    <3>1. /\ phase = "expand" /\ unexpanded = <<>> /\ names' = names /\ inherit' = inherit
          /\ structure' = structure /\ world' = world
          /\ phase' = IF structure.names = <<>> THEN "noSeed" ELSE "plant"
          /\ AllAncestors' = AllAncestors /\ GivenSeeds' = GivenSeeds
      BY <2>2, AncestorsStay DEF StartPlanting, parseVars
    <3>2. /\ ExpandParts(names, inherit, unexpanded, AllAncestors, structure.inherit)
          /\ GivenSeeds \subseteq STRING \ {"extra", "all"}
          /\ DOMAIN AllAncestors = GivenSeeds
      BY <3>1, AllAncestorsProperties DEF ExpandInv, Parsing
    <3>3. names \in Seq(SeedName) /\ ToSet(names) \subseteq GivenSeeds
      <4>1. names \in Seq(GivenSeeds)
        BY <3>2 DEF ExpandParts
      <4>2. ToSet(names) \subseteq GivenSeeds
        BY <4>1, ToSetProperties
      <4>3. GivenSeeds \subseteq SeedName
        BY <3>2 DEF SeedName
      <4>4. names \in Seq(SeedName)
        BY <4>1, <4>3, SeqOfMore
      <4>. QED
        BY <4>2, <4>4
    <3>4. \A i \in 1..Len(names) : Expanded(i, names, inherit, AllAncestors)
      <4>1. Len(unexpanded) = 0 /\ Len(names) - Len(unexpanded) = Len(names)
        BY <3>1, <3>3
      <4>. QED
        BY <3>2, <4>1 DEF ExpandParts
    <3>5. /\ Distinct(names) /\ ToSet(names) = DOMAIN inherit
          /\ DOMAIN structure.inherit \subseteq ToSet(names)
      BY <3>2 DEF ExpandParts
    <3>6. phase' = "noSeed" \/ (phase' = "plant" /\ structure.names # <<>>)
      BY <3>1
    <3>7. Extra \notin ToSet(names)
      BY <3>2, <3>3 DEF Extra
    <3>. QED
      BY <3>1, <3>3, <3>4, <3>5, <3>6, <3>7 DEF PlantInv, Early, Late
  <2>3. CASE addExtras
    <3>. DEFINE L == Len(names)
                ns == Append(names, Extra)
                inh == Put(inherit, Extra, ns)
    <3>1. /\ phase = "grown" /\ phase' = "extras" /\ names' = ns /\ inherit' = inh
          /\ structure' = structure /\ world' = world
          /\ AllAncestors' = AllAncestors /\ GivenSeeds' = GivenSeeds
      BY <2>3, AncestorsStay DEF addExtras, InheritedByExtra, parseVars
    <3>2. /\ names \in Seq(SeedName) /\ Distinct(names) /\ ToSet(names) = DOMAIN inherit
          /\ DOMAIN structure.inherit \subseteq ToSet(names) /\ structure.names # <<>>
          /\ ToSet(names) \subseteq GivenSeeds \cup {Extra} /\ Extra \notin ToSet(names)
          /\ \A i \in 1..L : names[i] # Extra => Expanded(i, names, inherit, AllAncestors)
      BY <3>1 DEF PlantInv, Early, Late
    <3>3. /\ ns \in Seq(SeedName) /\ Len(ns) = L + 1 /\ L \in Nat
          /\ \A i \in 1..L : ns[i] = names[i]
          /\ ns[L + 1] = Extra /\ ToSet(ns) = ToSet(names) \cup {Extra}
      <4>1. Extra \in SeedName
        BY DEF SeedName
      <4>. QED
        BY <3>2, <4>1, AppendParts
    <3>4. Distinct(ns)
      BY <3>2, DistinctAppend
    <3>. HIDE DEF ns, L
    <3>5. /\ DOMAIN inh = DOMAIN inherit \cup {Extra} /\ inh[Extra] = ns
          /\ \A s \in DOMAIN inherit : s # Extra => inh[s] = inherit[s]
      BY DEF Put
    <3>. HIDE DEF inh
    <3>6. ASSUME NEW i \in 1..Len(ns), ns[i] # Extra PROVE Expanded(i, ns, inh, AllAncestors)
      <4>1. i \in 1..L
        BY <3>3, <3>6
      <4>2. ns[i] = names[i] /\ names[i] \in DOMAIN inherit
        BY <3>2, <3>3, <4>1 DEF ToSet, L
      <4>3. {ns[j] : j \in 1 .. i - 1} = {names[j] : j \in 1 .. i - 1}
        BY <3>3, <4>1
      <4>4. inh[ns[i]] = inherit[names[i]]
        BY <3>5, <3>6, <4>2
      <4>. QED
        BY <3>2, <3>6, <4>1, <4>2, <4>3, <4>4 DEF Expanded
    <3>. QED
      BY <3>1, <3>2, <3>3, <3>4, <3>5, <3>6 DEF PlantInv, Early, Late
  <2>4. CASE IncludeBranch \/ FinishBranch \/ PopItem \/ PopNode \/ VisitParent
    BY <2>4 DEF PlantInv, IncludeBranch, FinishBranch, PopItem, PopNode, VisitParent, Popped,
                Early, Late
  <2>5. CASE StartExpanding \/ ExpandInheritance \/ addSeedPackage
    BY <2>5 DEF PlantInv, StartExpanding, ExpandInheritance, addSeedPackage, Early, Late
  <2>. QED
    BY <2>1, <2>2, <2>3, <2>4, <2>5, StructureSteps DEF StructureNext
<1>. QED
  BY <1>1, <1>2, ParseAlways, ExpandAlways, PTL DEF RdependsSpec

LEMMA SortedIsClosed ==
  ASSUME ParseInv, PlantInv, CycleInv PROVE SortedAndClosed /\ CycleIsReported
<1>1. ASSUME phase \in Early \cup Late
      PROVE  /\ names \in Seq(SeedName) /\ Distinct(names) /\ DOMAIN names = 1..Len(names)
             /\ ToSet(names) \subseteq GivenSeeds \cup {Extra}
             /\ DOMAIN structure.inherit \subseteq ToSet(names)
             /\ DOMAIN structure.inherit \subseteq GivenSeeds /\ Extra \notin GivenSeeds
             /\ \A i \in 1..Len(names) : names[i] # Extra =>
                  /\ Expanded(i, names, inherit, AllAncestors)
                  /\ AllAncestors[names[i]] = Ancestors(names[i])
  <2>1. /\ names \in Seq(SeedName) /\ Distinct(names)
        /\ ToSet(names) \subseteq GivenSeeds \cup {Extra}
        /\ DOMAIN structure.inherit \subseteq ToSet(names)
        /\ \A i \in 1..Len(names) : names[i] # Extra => Expanded(i, names, inherit, AllAncestors)
    BY <1>1 DEF PlantInv
  <2>2. /\ DOMAIN structure.inherit \subseteq GivenSeeds /\ Extra \notin GivenSeeds
        /\ phase \notin Parsing
    BY <1>1, AllAncestorsProperties DEF Early, Late, Parsing, Extra
  <2>3. DOMAIN names = 1..Len(names) /\ \A i \in 1..Len(names) : names[i] \in ToSet(names)
    BY <2>1 DEF ToSet
  <2>. QED
    BY <2>1, <2>2, <2>3 DEF AllAncestors
<1>2. SortedAndClosed
  <2>. SUFFICES ASSUME phase \in {"plant", "done"}, NEW i \in DOMAIN names, names[i] # "extra"
                PROVE  /\ ToSet(inherit[names[i]]) = Ancestors(names[i])
                       /\ Len(inherit[names[i]]) = Cardinality(Ancestors(names[i]))
                       /\ ToSet(inherit[names[i]]) \subseteq {names[j] : j \in 1..(i - 1)}
    BY DEF SortedAndClosed
  <2>1. Expanded(i, names, inherit, AllAncestors) /\ AllAncestors[names[i]] = Ancestors(names[i])
    BY <1>1 DEF Early, Late, Extra
  <2>2. Len(inherit[names[i]]) = Cardinality(ToSet(inherit[names[i]]))
    BY <2>1, DistinctLength DEF Expanded
  <2>. QED
    BY <2>1, <2>2 DEF Expanded
<1>3. CycleIsReported
  <2>1. ASSUME phase = "plant", NEW s \in DOMAIN structure.inherit PROVE s \notin Ancestors(s)
    <3>1. PICK i \in 1..Len(names) : s = names[i]
      BY <1>1, <2>1 DEF Early, ToSet
    <3>2. s # Extra
      BY <1>1, <2>1 DEF Early
    <3>3. Expanded(i, names, inherit, AllAncestors) /\ AllAncestors[s] = Ancestors(s)
      BY <1>1, <2>1, <3>1, <3>2 DEF Early
    <3>4. s \notin {names[j] : j \in 1 .. i - 1}
      BY <1>1, <2>1, <3>1 DEF Early, Distinct
    <3>. QED
      BY <3>1, <3>3, <3>4 DEF Expanded
  <2>. QED
    BY <2>1 DEF CycleIsReported, CycleInv
<1>. QED
  BY <1>2, <1>3

-----------------------------------------------------------------------------
(* Later branches override earlier ones. The branches that the top one has *)
(* put together are those it has seen, but for itself; what is left to see *)
(* brings them to all it includes, in the order they come in first.        *)
LEMMA AppendNewFirst ==
  ASSUME NEW T, NEW seq \in Seq(T), NEW more \in Seq(T), seq # <<>>
  PROVE  AppendNew(seq, more) # <<>> /\ AppendNew(seq, more)[1] = seq[1]
<1>. DEFINE L == Len(more)
<1>0. PICK h : AppendsUpTo(h, seq, more, T) /\ AppendNew(seq, more) = h[L]
  BY AppendNewSteps
<1>1. /\ h \in [0..L -> Seq(T)] /\ h[0] = seq
      /\ \A n \in 1..L : h[n] = WithNew(h[n - 1], more[n])
  BY <1>0, Zenon DEF AppendsUpTo
<1>2. L \in Nat /\ \A n \in 1..L : more[n] \in T
  OBVIOUS
<1>. DEFINE good == {n \in 0..L : h[n] # <<>> /\ h[n][1] = seq[1]}
<1>. HIDE DEF L
<1>3. 0 \in good
  BY <1>1, <1>2
<1>4. ASSUME NEW n \in Nat, n < L, n \in good PROVE n + 1 \in good
  <2>1. n + 1 \in 1..L /\ n + 1 \in 0..L /\ n \in 0..L /\ (n + 1) - 1 = n
    BY <1>2, <1>4
  <2>2. h[n + 1] = WithNew(h[n], more[n + 1])
    BY <1>1, <2>1
  <2>3. PICK s \in Seq(T) : s = h[n]
    BY <1>1, <2>1
  <2>4. PICK x \in T : x = more[n + 1]
    BY <1>2, <2>1
  <2>5. s # <<>> /\ s[1] = seq[1]
    BY <1>4, <2>3
  <2>6. Append(s, x) # <<>> /\ Append(s, x)[1] = s[1]
    <3>1. /\ Append(s, x) \in Seq(T) /\ Len(Append(s, x)) = Len(s) + 1
          /\ \A i \in 1..Len(s) : Append(s, x)[i] = s[i]
      BY AppendParts
    <3>2. 1 \in 1..Len(s) /\ Len(s) + 1 # 0
      BY <2>5, EmptySeq
    <3>. QED
      BY <3>1, <3>2
  <2>. QED
    BY <2>1, <2>2, <2>3, <2>4, <2>5, <2>6 DEF WithNew
<1>5. \A n \in 0..L : n \in good
  <2>. HIDE DEF good
  <2>. QED
    BY <1>2, <1>3, <1>4, InductUpTo
<1>. QED
  BY <1>0, <1>2, <1>5

LEMMA TailAppend ==
  ASSUME NEW T, NEW s \in Seq(T), NEW x \in T, s # <<>>
  PROVE  Tail(Append(s, x)) = Append(Tail(s), x)
<1>1. /\ Append(s, x) \in Seq(T) /\ Len(Append(s, x)) = Len(s) + 1 /\ Append(s, x) # <<>>
      /\ \A i \in 1..Len(s) : Append(s, x)[i] = s[i]
      /\ Append(s, x)[Len(s) + 1] = x /\ Len(s) \in Nat \ {0}
  BY EmptySeq, AppendParts
<1>2. /\ Tail(s) \in Seq(T) /\ Len(Tail(s)) = Len(s) - 1
      /\ \A i \in 1 .. Len(s) - 1 : Tail(s)[i] = s[i + 1]
  BY InnermostCall
<1>3. PICK a \in Seq(T) : a = Append(s, x)
  BY <1>1
<1>4. PICK t \in Seq(T) : t = Tail(s)
  BY <1>2
<1>5. /\ Tail(a) \in Seq(T) /\ Len(Tail(a)) = Len(s)
      /\ \A i \in 1..Len(s) : Tail(a)[i] = a[i + 1]
  BY <1>1, <1>3, InnermostCall
<1>6. /\ Append(t, x) \in Seq(T) /\ Len(Append(t, x)) = Len(s)
      /\ \A i \in 1 .. Len(s) - 1 : Append(t, x)[i] = t[i]
      /\ Append(t, x)[Len(s)] = x
  BY <1>1, <1>2, <1>4, AppendParts
<1>7. \A i \in 1..Len(s) : Tail(a)[i] = Append(t, x)[i]
  <2>. TAKE i \in 1..Len(s)
  <2>1. CASE i = Len(s)
    BY <1>1, <1>3, <1>5, <1>6, <2>1
  <2>2. CASE i # Len(s)
    <3>1. i \in 1 .. Len(s) - 1 /\ i + 1 \in 1..Len(s)
      BY <1>1, <2>2
    <3>2. Tail(a)[i] = s[i + 1]
      BY <1>1, <1>3, <1>5, <3>1
    <3>3. Append(t, x)[i] = s[i + 1]
      BY <1>2, <1>4, <1>6, <3>1
    <3>. QED
      BY <3>2, <3>3
  <2>. QED
    BY <2>1, <2>2
<1>8. Tail(a) = Append(t, x)
  BY <1>5, <1>6, <1>7, SeqEqual
<1>. QED
  BY <1>3, <1>4, <1>8

OwnLines == [b \in Branches |-> OwnInherit(b)]
OwnIncludes == [b \in Branches |-> OwnBranches(b)]

Overridden(inh, branches, own) ==
  \A i \in 1..Len(branches) : \A s \in DOMAIN own[branches[i]] :
    (\A j \in i + 1 .. Len(branches) : s \notin DOMAIN own[branches[j]]) =>
      s \in DOMAIN inh /\ inh[s] = own[branches[i]][s]

Collects(bot, seen, top, own) ==
  /\ seen # <<>> /\ Distinct(seen) /\ seen[1] = top /\ bot.branch = top
  /\ bot.branches = Tail(seen) /\ Overridden(bot.inherit, Tail(seen), own)

Included(c, seen, includes) ==
  /\ c.branch \notin ToSet(seen) /\ includes[c.branch] = <<c.branch>>
  /\ c.left \in {<<>>, <<c.branch>>} /\ c.branches = <<>> /\ c.inherit = <<>>

Collected(calls, got, seen, target, top, own, includes) ==
  /\ Len(calls) \in {1, 2} /\ Collects(calls[Len(calls)], seen, top, own)
  /\ Len(calls) = 1 => got = ToSet(seen) /\ AppendNew(seen, calls[1].left) = target
  /\ Len(calls) = 2 => /\ Included(calls[1], seen, includes)
                       /\ got = ToSet(seen) \cup {calls[1].branch}
                       /\ AppendNew(Append(seen, calls[1].branch), calls[2].left) = target

OverrideInv ==
  ~Nested =>
    /\ phase \in Parsing =>
         \E seen \in Seq(Branches) :
           Collected(parsing, got_branches, seen, AppendNew(<<>>, OwnBranches(world.top)),
                     world.top, OwnLines, OwnIncludes)
    /\ phase \notin Parsing =>
         structure.branches = Reverse(Ascending) /\ Overridden(structure.inherit, Ascending, OwnLines)

LEMMA OverriddenBy ==
  ASSUME NEW T, NEW branches \in Seq(T), NEW b \in T, NEW own, NEW inh, NEW more,
         Overridden(inh, branches, own), DOMAIN more = DOMAIN own[b],
         \A s \in DOMAIN own[b] : more[s] = own[b][s]
  PROVE  Overridden(Update(inh, more), Append(branches, b), own)
<1>. DEFINE bs == Append(branches, b)
            L == Len(branches)
            new == Update(inh, more)
<1>1. /\ Len(bs) = L + 1 /\ L \in Nat /\ \A i \in 1..L : bs[i] = branches[i]
      /\ bs[L + 1] = b
  BY AppendParts
<1>2. /\ DOMAIN new = DOMAIN inh \cup DOMAIN own[b]
      /\ \A s \in DOMAIN own[b] : new[s] = own[b][s]
      /\ \A s \in DOMAIN inh : s \notin DOMAIN own[b] => new[s] = inh[s]
  BY DEF Update
<1>. HIDE DEF bs, new
<1>3. ASSUME NEW i \in 1..Len(bs), NEW s \in DOMAIN own[bs[i]],
             \A j \in i + 1 .. Len(bs) : s \notin DOMAIN own[bs[j]]
      PROVE  s \in DOMAIN new /\ new[s] = own[bs[i]][s]
  <2>1. CASE i = L + 1
    BY <1>1, <1>2, <1>3, <2>1
  <2>2. CASE i # L + 1
    <3>1. i \in 1..L /\ L + 1 \in i + 1 .. Len(bs)
      BY <1>1, <2>2
    <3>2. s \notin DOMAIN own[b]
      BY <1>1, <1>3, <3>1
    <3>3. \A j \in i + 1 .. L : s \notin DOMAIN own[branches[j]]
      <4>. TAKE j \in i + 1 .. L
      <4>1. j \in i + 1 .. Len(bs) /\ j \in 1..L
        BY <1>1, <3>1
      <4>. QED
        BY <1>1, <1>3, <4>1
    <3>4. s \in DOMAIN inh /\ inh[s] = own[branches[i]][s]
      BY <1>1, <3>1, <3>3 DEF Overridden
    <3>. QED
      BY <1>1, <1>2, <3>1, <3>2, <3>4
  <2>. QED
    BY <2>1, <2>2
<1>4. Overridden(new, bs, own)
  BY <1>3 DEF Overridden
<1>. QED
  BY <1>4 DEF new, bs

LEMMA AllIncluded ==
  ASSUME world \in Worlds, NEW target, target = AppendNew(<<>>, OwnBranches(world.top))
  PROVE  /\ target \in Seq(Branches) /\ Distinct(target) /\ target # <<>>
         /\ target[1] = world.top /\ world.top \in Branches
         /\ ToSet(target) = ToSet(OwnBranches(world.top))
         /\ <<world.top>> \in Seq(Branches) /\ Distinct(<<world.top>>)
         /\ AppendNew(<<world.top>>, OwnBranches(world.top)) = target
         /\ Ascending = Append(Tail(target), world.top) /\ Ascending \in Seq(Branches)
         /\ ~Nested => \A b \in ToSet(target) \ {world.top} : OwnBranches(b) = <<b>>
<1>. DEFINE top == world.top
            O == OwnBranches(top)
<1>1. /\ top \in Branches /\ O \in Seq(Branches) /\ O # <<>> /\ O[1] = top
      /\ <<>> \in Seq(Branches) /\ <<top>> \in Seq(Branches)
  <2>1. top \in Branches
    BY CollectionsAssumption DEF Branches
  <2>2. O \in Seq(Branches) /\ O # <<>> /\ O[1] = top
    BY <2>1, OwnBranchesTyped
  <2>. QED
    BY <2>1, <2>2
<1>2. Distinct(<<>>) /\ Distinct(<<top>>) /\ ToSet(<<>>) = {} /\ ToSet(<<top>>) = {top}
  BY ToSetProperties DEF Distinct
<1>. HIDE DEF O, top
<1>3. /\ target \in Seq(Branches) /\ Distinct(target) /\ ToSet(target) = ToSet(O)
  <2>1. target = AppendNew(<<>>, O)
    BY DEF O, top
  <2>. QED
    <3>1. /\ AppendNew(<<>>, O) \in Seq(Branches)
          /\ ToSet(AppendNew(<<>>, O)) = ToSet(<<>>) \cup ToSet(O)
          /\ Distinct(<<>>) => Distinct(AppendNew(<<>>, O))
      <4>1. PICK e \in Seq(Branches) : e = <<>>
        BY <1>1
      <4>2. O \in Seq(Branches)
        BY <1>1
      <4>3. /\ AppendNew(e, O) \in Seq(Branches)
            /\ ToSet(AppendNew(e, O)) = ToSet(e) \cup ToSet(O)
            /\ Distinct(e) => Distinct(AppendNew(e, O))
        BY <4>2, AppendNewProperties
      <4>. QED
        BY <4>1, <4>3
    <3>. QED
      BY <1>2, <2>1, <3>1
<1>4. WithNew(<<>>, top) = <<top>> /\ WithNew(<<top>>, top) = <<top>>
  <2>1. top \in Branches /\ <<>> \in Seq(Branches) /\ <<top>> \in Seq(Branches)
    BY <1>1
  <2>2. top \notin ToSet(<<>>) /\ top \in ToSet(<<top>>)
    BY <1>2
  <2>3. WithNew(<<>>, top) = Append(<<>>, top)
    <3>1. PICK e \in Seq(Branches) : e = <<>>
      BY <1>1
    <3>2. ~Contains(e, top)
      BY <2>2, <3>1, ToSetProperties
    <3>3. WithNew(e, top) = Append(e, top)
      BY <3>2 DEF WithNew
    <3>. QED
      BY <3>1, <3>3
  <2>4. WithNew(<<top>>, top) = <<top>>
    BY <2>1, <2>2, WithNewProperties, Zenon
  <2>. QED
    BY <2>3, <2>4
<1>5. AppendNew(<<>>, O) = AppendNew(<<top>>, Tail(O))
  <2>1. AppendNew(<<>>, O) = AppendNew(WithNew(<<>>, O[1]), Tail(O))
    BY <1>1, AppendNewRest
  <2>. QED
    BY <1>1, <1>4, <2>1
<1>6. AppendNew(<<top>>, O) = AppendNew(<<top>>, Tail(O))
  <2>1. AppendNew(<<top>>, O) = AppendNew(WithNew(<<top>>, O[1]), Tail(O))
    BY <1>1, AppendNewRest
  <2>. QED
    BY <1>1, <1>4, <2>1
<1>7. target # <<>> /\ target[1] = top
  <2>1. Tail(O) \in Seq(Branches)
    BY <1>1, InnermostCall
  <2>2. <<top>> # <<>> /\ <<top>>[1] = top
    OBVIOUS
  <2>3. AppendNew(<<top>>, Tail(O)) # <<>> /\ AppendNew(<<top>>, Tail(O))[1] = <<top>>[1]
    BY <1>1, <2>1, <2>2, AppendNewFirst
  <2>. QED
    BY <1>5, <2>2, <2>3 DEF O, top
<1>8. Ascending = Append(Tail(target), top)
  BY DEF Ascending, O, top
<1>9. Tail(target) \in Seq(Branches) /\ ToSet(target) = {top} \cup ToSet(Tail(target))
  <2>1. ToSet(target) = {target[1]} \cup ToSet(Tail(target))
    BY <1>3, <1>7, ToSetTail
  <2>. QED
    BY <1>3, <1>7, <2>1, InnermostCall
<1>10. Ascending \in Seq(Branches) /\ ToSet(Ascending) = ToSet(target)
  <2>. PICK t \in Seq(Branches) : t = Tail(target)
    BY <1>9
  <2>1. Append(t, top) \in Seq(Branches) /\ ToSet(Append(t, top)) = ToSet(t) \cup {top}
    <3>1. top \in Branches
      BY <1>1
    <3>2. ToSet(Append(t, top)) = ToSet(t) \cup {top}
      BY ToSetAppend
    <3>. QED
      BY <3>1, <3>2
  <2>. QED
    BY <1>8, <1>9, <2>1
<1>11. ASSUME ~Nested, NEW b \in ToSet(target) \ {top} PROVE OwnBranches(b) = <<b>>
  <2>1. ~(Len(OwnBranches(b)) > 1)
    BY <1>10, <1>11 DEF Nested, top
  <2>2. b \in Branches
    BY <1>3, <1>11, ToSetProperties
  <2>3. PICK s \in Seq(Branches) : s = OwnBranches(b) /\ s # <<>> /\ s[1] = b
    BY <1>1, <2>2, OwnBranchesTyped
  <2>4. Len(s) = 1
    <3>. DEFINE n == Len(s)
    <3>1. n \in Nat /\ n # 0
      BY <2>3, EmptySeq
    <3>2. ~(n > 1)
      BY <2>1, <2>3
    <3>. HIDE DEF n
    <3>3. n = 1
      BY <3>1, <3>2
    <3>. QED
      BY <3>3 DEF n
  <2>5. s = <<s[1]>>
    BY <2>4
  <2>. QED
    BY <2>3, <2>5
<1>12. AppendNew(<<top>>, O) = target
  BY <1>5, <1>6 DEF O, top
<1>. QED
  BY <1>1, <1>2, <1>3, <1>7, <1>8, <1>10, <1>11, <1>12 DEF O, top

(* A step of the top branch's call takes the first of what is left.        *)
LEMMA TakeBranch ==
  ASSUME NEW T, NEW seen \in Seq(T), NEW left \in Seq(T), left # <<>>
  PROVE  /\ Head(left) \in ToSet(seen) => AppendNew(seen, left) = AppendNew(seen, Tail(left))
         /\ Head(left) \notin ToSet(seen) =>
              AppendNew(seen, left) = AppendNew(Append(seen, Head(left)), Tail(left))
         /\ Head(left) \in ToSet(AppendNew(seen, left)) /\ Head(left) \in T
<1>1. left[1] \in T /\ Head(left) = left[1] /\ left[1] \in ToSet(left)
  BY ToSetTail
<1>2. AppendNew(seen, left) = AppendNew(WithNew(seen, left[1]), Tail(left))
  BY AppendNewRest
<1>3. /\ left[1] \in ToSet(seen) => WithNew(seen, left[1]) = seen
      /\ left[1] \notin ToSet(seen) => WithNew(seen, left[1]) = Append(seen, left[1])
  BY <1>1, WithNewProperties
<1>4. ToSet(AppendNew(seen, left)) = ToSet(seen) \cup ToSet(left)
  BY AppendNewProperties
<1>. QED
  BY <1>1, <1>2, <1>3, <1>4

LEMMA CollectBranch ==
  ASSUME ParseInv, ~Nested, IncludeBranch, NEW seen \in Seq(Branches),
         NEW target, target = AppendNew(<<>>, OwnBranches(world.top)),
         Collected(parsing, got_branches, seen, target, world.top, OwnLines, OwnIncludes)
  PROVE  Collected(parsing', got_branches', seen, target, world.top, OwnLines, OwnIncludes)
<1>. DEFINE c == parsing[1]
            child == Head(c.left)
            later == [c EXCEPT !.left = Tail(@)]
            rest == <<later>> \o Tail(parsing)
            L == Len(parsing)
<1>1. /\ parsing \in Seq(CallType(world)) /\ parsing # <<>> /\ world \in Worlds
      /\ c.left # <<>>
  BY DEF IncludeBranch, ParseInv
<1>2. /\ c \in CallType(world) /\ Tail(parsing) \in Seq(CallType(world))
      /\ Len(Tail(parsing)) = L - 1 /\ L \in {1, 2}
      /\ \A i \in 1 .. L - 1 : Tail(parsing)[i] = parsing[i + 1]
  <2>1. L \in {1, 2}
    BY DEF Collected
  <2>. QED
    BY <1>1, <2>1, InnermostCall
<1>3. c.left \in Seq(Branches)
  BY <1>2 DEF CallType, Branches
<1>4. child \in Branches /\ Tail(c.left) \in Seq(Branches)
  BY <1>1, <1>3, HeadTailProperties
<1>5. /\ later \in CallType(world) /\ later.inherit = c.inherit /\ later.branches = c.branches
      /\ later.branch = c.branch /\ later.left = Tail(c.left)
  BY <1>2, <1>4 DEF CallType, Branches
<1>6. /\ child \in got_branches => parsing' = rest /\ got_branches' = got_branches
      /\ child \notin got_branches => /\ parsing' = <<ParseCall(child)>> \o rest
                                      /\ got_branches' = got_branches \cup {child}
  BY DEF IncludeBranch
<1>. HIDE DEF later, c, rest, child
<1>7. /\ rest \in Seq(CallType(world)) /\ Len(rest) = L /\ rest[1] = later
      /\ \A i \in 2..L : rest[i] = Tail(parsing)[i - 1]
  <2>1. /\ rest \in Seq(CallType(world)) /\ Len(rest) = (L - 1) + 1 /\ rest[1] = later
        /\ \A i \in 2 .. (L - 1) + 1 : rest[i] = Tail(parsing)[i - 1]
    BY <1>2, <1>5, OnTop DEF rest
  <2>2. (L - 1) + 1 = L
    BY <1>2
  <2>. QED
    BY <2>1, <2>2
<1>8. CASE L = 1
  <2>1. /\ Collects(c, seen, world.top, OwnLines) /\ got_branches = ToSet(seen)
        /\ AppendNew(seen, c.left) = target
    BY <1>8 DEF Collected, c
  <2>2. Collects(later, seen, world.top, OwnLines)
    BY <1>5, <2>1 DEF Collects
  <2>3. /\ child \in ToSet(seen) => target = AppendNew(seen, Tail(c.left))
        /\ child \notin ToSet(seen) => target = AppendNew(Append(seen, child), Tail(c.left))
        /\ child \in ToSet(target)
    BY <1>1, <1>3, <2>1, TakeBranch DEF c, child
  <2>4. CASE child \in got_branches
    <3>1. parsing' = rest /\ got_branches' = ToSet(seen)
      BY <1>6, <2>1, <2>4
    <3>2. Len(rest) = 1 /\ rest[1] = later /\ later.left = Tail(c.left)
      BY <1>5, <1>7, <1>8
    <3>3. AppendNew(seen, later.left) = target
      BY <2>1, <2>3, <2>4, <3>2
    <3>. QED
      BY <2>2, <3>1, <3>2, <3>3 DEF Collected
  <2>5. CASE child \notin got_branches
    <3>1. ParseCall(child) \in CallType(world)
      BY <1>1, <1>4, ParseCallTyped
    <3>2. /\ Len(parsing') = L + 1 /\ parsing'[1] = ParseCall(child)
          /\ \A i \in 2 .. L + 1 : parsing'[i] = rest[i - 1]
      BY <1>6, <1>7, <2>5, <3>1, OnTop
    <3>3. Len(parsing') = 2 /\ parsing'[2] = later
      BY <1>7, <1>8, <3>2
    <3>4. OwnBranches(child) = <<child>>
      <4>1. world.top \in ToSet(seen)
        <5>1. seen # <<>> /\ seen[1] = world.top
          BY <2>1 DEF Collects
        <5>. QED
          BY <5>1, ToSetTail
      <4>2. child \in ToSet(target) \ {world.top}
        BY <2>1, <2>3, <2>5, <4>1
      <4>. QED
        BY <1>1, <4>2, AllIncluded
    <3>5. /\ ParseCall(child).branch = child /\ ParseCall(child).left = <<child>>
          /\ ParseCall(child).branches = <<>> /\ ParseCall(child).inherit = <<>>
      BY <3>4 DEF ParseCall
    <3>6. Included(ParseCall(child), seen, OwnIncludes)
      BY <1>4, <2>1, <2>5, <3>4, <3>5 DEF Included, OwnIncludes
    <3>. QED
      BY <1>5, <1>6, <2>1, <2>2, <2>3, <2>5, <3>2, <3>3, <3>5, <3>6 DEF Collected
  <2>. QED
    BY <2>4, <2>5
<1>9. CASE L = 2
  <2>1. /\ Collects(parsing[2], seen, world.top, OwnLines) /\ Included(c, seen, OwnIncludes)
        /\ got_branches = ToSet(seen) \cup {c.branch}
        /\ AppendNew(Append(seen, c.branch), parsing[2].left) = target
    BY <1>9 DEF Collected, c
  <2>2. c.left = <<c.branch>>
    BY <1>1, <2>1 DEF Included
  <2>3. child = c.branch /\ Tail(c.left) = <<>>
    BY <2>2 DEF child
  <2>4. parsing' = rest /\ got_branches' = got_branches
    BY <1>6, <2>1, <2>3
  <2>5. rest[2] = parsing[2]
    <3>1. 2 \in 2..L /\ 2 - 1 = 1 /\ 1 \in 1 .. L - 1 /\ 1 + 1 = 2
      BY <1>9
    <3>2. rest[2] = Tail(parsing)[1]
      BY <1>7, <3>1
    <3>3. Tail(parsing)[1] = parsing[2]
      BY <1>2, <3>1
    <3>. QED
      BY <3>2, <3>3
  <2>6. Included(later, seen, OwnIncludes)
    BY <1>5, <2>1, <2>3 DEF Included
  <2>. QED
    BY <1>5, <1>7, <1>9, <2>1, <2>4, <2>5, <2>6 DEF Collected
<1>. QED
  BY <1>2, <1>8, <1>9

(* The call of an included branch returns to that of the top one.          *)
LEMMA AttachBranch ==
  ASSUME ParseInv, ~Nested, FinishBranch, Len(parsing) # 1, NEW seen \in Seq(Branches),
         NEW target, target = AppendNew(<<>>, OwnBranches(world.top)),
         Collected(parsing, got_branches, seen, target, world.top, OwnLines, OwnIncludes)
  PROVE  \E more \in Seq(Branches) :
           Collected(parsing', got_branches', more, target, world.top, OwnLines, OwnIncludes)
<1>. DEFINE c == parsing[1]
            bot == parsing[2]
            cb == c.branch
            parsed == Parsed(c)
            w == With(bot, parsed)
            more == Append(seen, cb)
<1>1. /\ Len(parsing) = 2 /\ Collects(bot, seen, world.top, OwnLines)
      /\ Included(c, seen, OwnIncludes) /\ got_branches = ToSet(seen) \cup {cb}
      /\ AppendNew(more, bot.left) = target
  BY DEF Collected
<1>2. /\ parsing \in Seq(CallType(world)) /\ world \in Worlds
      /\ c \in CallType(world) /\ bot \in CallType(world)
  <2>1. parsing \in Seq(CallType(world)) /\ world \in Worlds
    BY DEF FinishBranch, ParseInv
  <2>2. 1 \in 1..Len(parsing) /\ 2 \in 1..Len(parsing)
    BY <1>1
  <2>. QED
    BY <2>1, <2>2
<1>3. parsing' = <<w>> /\ got_branches' = got_branches
  <2>1. parsing' = <<w>> \o Tail(Tail(parsing)) /\ got_branches' = got_branches
    BY DEF FinishBranch
  <2>2. Tail(Tail(parsing)) = <<>>
    <3>1. parsing # <<>>
      BY <1>1
    <3>2. Tail(parsing) \in Seq(CallType(world)) /\ Len(Tail(parsing)) = Len(parsing) - 1
      BY <1>2, <3>1, InnermostCall
    <3>6. Len(Tail(parsing)) = 1
      BY <1>1, <3>2
    <3>3. PICK t \in Seq(CallType(world)) : t = Tail(parsing) /\ Len(t) = 1 /\ t # <<>>
      <4>1. PICK t \in Seq(CallType(world)) : t = Tail(parsing)
        BY <3>2
      <4>2. Len(t) = 1
        BY <3>6, <4>1
      <4>3. t # <<>>
        BY <4>2, EmptySeq
      <4>. QED
        BY <4>1, <4>2, <4>3
    <3>4. Tail(t) \in Seq(CallType(world)) /\ Len(Tail(t)) = Len(t) - 1
      BY <3>3, InnermostCall
    <3>5. Len(Tail(t)) = 0
      BY <3>3, <3>4
    <3>. QED
      BY <3>3, <3>4, <3>5, EmptySeq
  <2>3. <<w>> \o <<>> = <<w>>
    OBVIOUS
  <2>. QED
    BY <2>1, <2>2, <2>3
<1>4. cb \in Branches /\ OwnBranches(cb) = <<cb>> /\ cb \notin ToSet(seen)
      /\ c.branches = <<>> /\ c.inherit = <<>> /\ OwnLines[cb] = OwnInherit(cb)
  BY <1>1, <1>2 DEF Included, OwnIncludes, OwnLines, CallType, Branches
<1>5. parsed.branches = <<cb>> /\ parsed.inherit = Update(<<>>, OwnInherit(cb))
  <2>1. AppendNew(<<>>, <<cb>>) = <<cb>>
    <3>1. PICK e \in Seq(Branches) : e = <<>>
      BY EmptySeq
    <3>2. ~Contains(e, cb)
      BY <3>1, ToSetProperties
    <3>3. AppendNew(e, <<cb>>) = WithNew(e, cb)
      BY <1>4, AppendNewOne
    <3>. QED
      BY <3>1, <3>2, <3>3 DEF WithNew
  <2>2. Reverse(<<cb>>) = <<cb>>
    BY DEF Reverse
  <2>. QED
    BY <1>4, <2>1, <2>2 DEF Parsed
<1>6. /\ DOMAIN parsed.inherit = DOMAIN OwnLines[cb]
      /\ \A s \in DOMAIN OwnLines[cb] : parsed.inherit[s] = OwnLines[cb][s]
  BY <1>4, <1>5 DEF Update
<1>. HIDE DEF parsed
<1>7. /\ seen # <<>> /\ Distinct(seen) /\ seen[1] = world.top /\ bot.branch = world.top
      /\ bot.branches = Tail(seen) /\ Overridden(bot.inherit, Tail(seen), OwnLines)
  BY <1>1 DEF Collects
<1>8. /\ more \in Seq(Branches) /\ more # <<>> /\ Distinct(more) /\ more[1] = world.top
      /\ ToSet(more) = ToSet(seen) \cup {cb} /\ Tail(more) = Append(Tail(seen), cb)
  <2>1. /\ more \in Seq(Branches) /\ ToSet(more) = ToSet(seen) \cup {cb}
        /\ Len(more) = Len(seen) + 1 /\ \A i \in 1..Len(seen) : more[i] = seen[i]
    BY <1>4, AppendParts
  <2>2. Distinct(more)
    BY <1>4, <1>7, DistinctAppend
  <2>3. Tail(more) = Append(Tail(seen), cb)
    BY <1>4, <1>7, TailAppend
  <2>4. 1 \in 1..Len(seen) /\ Len(more) # 0
    BY <1>7, <2>1, EmptySeq
  <2>. QED
    BY <1>7, <2>1, <2>2, <2>3, <2>4
<1>. HIDE DEF more
<1>9. AppendNew(Tail(seen), <<cb>>) = Tail(more)
  <2>1. PICK t \in Seq(Branches) : t = Tail(seen) /\ ToSet(t) \subseteq ToSet(seen)
    BY <1>7, ToSetTail, InnermostCall
  <2>4. cb \notin ToSet(t)
    BY <1>4, <2>1
  <2>2. ~Contains(t, cb)
    <3>. HIDE DEF cb
    <3>. QED
      BY <2>4, ToSetProperties
  <2>3. AppendNew(t, <<cb>>) = WithNew(t, cb)
    BY <1>4, AppendNewOne
  <2>. QED
    BY <1>8, <2>1, <2>2, <2>3 DEF WithNew
<1>10. /\ w.branch = bot.branch /\ w.left = bot.left /\ w.branches = Tail(more)
       /\ w.inherit = Update(bot.inherit, parsed.inherit)
  <2>. DEFINE x == bot.names \o parsed.names
              y == Update(bot.inherit, parsed.inherit)
              z == AppendNew(bot.branches, parsed.branches)
  <2>1. w = [bot EXCEPT !.names = x, !.inherit = y, !.branches = z]
    BY DEF With
  <2>2. z = Tail(more)
    BY <1>5, <1>7, <1>9
  <2>. HIDE DEF x, y, z, w
  <2>3. w.branch = bot.branch /\ w.left = bot.left /\ w.branches = z /\ w.inherit = y
    BY <1>2, <2>1 DEF CallType
  <2>. QED
    BY <2>2, <2>3 DEF y
<1>. HIDE DEF w
<1>11. Overridden(w.inherit, Tail(more), OwnLines)
  <2>1. PICK t \in Seq(Branches) : t = Tail(seen)
    BY <1>7, InnermostCall
  <2>2. Overridden(Update(bot.inherit, parsed.inherit), Append(t, cb), OwnLines)
    BY <1>4, <1>6, <1>7, <2>1, OverriddenBy
  <2>. QED
    BY <1>8, <1>10, <2>1, <2>2
<1>12. Collects(w, more, world.top, OwnLines)
  BY <1>7, <1>8, <1>10, <1>11 DEF Collects
<1>13. Len(<<w>>) = 1 /\ <<w>>[1] = w
  OBVIOUS
<1>14. Collected(parsing', got_branches', more, target, world.top, OwnLines, OwnIncludes)
  BY <1>1, <1>3, <1>8, <1>10, <1>12, <1>13 DEF Collected
<1>. QED
  BY <1>8, <1>14

(* The top branch comes last.                                              *)
LEMMA AttachTop ==
  ASSUME ParseInv, ~Nested, FinishBranch, Len(parsing) = 1, NEW seen \in Seq(Branches),
         Collected(parsing, got_branches, seen, AppendNew(<<>>, OwnBranches(world.top)),
                   world.top, OwnLines, OwnIncludes)
  PROVE  /\ structure'.branches = Reverse(Ascending)
         /\ Overridden(structure'.inherit, Ascending, OwnLines)
<1>. DEFINE target == AppendNew(<<>>, OwnBranches(world.top))
            O == OwnBranches(world.top)
            top == world.top
            c == parsing[1]
<1>1. /\ Collects(c, seen, top, OwnLines) /\ AppendNew(seen, c.left) = target
      /\ world \in Worlds /\ c.left = <<>> /\ structure' = Parsed(c)
  BY DEF Collected, FinishBranch, ParseInv
<1>2. /\ target \in Seq(Branches) /\ Distinct(target) /\ target # <<>> /\ target[1] = top
      /\ top \in Branches /\ ToSet(target) = ToSet(O) /\ Ascending = Append(Tail(target), top)
  BY <1>1, AllIncluded
<1>3. O \in Seq(Branches) /\ O # <<>> /\ O[1] = top /\ OwnLines[top] = OwnInherit(top)
  BY <1>1, <1>2, OwnBranchesTyped DEF OwnLines
<1>. HIDE DEF target, O, top, c
<1>4. target = seen
  <2>1. PICK e \in Seq(Branches) : e = <<>> /\ ToSet(e) \subseteq ToSet(seen)
    BY EmptySeq, ToSetProperties
  <2>2. AppendNew(seen, e) = seen
    BY <2>1, AppendNewProperties
  <2>. QED
    BY <1>1, <2>1, <2>2
<1>5. /\ c.branch = top /\ c.branches = Tail(target)
      /\ Overridden(c.inherit, Tail(target), OwnLines)
  BY <1>1, <1>4 DEF Collects
<1>6. PICK t \in Seq(Branches) : t = Tail(target) /\ ToSet(target) = {top} \cup ToSet(t)
                                 /\ top \notin ToSet(t)
  <2>1. /\ Tail(target) \in Seq(Branches) /\ ToSet(target) = {top} \cup ToSet(Tail(target))
        /\ Len(Tail(target)) = Len(target) - 1
        /\ \A i \in 1 .. Len(target) - 1 : Tail(target)[i] = target[i + 1]
    BY <1>2, InnermostCall, ToSetTail
  <2>2. DOMAIN target = 1..Len(target) /\ 1 \in 1..Len(target) /\ Len(target) \in Nat
    BY <1>2, EmptySeq
  <2>3. top \notin ToSet(Tail(target))
    <3>1. ASSUME NEW i \in 1 .. Len(target) - 1 PROVE Tail(target)[i] # top
      <4>1. i + 1 \in 1..Len(target) /\ i + 1 # 1
        BY <2>2
      <4>. QED
        BY <1>2, <2>1, <2>2, <4>1 DEF Distinct
    <3>2. DOMAIN Tail(target) = 1 .. Len(target) - 1
      BY <2>1
    <3>. QED
      BY <3>1, <3>2 DEF ToSet
  <2>. QED
    BY <2>1, <2>3
<1>7. AppendNew(t, O) = Ascending
  <2>1. AppendNew(t, O) = AppendNew(WithNew(t, O[1]), Tail(O))
    BY <1>3, AppendNewRest
  <2>2. WithNew(t, top) = Append(t, top)
    BY <1>6, ToSetProperties DEF WithNew
  <2>3. Append(t, top) \in Seq(Branches) /\ ToSet(Append(t, top)) = ToSet(t) \cup {top}
    BY <1>2, AppendParts
  <2>4. Tail(O) \in Seq(Branches) /\ ToSet(Tail(O)) \subseteq ToSet(O)
    BY <1>3, InnermostCall, ToSetTail
  <2>5. PICK a \in Seq(Branches) : a = Append(t, top)
    BY <2>3
  <2>6. PICK r \in Seq(Branches) : r = Tail(O)
    BY <2>4
  <2>7. ToSet(r) \subseteq ToSet(a)
    BY <1>2, <1>6, <2>3, <2>4, <2>5, <2>6
  <2>8. AppendNew(a, r) = a
    BY <2>7, AppendNewProperties
  <2>. QED
    BY <1>2, <1>3, <1>6, <2>1, <2>2, <2>5, <2>6, <2>8
<1>8. structure'.branches = Reverse(Ascending)
  BY <1>1, <1>5, <1>6, <1>7 DEF Parsed, O, top
<1>9. Overridden(Update(c.inherit, OwnInherit(top)), Append(t, top), OwnLines)
  BY <1>2, <1>3, <1>5, <1>6, OverriddenBy
<1>10. structure'.inherit = Update(c.inherit, OwnInherit(top))
  BY <1>1, <1>5 DEF Parsed, top
<1>. QED
  BY <1>2, <1>6, <1>8, <1>9, <1>10

LEMMA OwnStay ==
  ASSUME world' = world
  PROVE  /\ OwnLines' = OwnLines /\ OwnIncludes' = OwnIncludes /\ Branches' = Branches
         /\ (OwnBranches(world.top))' = OwnBranches(world.top)
         /\ Ascending' = Ascending /\ Nested' = Nested
<1>1. ASSUME NEW b PROVE OwnBranches(b)' = OwnBranches(b) /\ OwnInherit(b)' = OwnInherit(b)
  BY DEF OwnBranches, OwnInherit, OwnNames, LinesOf
<1>2. Branches' = Branches
  BY DEF Branches
<1>3. (OwnBranches(world.top))' = OwnBranches(world.top)
  BY DEF OwnBranches, LinesOf
<1>4. Ascending' = Ascending
  BY <1>3 DEF Ascending
<1>5. Nested' = Nested
  BY <1>1, <1>4 DEF Nested
<1>6. OwnLines' = OwnLines /\ OwnIncludes' = OwnIncludes
  BY <1>1, <1>2 DEF OwnLines, OwnIncludes
<1>. QED
  BY <1>2, <1>3, <1>4, <1>5, <1>6

LEMMA OverrideAlways == RdependsSpec => []OverrideInv
<1>1. RdependsInit => OverrideInv
  <2>. SUFFICES ASSUME RdependsInit, ~Nested PROVE OverrideInv
    BY DEF OverrideInv
  <2>. DEFINE top == world.top
              c == ParseCall(top)
  <2>1. world \in Worlds /\ parsing = <<c>> /\ got_branches = {top} /\ phase \in Parsing
    BY DEF RdependsInit, Init, StructureInit, Parsing
  <2>2. /\ <<top>> \in Seq(Branches) /\ Distinct(<<top>>) /\ top \in Branches
        /\ AppendNew(<<top>>, OwnBranches(top)) = AppendNew(<<>>, OwnBranches(top))
    BY <2>1, AllIncluded
  <2>3. /\ c.branch = top /\ c.left = OwnBranches(top) /\ c.branches = <<>> /\ c.inherit = <<>>
    BY DEF ParseCall
  <2>. HIDE DEF c, top
  <2>4. Len(<<c>>) = 1 /\ <<c>>[1] = c /\ <<top>> # <<>> /\ <<top>>[1] = top /\ Tail(<<top>>) = <<>>
    OBVIOUS
  <2>5. Overridden(<<>>, <<>>, OwnLines)
    BY DEF Overridden
  <2>6. Collects(c, <<top>>, top, OwnLines)
    BY <2>2, <2>3, <2>4, <2>5 DEF Collects
  <2>7. Collected(parsing, got_branches, <<top>>, AppendNew(<<>>, OwnBranches(top)), top, OwnLines,
                  OwnIncludes)
    BY <2>1, <2>2, <2>3, <2>4, <2>6, ToSetProperties DEF Collected
  <2>. QED
    BY <2>1, <2>2, <2>7 DEF OverrideInv, top
<1>2. ParseInv /\ OverrideInv /\ [RdependsNext]_rdependsAllVars => OverrideInv'
  <2>. SUFFICES ASSUME ParseInv, OverrideInv, [RdependsNext]_rdependsAllVars, ~Nested,
                       world' = world
                PROVE  OverrideInv'
    <3>1. ASSUME [RdependsNext]_rdependsAllVars PROVE world' = world
      BY <3>1, StructureSteps DEF StructureNext, addExtras
    <3>. QED
      BY <3>1, OwnStay DEF OverrideInv
  <2>. DEFINE target == AppendNew(<<>>, OwnBranches(world.top))
  <2>1. /\ OwnLines' = OwnLines /\ OwnIncludes' = OwnIncludes /\ Branches' = Branches
        /\ target' = target /\ Ascending' = Ascending /\ Nested' = Nested
    <3>1. (AppendNew(<<>>, OwnBranches(world.top)))' = AppendNew(<<>>, (OwnBranches(world.top))')
      BY DEF AppendNew
    <3>. QED
      BY <3>1, OwnStay
  <2>2. phase \in Parsing => \E seen \in Seq(Branches) :
          Collected(parsing, got_branches, seen, target, world.top, OwnLines, OwnIncludes)
    BY DEF OverrideInv
  <2>3. ASSUME phase \notin Parsing, phase' \notin Parsing, structure' = structure
        PROVE  OverrideInv'
    BY <2>1, <2>3 DEF OverrideInv
  <2>4. ASSUME phase \in Parsing, phase' \in Parsing, parsing' = parsing,
               got_branches' = got_branches
        PROVE  OverrideInv'
    BY <2>1, <2>2, <2>4 DEF OverrideInv
  <2>5. CASE GoesOn /\ UNCHANGED <<world, structureVars>>
    <3>1. phase \in Parsing <=> phase' \in Parsing
      BY <2>5 DEF GoesOn, Parsing, Early, Late
    <3>2. structure' = structure /\ parsing' = parsing /\ got_branches' = got_branches
      BY <2>5 DEF structureVars, parseVars
    <3>. QED
      BY <2>3, <2>4, <3>1, <3>2
  <2>6. CASE addExtras
    BY <2>3, <2>6 DEF addExtras, parseVars, Parsing
  <2>7. CASE IncludeBranch
    <3>1. phase \in Parsing /\ phase' \in Parsing
      BY <2>7 DEF IncludeBranch, Parsing
    <3>2. PICK seen \in Seq(Branches) :
            Collected(parsing, got_branches, seen, target, world.top, OwnLines, OwnIncludes)
      BY <2>2, <3>1
    <3>3. Collected(parsing', got_branches', seen, target, world.top, OwnLines, OwnIncludes)
      BY <2>7, <3>2, CollectBranch
    <3>. QED
      BY <2>1, <3>1, <3>3 DEF OverrideInv
  <2>8. CASE FinishBranch
    <3>1. phase \in Parsing
      BY <2>8 DEF FinishBranch, Parsing
    <3>2. PICK seen \in Seq(Branches) :
            Collected(parsing, got_branches, seen, target, world.top, OwnLines, OwnIncludes)
      BY <2>2, <3>1
    <3>3. CASE Len(parsing) # 1
      <4>1. phase' \in Parsing
        BY <2>8, <3>3 DEF FinishBranch, Parsing
      <4>2. \E more \in Seq(Branches) :
              Collected(parsing', got_branches', more, target, world.top, OwnLines, OwnIncludes)
        BY <2>8, <3>2, <3>3, AttachBranch
      <4>. QED
        BY <2>1, <4>1, <4>2 DEF OverrideInv
    <3>4. CASE Len(parsing) = 1
      <4>1. phase' \notin Parsing
        BY <2>8, <3>4 DEF FinishBranch, Parsing
      <4>2. /\ structure'.branches = Reverse(Ascending)
            /\ Overridden(structure'.inherit, Ascending, OwnLines)
        BY <2>8, <3>2, <3>4, AttachTop
      <4>. QED
        BY <2>1, <4>1, <4>2 DEF OverrideInv
    <3>. QED
      BY <3>3, <3>4
  <2>9. CASE /\ PopItem \/ VisitParent \/ PopNode \/ StartExpanding \/ ExpandInheritance
                \/ addSeedPackage \/ StartPlanting
             /\ UNCHANGED parseVars
    BY <2>3, <2>9 DEF PopItem, VisitParent, Popped, PopNode, StartExpanding, ExpandInheritance,
                      addSeedPackage, StartPlanting, parseVars, Parsing
  <2>. QED
    BY <2>5, <2>6, <2>7, <2>8, <2>9, StructureSteps DEF StructureNext
<1>. QED
  BY <1>1, <1>2, ParseAlways, PTL DEF RdependsSpec

LEMMA LaterOverride ==
  ASSUME ParseInv, OverrideInv PROVE LaterBranchesOverride
<1>. SUFFICES ASSUME phase = "plant", ~Nested, NEW s
              PROVE  LET texts == {b \in ToSet(Ascending) : s \in DOMAIN world.branches[b].texts}
                         lines == {b \in ToSet(Ascending) : s \in DOMAIN OwnInherit(b)}
                     IN /\ texts # {} => BranchesWith(s)[1] = Latest(texts)
                        /\ lines # {} => structure.inherit[s] = OwnInherit(Latest(lines))[s]
  BY DEF LaterBranchesOverride
<1>. DEFINE A == Ascending
            L == Len(A)
            texts == {b \in ToSet(A) : s \in DOMAIN world.branches[b].texts}
            lines == {b \in ToSet(A) : s \in DOMAIN OwnInherit(b)}
            At(set) == {i \in DOMAIN A : A[i] \in set}
<1>1. /\ structure.branches = Reverse(A) /\ Overridden(structure.inherit, A, OwnLines)
      /\ world \in Worlds /\ A \in Seq(Branches)
  <2>1. world \in Worlds
    BY DEF ParseInv
  <2>. QED
    BY <2>1, AllIncluded DEF OverrideInv, Parsing
<1>. HIDE DEF A
<1>2. L \in Nat /\ DOMAIN A = 1..L /\ ToSet(A) = {A[i] : i \in 1..L} /\ ToSet(A) \subseteq Branches
  BY <1>1, ToSetProperties DEF ToSet
<1>. HIDE DEF L
<1>3. ASSUME NEW set, set \subseteq ToSet(A), set # {}
      PROVE  /\ Max(At(set)) \in 1..L /\ A[Max(At(set))] \in set
             /\ Latest(set) = A[Max(At(set))]
             /\ \A j \in Max(At(set)) + 1 .. L : A[j] \notin set
  <2>1. At(set) \in SUBSET (1..L) /\ At(set) # {}
    BY <1>2, <1>3
  <2>. DEFINE S == At(set)
  <2>2. \A i \in S : i \in 1..L /\ A[i] \in set
    BY <1>2
  <2>3. \A i \in 1..L : A[i] \in set => i \in S
    BY <1>2
  <2>4. Latest(set) = A[Max(S)]
    BY DEF Latest, A
  <2>. HIDE DEF S
  <2>5. Max(S) \in S /\ \A x \in S : Max(S) >= x
    BY <1>2, <2>1, GreatestPosition DEF S
  <2>6. \A j \in Max(S) + 1 .. L : A[j] \notin set
    BY <1>2, <2>2, <2>3, <2>5
  <2>. QED
    BY <2>2, <2>4, <2>5, <2>6 DEF S
<1>4. ASSUME lines # {} PROVE structure.inherit[s] = OwnInherit(Latest(lines))[s]
  <2>. DEFINE m == Max(At(lines))
  <2>1. /\ m \in 1..L /\ A[m] \in lines /\ Latest(lines) = A[m]
        /\ \A j \in m + 1 .. L : A[j] \notin lines
    <3>. DEFINE set == lines
    <3>1. set \subseteq ToSet(A)
      OBVIOUS
    <3>. HIDE DEF set
    <3>. QED
      BY <1>3, <1>4, <3>1 DEF set
  <2>. HIDE DEF m
  <2>2. \A j \in m + 1 .. L : j \in 1..L /\ A[j] \in ToSet(A)
    BY <1>2, <2>1
  <2>3. \A b \in ToSet(A) : OwnLines[b] = OwnInherit(b)
    BY <1>2 DEF OwnLines
  <2>4. s \in DOMAIN OwnLines[A[m]] /\ \A j \in m + 1 .. L : s \notin DOMAIN OwnLines[A[j]]
    BY <2>1, <2>2, <2>3
  <2>5. structure.inherit[s] = OwnLines[A[m]][s]
    BY <1>1, <2>1, <2>4 DEF Overridden, L
  <2>. QED
    BY <2>1, <2>3, <2>5
<1>5. ASSUME texts # {} PROVE BranchesWith(s)[1] = Latest(texts)
  <2>. DEFINE m == Max(At(texts))
              R == Reverse(A)
              set == {b \in Branches : s \in DOMAIN world.branches[b].texts}
              k == L - m + 1
  <2>1. /\ m \in 1..L /\ A[m] \in texts /\ Latest(texts) = A[m]
        /\ \A j \in m + 1 .. L : A[j] \notin texts
    <3>. DEFINE some == texts
    <3>1. some \subseteq ToSet(A)
      OBVIOUS
    <3>. HIDE DEF some
    <3>. QED
      BY <1>3, <1>5, <3>1 DEF some
  <2>. HIDE DEF m
  <2>2. /\ R \in Seq(Branches) /\ Len(R) = L /\ \A i \in 1..L : R[i] = A[L - i + 1]
    BY <1>1, ToSetReverse DEF L
  <2>3. \A b \in ToSet(A) : b \in texts <=> b \in set
    BY <1>2
  <2>4. \A j \in 1..L : A[j] \in ToSet(A)
    BY <1>2
  <2>5. BranchesWith(s) = Keep(R, set)
    BY <1>1 DEF BranchesWith
  <2>. HIDE DEF R, set, texts
  <2>6. k \in 1..L /\ L - k + 1 = m /\ \A j \in 1 .. k - 1 : j \in 1..L /\ L - j + 1 \in m + 1 .. L
                                                             /\ L - j + 1 \in 1..L
    BY <1>2, <2>1
  <2>. HIDE DEF k
  <2>7. R[k] = A[m] /\ R[k] \in set
    BY <2>1, <2>2, <2>3, <2>4, <2>6
  <2>8. \A j \in 1 .. k - 1 : R[j] \notin set
    BY <2>1, <2>2, <2>3, <2>4, <2>6
  <2>9. Keep(R, set)[1] = R[k]
    <3>1. k \in 1..Len(R)
      BY <2>2, <2>6
    <3>2. R[k] \in set
      BY <2>7
    <3>. QED
      BY <2>2, <2>8, <3>1, <3>2, KeepFirst
  <2>. QED
    BY <2>1, <2>5, <2>7, <2>9
<1>. QED
  BY <1>4, <1>5 DEF A

(* The structure that germinate works with is in topological order, each   *)
(* seed inherits exactly its ancestors, cycles are reported, and later     *)
(* branches override earlier ones: for every collection of branches, every *)
(* order popitem takes the nodes in, and any --seed-packages (seeds.py,    *)
(* tsort.py).                                                              *)
THEOREM StructureIsInOrder == RdependsSpec => []StructureInOrder
<1>1. ParseInv /\ PlantInv /\ CycleInv /\ OverrideInv => StructureInOrder
  BY SortedIsClosed, LaterOverride DEF StructureInOrder
<1>. QED
  BY <1>1, ParseAlways, PlantAlways, CycleAlways, OverrideAlways, PTL
=============================================================================
