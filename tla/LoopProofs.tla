----------------------------- MODULE LoopProofs -----------------------------
(***************************************************************************)
(* Lemmas about what scripts do in loops: appending what they keep to a    *)
(* list, joining lists, replacing words.  Each loop is a fold, which is    *)
(* unrolled to its steps and reasoned about by induction over the set of   *)
(* the lengths for which a fact holds.                                     *)
(***************************************************************************)
EXTENDS Loops, Integers, WellFoundedInduction, SequenceTheorems, TLAPS

-----------------------------------------------------------------------------
(* Induction, for sets *)

\* Induction over the natural numbers, for a set of them.
LEMMA NatSet ==
    ASSUME NEW T, 0 \in T, \A n \in Nat : n \in T => n + 1 \in T
    PROVE  Nat \subseteq T
<1>. SUFFICES ASSUME Nat \ T # {} PROVE FALSE
  OBVIOUS
<1>1. PICK n \in Nat \ T : \A m \in Nat \ T : ~(<<m, n>> \in OpToRel(<, Nat))
  BY WFMin, NatLessThanWellFounded
<1>2. n # 0
  OBVIOUS
<1>3. n - 1 \in Nat /\ n - 1 < n /\ (n - 1) + 1 = n
  BY <1>2
<1>4. n - 1 \notin T
  BY <1>3
<1>5. <<n - 1, n>> \in OpToRel(<, Nat)
  BY <1>3 DEF OpToRel
<1>. QED
  BY <1>1, <1>3, <1>4, <1>5

\* Induction over sequences that grow at their end.
LEMMA SeqInduction ==
    ASSUME NEW S, NEW T, <<>> \in T, \A s \in Seq(S), e \in S : s \in T => Append(s, e) \in T
    PROVE  Seq(S) \subseteq T
<1>. DEFINE N == {n \in Nat : \A s \in Seq(S) : Len(s) = n => s \in T}
<1>1. 0 \in N
  BY EmptySeq
<1>2. ASSUME NEW n \in Nat, n \in N PROVE n + 1 \in N
  <2>. SUFFICES ASSUME NEW s \in Seq(S), Len(s) = n + 1 PROVE s \in T
    OBVIOUS
  <2>1. s # <<>>
    BY EmptySeq
  <2>2. PICK t \in Seq(S), e \in S : s = Append(t, e)
    BY <2>1, SequenceEmptyOrAppend
  <2>3. Len(s) = Len(t) + 1 /\ Len(t) \in Nat
    BY <2>2, AppendProperties, LenProperties
  <2>4. t \in T
    BY <1>2, <2>3
  <2>. QED BY <2>2, <2>4
<1>. HIDE DEF N
<1>3. Nat \subseteq N
  BY <1>1, <1>2, NatSet
<1>. QED BY <1>3, LenProperties DEF N

-----------------------------------------------------------------------------
(* Folds *)

\* A set of indices has a largest one.
LEMMA MaxIn ==
    ASSUME NEW n \in Nat, NEW D \in SUBSET (1..n), D # {}
    PROVE  Max(D) \in D /\ Max(D) \in 1..n
<1>. DEFINE Has(E) == \E x \in E : \A y \in E : x >= y
            T == {k \in Nat : \A E \in SUBSET (1..k) : E = {} \/ Has(E)}
<1>1. 0 \in T
  OBVIOUS
<1>2. ASSUME NEW k \in Nat, k \in T PROVE k + 1 \in T
  <2>. SUFFICES ASSUME NEW E \in SUBSET (1..(k + 1)), E # {} PROVE Has(E)
    OBVIOUS
  <2>1. CASE k + 1 \in E
    <3>1. \A y \in E : k + 1 >= y
      OBVIOUS
    <3>. QED BY <2>1, <3>1
  <2>2. CASE k + 1 \notin E
    <3>1. E \in SUBSET (1..k)
      BY <2>2
    <3>. QED BY <3>1, <1>2
  <2>. QED BY <2>1, <2>2
<1>. HIDE DEF T
<1>3. n \in T
  BY <1>1, <1>2, NatSet
<1>4. Has(D)
  BY <1>3 DEF T
<1>. QED BY <1>4 DEF Max

\* The largest of the first n is n.
LEMMA MaxOfRange ==
    ASSUME NEW n \in Nat, n # 0
    PROVE  Max(1..n) = n /\ (1..n) \ {n} = 1..(n - 1)
<1>1. \A x \in 1..n : (\A y \in 1..n : x >= y) <=> x = n
  OBVIOUS
<1>. QED BY <1>1 DEF Max

\* What FoldLeft iterates over the sets of indices, for a step that is a function.
Iterates(f, St, base, n, G) ==
    /\ f \in [SUBSET (1..n) -> St]
    /\ \A D \in SUBSET (1..n) :
          f[D] = IF D = {} THEN base ELSE G[<<f[D \ {Max(D)}], Max(D)>>]

\* A step that is a function can be iterated, whatever the sets.
LEMMA IterExists ==
    ASSUME NEW St, NEW base \in St, NEW n \in Nat, NEW G \in [St \X (1..n) -> St]
    PROVE  \E f : Iterates(f, St, base, n, G)
<1>. DEFINE T == {k \in Nat : k <= n => \E f : Iterates(f, St, base, k, G)}
<1>1. 0 \in T
  <2>. DEFINE f == [D \in SUBSET (1..0) |-> base]
  <2>1. Iterates(f, St, base, 0, G)
    BY DEF Iterates
  <2>. QED BY <2>1
<1>2. ASSUME NEW k \in Nat, k \in T PROVE k + 1 \in T
  <2>. SUFFICES ASSUME k + 1 <= n PROVE \E f : Iterates(f, St, base, k + 1, G)
    OBVIOUS
  <2>1. PICK f : Iterates(f, St, base, k, G)
    BY <1>2
  <2>. DEFINE g == [D \in SUBSET (1..(k + 1)) |->
                      IF k + 1 \in D THEN G[<<f[D \ {k + 1}], k + 1>>] ELSE f[D]]
  <2>2. ASSUME NEW D \in SUBSET (1..(k + 1))
        PROVE  /\ g[D] \in St
               /\ g[D] = IF D = {} THEN base ELSE G[<<g[D \ {Max(D)}], Max(D)>>]
    <3>1. CASE k + 1 \in D
      <4>1. Max(D) = k + 1
        <5>1. \A x \in D : (\A y \in D : x >= y) <=> x = k + 1
          BY <3>1
        <5>2. \E x \in D : \A y \in D : x >= y
          BY <3>1, <5>1
        <5>. QED BY <5>1, <5>2 DEF Max
      <4>. DEFINE R == D \ {k + 1}
      <4>2. R \in SUBSET (1..k) /\ R \in SUBSET (1..(k + 1)) /\ k + 1 \notin R
        OBVIOUS
      <4>3. g[R] = f[R] /\ f[R] \in St
        BY <2>1, <4>2 DEF Iterates
      <4>. QED BY <3>1, <4>1, <4>3
    <3>2. CASE k + 1 \notin D
      <4>1. D \in SUBSET (1..k)
        BY <3>2
      <4>. DEFINE R == D \ {Max(D)}
      <4>2. R \in SUBSET (1..k) /\ R \in SUBSET (1..(k + 1)) /\ k + 1 \notin R
        <5>1. R \subseteq D
          OBVIOUS
        <5>. HIDE DEF R
        <5>. QED BY <3>2, <4>1, <5>1
      <4>3. g[R] = f[R] /\ g[D] = f[D]
        BY <3>2, <4>2
      <4>. QED BY <2>1, <4>1, <4>3 DEF Iterates
    <3>. QED BY <3>1, <3>2
  <2>3. g = [D \in SUBSET (1..(k + 1)) |-> g[D]]
    OBVIOUS
  <2>. HIDE DEF g
  <2>4. Iterates(g, St, base, k + 1, G)
    BY <2>2, <2>3 DEF Iterates
  <2>. QED BY <2>4
<1>. HIDE DEF T
<1>3. n \in T
  BY <1>1, <1>2, NatSet
<1>. QED BY <1>3 DEF T

\* The first k indices are a set of indices.
LEMMA PrefixIn ==
    ASSUME NEW n \in Nat, NEW k \in 1..n
    PROVE  1..k \in SUBSET (1..n) /\ 1..k # {}
  OBVIOUS

-----------------------------------------------------------------------------
(* Sequences *)

\* A function on the first k numbers is a sequence.
LEMMA LenOf ==
    ASSUME NEW S, NEW k \in Nat, NEW n \in [1..k -> S]
    PROVE  n \in Seq(S) /\ Len(n) = k
<1>1. n \in Seq(S)
  BY SeqDef
<1>2. DOMAIN n = 1..Len(n) /\ Len(n) \in Nat
  BY <1>1, LenProperties
<1>. QED BY <1>1, <1>2

\* A function on the indices of a sequence is a sequence.
LEMMA SeqOver ==
    ASSUME NEW S, NEW T, NEW s \in Seq(S), NEW f, f = [i \in DOMAIN s |-> f[i]],
           \A i \in DOMAIN s : f[i] \in T
    PROVE  f \in Seq(T) /\ Len(f) = Len(s) /\ DOMAIN f = DOMAIN s
<1>1. PICK n \in Nat : n = Len(s) /\ DOMAIN s = 1..n
  BY LenProperties
<1>2. f \in [1..n -> T]
  BY <1>1
<1>. QED BY <1>1, <1>2, LenOf

\* What Append adds, and what it leaves.
LEMMA AppendFacts ==
    ASSUME NEW S, NEW s \in Seq(S), NEW e \in S
    PROVE  /\ Append(s, e) \in Seq(S)
           /\ DOMAIN Append(s, e) = DOMAIN s \cup {Len(s) + 1}
           /\ Len(s) + 1 \notin DOMAIN s
           /\ \A j \in DOMAIN s : Append(s, e)[j] = s[j]
           /\ Append(s, e)[Len(s) + 1] = e
<1>1. /\ Append(s, e) \in Seq(S)
      /\ Len(Append(s, e)) = Len(s) + 1
      /\ \A j \in 1..Len(s) : Append(s, e)[j] = s[j]
      /\ Append(s, e)[Len(s) + 1] = e
  BY AppendProperties
<1>2. Len(s) \in Nat /\ DOMAIN s = 1..Len(s) /\ DOMAIN Append(s, e) = 1..(Len(s) + 1)
  BY <1>1, LenProperties
<1>. QED BY <1>1, <1>2

\* What a concatenation has.
LEMMA ConcatFacts ==
    ASSUME NEW S, NEW s \in Seq(S), NEW t \in Seq(S)
    PROVE  /\ s \o t \in Seq(S)
           /\ ToSet(s \o t) = ToSet(s) \cup ToSet(t)
           /\ \A e : Once(s, e) /\ Once(t, e) /\ e \notin ToSet(s) \cap ToSet(t) => Once(s \o t, e)
<1>. DEFINE u == s \o t
<1>1. /\ u \in Seq(S) /\ Len(u) = Len(s) + Len(t)
      /\ \A i \in 1..(Len(s) + Len(t)) : u[i] = IF i <= Len(s) THEN s[i] ELSE t[i - Len(s)]
  BY ConcatProperties
<1>2. PICK m \in Nat, n \in Nat : m = Len(s) /\ n = Len(t)
  BY LenProperties
<1>3. DOMAIN s = 1..m /\ DOMAIN t = 1..n /\ DOMAIN u = 1..(m + n)
  BY <1>1, <1>2, LenProperties
<1>. HIDE DEF u
<1>4. /\ \A i \in 1..m : i \in 1..(m + n) /\ u[i] = s[i]
      /\ \A i \in 1..n : m + i \in 1..(m + n) /\ u[m + i] = t[i]
  <2>1. \A i \in 1..n : m + i \in 1..(m + n) /\ ~(m + i <= m) /\ (m + i) - m = i
    OBVIOUS
  <2>2. \A i \in 1..m : i \in 1..(m + n) /\ i <= m
    OBVIOUS
  <2>3. ASSUME NEW i \in 1..m PROVE i \in 1..(m + n) /\ u[i] = s[i]
    BY <1>1, <1>2, <2>2
  <2>4. ASSUME NEW i \in 1..n PROVE m + i \in 1..(m + n) /\ u[m + i] = t[i]
    <3>1. u[m + i] = t[(m + i) - m]
      BY <1>1, <1>2, <2>1
    <3>. QED BY <2>1, <3>1
  <2>. QED BY <2>3, <2>4
<1>5. ASSUME NEW i \in 1..(m + n)
      PROVE  \/ i \in 1..m /\ u[i] = s[i]
             \/ i - m \in 1..n /\ i \notin 1..m /\ u[i] = t[i - m]
  <2>1. \/ i \in 1..m /\ i <= m
        \/ i - m \in 1..n /\ i \notin 1..m /\ ~(i <= m)
    OBVIOUS
  <2>. QED BY <1>1, <1>2, <2>1
<1>6. ToSet(u) = ToSet(s) \cup ToSet(t)
  BY <1>3, <1>4, <1>5 DEF ToSet
<1>7. ASSUME NEW e, Once(s, e), Once(t, e), e \notin ToSet(s) \cap ToSet(t)
      PROVE  Once(u, e)
  <2>. SUFFICES ASSUME NEW i \in 1..(m + n), NEW j \in 1..(m + n), u[i] = e, u[j] = e PROVE i = j
    BY <1>3 DEF Once
  <2>1. \A k \in 1..m, l \in 1..n : s[k] # e \/ t[l] # e
    BY <1>3, <1>7 DEF ToSet
  <2>2. \/ i \in 1..m /\ j \in 1..m /\ s[i] = e /\ s[j] = e
        \/ i - m \in 1..n /\ j - m \in 1..n /\ t[i - m] = e /\ t[j - m] = e
    BY <1>5, <2>1
  <2>3. i - m = j - m => i = j
    OBVIOUS
  <2>. QED BY <1>3, <1>7, <2>2, <2>3 DEF Once
<1>. QED BY <1>1, <1>6, <1>7 DEF u

-----------------------------------------------------------------------------
(* What a loop keeps *)

\* What a loop does with one element.
Keep(kept, e, K) == IF e \in K THEN Append(kept, e) ELSE kept

\* The loop of Kept, element by element.
LEMMA KeptSteps ==
    ASSUME NEW S, NEW list \in Seq(S), NEW K
    PROVE  \E r : /\ r[0] = <<>>
                  /\ \A k \in 1..Len(list) : r[k] = Keep(r[k - 1], list[k], K)
                  /\ Kept(list, K) = r[Len(list)]
<1>. DEFINE n == Len(list)
            Is(f) == f = [D \in SUBSET (1..n) |-> IF D = {} THEN <<>>
                            ELSE Keep(f[D \ {Max(D)}], list[Max(D)], K)]
            G == [p \in Seq(S) \X (1..n) |-> Keep(p[1], list[p[2]], K)]
            c == CHOOSE f : Is(f)
<1>1. n \in Nat /\ DOMAIN list = 1..n /\ \A k \in 1..n : list[k] \in S
  BY LenProperties, ElementOfSeq
<1>2. G \in [Seq(S) \X (1..n) -> Seq(S)]
  <2>1. \A s \in Seq(S), e \in S : Keep(s, e, K) \in Seq(S)
    BY DEF Keep
  <2>. QED BY <1>1, <2>1
<1>3. <<>> \in Seq(S)
  OBVIOUS
<1>4. PICK f : Iterates(f, Seq(S), <<>>, n, G)
  <2>. HIDE DEF G, n
  <2>. QED BY <1>1, <1>2, <1>3, IterExists
<1>5. ASSUME NEW D \in SUBSET (1..n)
      PROVE  f[D] = IF D = {} THEN <<>> ELSE Keep(f[D \ {Max(D)}], list[Max(D)], K)
  <2>1. CASE D = {}
    BY <1>4, <2>1 DEF Iterates
  <2>2. CASE D # {}
    <3>1. Max(D) \in 1..n /\ D \ {Max(D)} \in SUBSET (1..n)
      <4>. HIDE DEF n
      <4>. QED BY <1>1, <2>2, MaxIn
    <3>2. f[D \ {Max(D)}] \in Seq(S)
      BY <1>4, <3>1 DEF Iterates
    <3>3. f[D] = G[<<f[D \ {Max(D)}], Max(D)>>]
      BY <1>4, <2>2 DEF Iterates
    <3>. QED BY <2>2, <3>1, <3>2, <3>3
  <2>. QED BY <2>1, <2>2
<1>6. Is(f)
  <2>1. f = [D \in SUBSET (1..n) |-> f[D]]
    BY <1>4 DEF Iterates
  <2>. QED BY <1>5, <2>1
<1>7. Is(c)
  <2>. HIDE DEF Is
  <2>. QED BY <1>6
<1>8. Kept(list, K) = c[1..n]
  BY <1>1 DEF Kept, FoldLeft, MapThenFoldSet, Keep
<1>9. c[1..0] = <<>> /\ \A k \in 1..n : c[1..k] = Keep(c[1..(k - 1)], list[k], K)
  <2>. HIDE DEF c
  <2>1. \A D \in SUBSET (1..n) :
           c[D] = IF D = {} THEN <<>> ELSE Keep(c[D \ {Max(D)}], list[Max(D)], K)
    BY <1>7
  <2>2. 1..0 = {}
    OBVIOUS
  <2>3. ASSUME NEW k \in 1..n PROVE c[1..k] = Keep(c[1..(k - 1)], list[k], K)
    <3>1. Max(1..k) = k /\ (1..k) \ {k} = 1..(k - 1)
      BY <1>1, MaxOfRange
    <3>2. 1..k \in SUBSET (1..n) /\ 1..k # {}
      <4>. HIDE DEF n
      <4>. QED BY <1>1
    <3>. QED BY <2>1, <3>1, <3>2
  <2>. QED BY <2>1, <2>2, <2>3
<1>. DEFINE r == [k \in 0..n |-> c[1..k]]
<1>10. r[0] = <<>> /\ (\A k \in 1..n : r[k] = Keep(r[k - 1], list[k], K)) /\ Kept(list, K) = r[n]
  <2>. HIDE DEF c
  <2>1. \A k \in 0..n : r[k] = c[1..k]
    OBVIOUS
  <2>2. \A k \in 1..n : k \in 0..n /\ k - 1 \in 0..n
    BY <1>1
  <2>3. 0 \in 0..n /\ n \in 0..n
    BY <1>1
  <2>. HIDE DEF r
  <2>. QED BY <1>8, <1>9, <2>1, <2>2, <2>3
<1>. HIDE DEF r
<1>. QED BY <1>10

\* What has been kept of the first k elements: those in K, each as often as it is there.
KeptSoFar(list, K, S, k, s) ==
    /\ s \in Seq(S)
    /\ \A j \in DOMAIN s : \E i \in 1..k : s[j] = list[i] /\ list[i] \in K
    /\ \A i \in 1..k : list[i] \in K => \E j \in DOMAIN s : s[j] = list[i]
    /\ IsInjective(list) => IsInjective(s)

\* One more element.
LEMMA KeptNext ==
    ASSUME NEW S, NEW list \in Seq(S), NEW K, NEW k \in 1..Len(list),
           NEW s, KeptSoFar(list, K, S, k - 1, s)
    PROVE  KeptSoFar(list, K, S, k, Keep(s, list[k], K))
<1>1. /\ k \in Nat /\ list[k] \in S /\ DOMAIN list = 1..Len(list)
      /\ \A i \in 1..(k - 1) : i \in 1..k /\ i \in 1..Len(list) /\ i # k
      /\ \A i \in 1..k : i = k \/ i \in 1..(k - 1)
      /\ k \in 1..k
  BY LenProperties, ElementOfSeq
<1>2. CASE list[k] \notin K
  BY <1>1, <1>2 DEF KeptSoFar, Keep
<1>3. CASE list[k] \in K
  <2>. DEFINE t == Append(s, list[k])
              l == Len(s) + 1
  <2>1. Keep(s, list[k], K) = t /\ s \in Seq(S)
    BY <1>3 DEF Keep, KeptSoFar
  <2>2. /\ t \in Seq(S) /\ DOMAIN t = DOMAIN s \cup {l} /\ l \notin DOMAIN s
        /\ (\A j \in DOMAIN s : t[j] = s[j]) /\ t[l] = list[k]
    BY <1>1, <2>1, AppendFacts
  <2>. HIDE DEF t, l
  <2>3. ASSUME NEW j \in DOMAIN t PROVE \E i \in 1..k : t[j] = list[i] /\ list[i] \in K
    BY <1>1, <1>3, <2>2, SMTT(30) DEF KeptSoFar
  <2>4. ASSUME NEW i \in 1..k, list[i] \in K PROVE \E j \in DOMAIN t : t[j] = list[i]
    BY <1>1, <2>2, <2>4 DEF KeptSoFar
  <2>5. ASSUME IsInjective(list) PROVE IsInjective(t)
    <3>1. IsInjective(s)
      BY <2>5 DEF KeptSoFar
    <3>2. ASSUME NEW j \in DOMAIN s PROVE s[j] # list[k]
      BY <1>1, <2>5 DEF KeptSoFar, IsInjective
    <3>. QED BY <2>2, <3>1, <3>2 DEF IsInjective
  <2>. QED BY <2>1, <2>2, <2>3, <2>4, <2>5 DEF KeptSoFar
<1>. QED BY <1>2, <1>3

\* A loop keeps the elements of a list that are in a set, each as often as it is there.
LEMMA KeptFacts ==
    ASSUME NEW S, NEW list \in Seq(S), NEW K
    PROVE  LET kept == Kept(list, K)
           IN  /\ kept \in Seq(S)
               /\ \A j \in DOMAIN kept : \E i \in DOMAIN list : kept[j] = list[i] /\ list[i] \in K
               /\ \A i \in DOMAIN list : list[i] \in K => \E j \in DOMAIN kept : kept[j] = list[i]
               /\ IsInjective(list) => IsInjective(kept)
<1>1. PICK r : /\ r[0] = <<>>
               /\ \A k \in 1..Len(list) : r[k] = Keep(r[k - 1], list[k], K)
               /\ Kept(list, K) = r[Len(list)]
  BY KeptSteps
<1>. DEFINE T == {k \in Nat : k <= Len(list) => KeptSoFar(list, K, S, k, r[k])}
<1>2. 0 \in T
  <2>1. KeptSoFar(list, K, S, 0, <<>>)
    BY DEF KeptSoFar, IsInjective
  <2>. QED BY <1>1, <2>1
<1>3. ASSUME NEW k \in Nat, k \in T PROVE k + 1 \in T
  <2>. SUFFICES ASSUME k + 1 <= Len(list) PROVE KeptSoFar(list, K, S, k + 1, r[k + 1])
    OBVIOUS
  <2>1. k + 1 \in 1..Len(list) /\ (k + 1) - 1 = k /\ KeptSoFar(list, K, S, k, r[k])
    BY <1>3, LenProperties
  <2>2. r[k + 1] = Keep(r[k], list[k + 1], K)
    BY <1>1, <2>1
  <2>3. KeptSoFar(list, K, S, k + 1, Keep(r[k], list[k + 1], K))
    BY <2>1, KeptNext
  <2>. QED BY <2>2, <2>3
<1>. HIDE DEF T
<1>4. Len(list) \in T
  BY <1>2, <1>3, NatSet, LenProperties
<1>5. KeptSoFar(list, K, S, Len(list), Kept(list, K))
  BY <1>1, <1>4, LenProperties DEF T
<1>6. DOMAIN list = 1..Len(list)
  BY LenProperties
<1>. QED BY <1>5, <1>6 DEF KeptSoFar

-----------------------------------------------------------------------------
(* Sequences of sequences *)

\* The loop of FlattenSeq, sequence by sequence.
LEMMA FlattenSteps ==
    ASSUME NEW seqs, NEW n \in Nat, Len(seqs) = n, n # 0
    PROVE  \E r : /\ r[1] = seqs[1]
                  /\ \A k \in 2..n : r[k] = r[k - 1] \o seqs[k]
                  /\ FlattenSeq(seqs) = r[n]
<1>. DEFINE Is(f, m) == f = [i \in 1..m |-> IF i = 1 THEN seqs[i] ELSE f[i - 1] \o seqs[i]]
            T == {k \in Nat : \E f : Is(f, k)}
            c == CHOOSE f : Is(f, n)
<1>1. 0 \in T
  <2>. DEFINE f == [i \in 1..0 |-> <<>>]
  <2>1. Is(f, 0)
    OBVIOUS
  <2>. QED BY <2>1
<1>2. ASSUME NEW k \in Nat, k \in T PROVE k + 1 \in T
  <2>1. PICK f : Is(f, k)
    BY <1>2
  <2>. DEFINE g == [i \in 1..(k + 1) |->
                      IF i = 1 THEN seqs[i] ELSE (IF i = k + 1 THEN f[k] ELSE f[i - 1]) \o seqs[i]]
  <2>2. ASSUME NEW i \in 1..(k + 1), i # 1
        PROVE  g[i - 1] = IF i = k + 1 THEN f[k] ELSE f[i - 1]
    <3>1. i - 1 \in 1..k /\ i - 1 \in 1..(k + 1) /\ i - 1 # k + 1
      BY <2>2
    <3>2. f[i - 1] = IF i - 1 = 1 THEN seqs[i - 1] ELSE f[(i - 1) - 1] \o seqs[i - 1]
      BY <2>1, <3>1
    <3>3. g[i - 1] = IF i - 1 = 1 THEN seqs[i - 1] ELSE f[(i - 1) - 1] \o seqs[i - 1]
      BY <3>1
    <3>4. i = k + 1 => i - 1 = k
      OBVIOUS
    <3>. QED BY <3>2, <3>3, <3>4
  <2>3. \A i \in 1..(k + 1) : g[i] = IF i = 1 THEN seqs[i] ELSE g[i - 1] \o seqs[i]
    BY <2>2
  <2>4. g = [i \in 1..(k + 1) |-> g[i]]
    OBVIOUS
  <2>. HIDE DEF g
  <2>5. Is(g, k + 1)
    BY <2>3, <2>4
  <2>. HIDE DEF Is
  <2>. QED BY <2>5
<1>. HIDE DEF T
<1>3. n \in T
  BY <1>1, <1>2, NatSet
<1>4. \E f : Is(f, n)
  BY <1>3 DEF T
<1>5. Is(c, n)
  <2>. HIDE DEF Is
  <2>. QED BY <1>4
<1>6. FlattenSeq(seqs) = c[n]
  BY DEF FlattenSeq
<1>. HIDE DEF c
<1>7. c[1] = seqs[1] /\ \A k \in 2..n : c[k] = c[k - 1] \o seqs[k]
  <2>1. \A i \in 1..n : c[i] = IF i = 1 THEN seqs[i] ELSE c[i - 1] \o seqs[i]
    BY <1>5
  <2>2. 1 \in 1..n /\ \A k \in 2..n : k \in 1..n /\ k # 1
    OBVIOUS
  <2>. QED BY <2>1, <2>2
<1>. QED BY <1>6, <1>7

\* Among some sequences, only one has e, and has it once.
OnceInAll(seqs, e) ==
    /\ \A i \in DOMAIN seqs : Once(seqs[i], e)
    /\ \A i, j \in DOMAIN seqs : i # j => e \notin ToSet(seqs[i]) \cap ToSet(seqs[j])

\* What is flattened grows with its last sequence.
LEMMA FlattenLast ==
    ASSUME NEW n \in Nat, n # 0, NEW s, NEW t, Len(s) = n, Len(t) = n + 1,
           \A k \in 1..n : t[k] = s[k]
    PROVE  FlattenSeq(t) = FlattenSeq(s) \o t[n + 1]
<1>1. PICK r : /\ r[1] = s[1]
               /\ \A k \in 2..n : r[k] = r[k - 1] \o s[k]
               /\ FlattenSeq(s) = r[n]
  BY FlattenSteps
<1>2. PICK q : /\ q[1] = t[1]
               /\ \A k \in 2..(n + 1) : q[k] = q[k - 1] \o t[k]
               /\ FlattenSeq(t) = q[n + 1]
  <2>. DEFINE m == n + 1
  <2>1. m \in Nat /\ m # 0 /\ Len(t) = m
    OBVIOUS
  <2>. HIDE DEF m
  <2>2. \E q : /\ q[1] = t[1]
               /\ \A k \in 2..m : q[k] = q[k - 1] \o t[k]
               /\ FlattenSeq(t) = q[m]
    BY <2>1, FlattenSteps
  <2>. QED BY <2>2 DEF m
<1>. DEFINE T == {k \in Nat : k + 1 <= n => q[k + 1] = r[k + 1]}
<1>3. 0 \in T
  BY <1>1, <1>2
<1>4. ASSUME NEW k \in Nat, k \in T PROVE k + 1 \in T
  <2>. SUFFICES ASSUME (k + 1) + 1 <= n PROVE q[(k + 1) + 1] = r[(k + 1) + 1]
    OBVIOUS
  <2>. DEFINE l == (k + 1) + 1
  <2>1. l \in 2..n /\ l \in 2..(n + 1) /\ l \in 1..n /\ l - 1 = k + 1 /\ k + 1 <= n
    OBVIOUS
  <2>2. q[l - 1] = r[l - 1]
    BY <1>4, <2>1
  <2>. HIDE DEF l
  <2>3. q[l] = r[l]
    BY <1>1, <1>2, <2>1, <2>2
  <2>. QED BY <2>3 DEF l
<1>. HIDE DEF T
<1>5. n - 1 \in T /\ (n - 1) + 1 = n
  BY <1>3, <1>4, NatSet
<1>6. q[n] = r[n]
  BY <1>5 DEF T
<1>7. n + 1 \in 2..(n + 1) /\ (n + 1) - 1 = n
  OBVIOUS
<1>. QED BY <1>1, <1>2, <1>6, <1>7

\* What is flattened has the elements of all sequences, and it has one once that only
\* one of them has, and that one once.
LEMMA FlattenFacts ==
    ASSUME NEW S, NEW seqs \in Seq(Seq(S))
    PROVE  /\ FlattenSeq(seqs) \in Seq(S)
           /\ ToSet(FlattenSeq(seqs)) = UNION {ToSet(seqs[i]) : i \in DOMAIN seqs}
           /\ \A e : OnceInAll(seqs, e) => Once(FlattenSeq(seqs), e)
<1>. DEFINE Flat(k, s) == /\ s \in Seq(S)
                          /\ ToSet(s) = UNION {ToSet(seqs[i]) : i \in 1..k}
                          /\ \A e : OnceInAll(seqs, e) => Once(s, e)
<1>1. PICK n \in Nat : Len(seqs) = n /\ DOMAIN seqs = 1..n /\ \A i \in 1..n : seqs[i] \in Seq(S)
  BY LenProperties, ElementOfSeq
<1>2. CASE n = 0
  <2>1. seqs = <<>> /\ FlattenSeq(seqs) = <<>>
    BY <1>1, <1>2, EmptySeq DEF FlattenSeq
  <2>2. DOMAIN <<>> = {} /\ <<>> \in Seq(S)
    OBVIOUS
  <2>3. ToSet(<<>>) = {} /\ \A e : Once(<<>>, e)
    BY <2>2 DEF ToSet, Once
  <2>4. UNION {ToSet(seqs[i]) : i \in DOMAIN seqs} = {}
    BY <2>1, <2>2
  <2>. QED BY <2>1, <2>2, <2>3, <2>4
<1>3. CASE n # 0
  <2>1. PICK r : /\ r[1] = seqs[1]
                 /\ \A k \in 2..n : r[k] = r[k - 1] \o seqs[k]
                 /\ FlattenSeq(seqs) = r[n]
    BY <1>1, <1>3, FlattenSteps
  <2>. DEFINE T == {k \in Nat : k + 1 <= n => Flat(k + 1, r[k + 1])}
  <2>2. 0 \in T
    <3>1. 1 \in 1..n /\ 1..1 = {1}
      BY <1>3
    <3>2. Flat(1, seqs[1])
      BY <1>1, <3>1 DEF OnceInAll
    <3>. HIDE DEF Flat
    <3>. QED BY <2>1, <3>2
  <2>3. ASSUME NEW k \in Nat, k \in T PROVE k + 1 \in T
    <3>. DEFINE l == k + 1
    <3>. SUFFICES ASSUME l + 1 <= n PROVE Flat(l + 1, r[l + 1])
      OBVIOUS
    <3>1. /\ l \in Nat /\ l + 1 \in 2..n /\ l + 1 \in 1..n /\ (l + 1) - 1 = l
          /\ 1..(l + 1) = (1..l) \cup {l + 1} /\ l + 1 \notin 1..l
          /\ \A i \in 1..l : i \in 1..n
      BY <1>1
    <3>2. Flat(l, r[l])
      <4>. HIDE DEF Flat
      <4>. QED BY <2>3, <3>1
    <3>. HIDE DEF l
    <3>3. r[l + 1] = r[l] \o seqs[l + 1]
      BY <2>1, <3>1
    <3>4. /\ r[l + 1] \in Seq(S) /\ ToSet(r[l + 1]) = ToSet(r[l]) \cup ToSet(seqs[l + 1])
          /\ \A e : /\ Once(r[l], e) /\ Once(seqs[l + 1], e)
                    /\ e \notin ToSet(r[l]) \cap ToSet(seqs[l + 1])
                => Once(r[l + 1], e)
      BY <1>1, <3>1, <3>2, <3>3, ConcatFacts, SMTT(30)
    <3>5. ToSet(r[l + 1]) = UNION {ToSet(seqs[i]) : i \in 1..(l + 1)}
      BY <3>1, <3>2, <3>4
    <3>6. ASSUME NEW e, OnceInAll(seqs, e) PROVE Once(r[l + 1], e)
      <4>1. e \notin ToSet(r[l]) \cap ToSet(seqs[l + 1])
        <5>1. \A i \in 1..l : e \notin ToSet(seqs[i]) \cap ToSet(seqs[l + 1])
          BY <1>1, <3>1, <3>6 DEF OnceInAll
        <5>. QED BY <3>2, <5>1
      <4>2. Once(r[l], e) /\ Once(seqs[l + 1], e)
        BY <1>1, <3>1, <3>2, <3>6 DEF OnceInAll
      <4>. QED BY <3>4, <4>1, <4>2
    <3>. QED BY <3>4, <3>5, <3>6
  <2>. HIDE DEF T
  <2>4. n - 1 \in T /\ (n - 1) + 1 = n
    BY <1>3, <2>2, <2>3, NatSet
  <2>5. Flat(n, FlattenSeq(seqs))
    <3>. HIDE DEF Flat
    <3>. QED BY <2>1, <2>4 DEF T
  <2>. QED BY <1>1, <2>5
<1>. QED BY <1>2, <1>3

-----------------------------------------------------------------------------
(* A sequence in which every element is replaced by a sequence *)

\* Each element replaced by a sequence.
Expand(s, h) == FlattenSeq([i \in DOMAIN s |-> h[s[i]]])

\* Nothing is replaced by nothing.
LEMMA ExpandEmpty == ASSUME NEW h PROVE Expand(<<>>, h) = <<>>
<1>1. [i \in DOMAIN <<>> |-> h[<<>>[i]]] = <<>>
  OBVIOUS
<1>. QED BY <1>1 DEF Expand, FlattenSeq

\* What is replaced grows with the sequence.
LEMMA ExpandAppend ==
    ASSUME NEW S, NEW h \in [S -> Seq(S)], NEW s \in Seq(S), NEW e \in S
    PROVE  Expand(Append(s, e), h) = Expand(s, h) \o h[e]
<1>. DEFINE f == [i \in DOMAIN s |-> h[s[i]]]
            g == [i \in DOMAIN Append(s, e) |-> h[Append(s, e)[i]]]
<1>1. PICK n \in Nat : n = Len(s) /\ DOMAIN s = 1..n /\ \A i \in 1..n : s[i] \in S
  BY LenProperties, ElementOfSeq
<1>2. /\ Append(s, e) \in Seq(S) /\ Len(Append(s, e)) = n + 1 /\ DOMAIN Append(s, e) = 1..(n + 1)
      /\ (\A i \in 1..n : Append(s, e)[i] = s[i]) /\ Append(s, e)[n + 1] = e
  BY <1>1, AppendProperties, LenProperties
<1>3. f \in Seq(Seq(S)) /\ Len(f) = n
  BY <1>1, LenOf
<1>4. g \in Seq(Seq(S)) /\ Len(g) = n + 1
  <2>1. \A i \in 1..(n + 1) : Append(s, e)[i] \in S
    BY <1>2, ElementOfSeq
  <2>2. g \in [1..(n + 1) -> Seq(S)]
    BY <1>2, <2>1
  <2>. HIDE DEF g
  <2>. QED BY <2>2, LenOf
<1>5. (\A i \in 1..n : g[i] = f[i]) /\ g[n + 1] = h[e]
  BY <1>1, <1>2
<1>6. CASE n = 0
  <2>1. s = <<>>
    BY <1>1, <1>6, EmptySeq
  <2>2. Expand(s, h) = <<>>
    BY <2>1, ExpandEmpty
  <2>3. FlattenSeq(g) = h[e]
    <3>. HIDE DEF g
    <3>1. PICK m \in Nat : m = 1 /\ m # 0 /\ Len(g) = m
      BY <1>4, <1>6
    <3>0. \E r : /\ r[1] = g[1]
                 /\ \A k \in 2..m : r[k] = r[k - 1] \o g[k]
                 /\ FlattenSeq(g) = r[m]
      BY <3>1, FlattenSteps
    <3>2. PICK r : r[1] = g[1] /\ FlattenSeq(g) = r[1]
      BY <3>0, <3>1
    <3>. QED BY <1>5, <1>6, <3>2
  <2>. QED BY <2>2, <2>3, ConcatEmptySeq DEF Expand
<1>7. CASE n # 0
  <2>. HIDE DEF f, g
  <2>1. FlattenSeq(g) = FlattenSeq(f) \o g[n + 1]
    BY <1>3, <1>4, <1>5, <1>7, FlattenLast
  <2>. QED BY <1>5, <2>1 DEF Expand, f, g
<1>. QED BY <1>6, <1>7

\* One element.
LEMMA ExpandOne ==
    ASSUME NEW S, NEW h \in [S -> Seq(S)], NEW e \in S
    PROVE  Expand(<<e>>, h) = h[e]
<1>1. <<e>> = Append(<<>>, e) /\ <<>> \in Seq(S)
  OBVIOUS
<1>2. Expand(Append(<<>>, e), h) = <<>> \o h[e]
  BY <1>1, ExpandAppend, ExpandEmpty
<1>. QED BY <1>1, <1>2, ConcatEmptySeq

\* What is replaced is a sequence again.
LEMMA ExpandType ==
    ASSUME NEW S, NEW h \in [S -> Seq(S)], NEW s \in Seq(S)
    PROVE  Expand(s, h) \in Seq(S)
<1>. DEFINE f == [i \in DOMAIN s |-> h[s[i]]]
<1>1. f \in Seq(Seq(S))
  <2>1. \A i \in DOMAIN s : s[i] \in S
    BY ElementOfSeq, LenProperties
  <2>2. PICK n \in Nat : DOMAIN s = 1..n
    BY LenProperties
  <2>3. f \in [1..n -> Seq(S)]
    BY <2>1, <2>2
  <2>. HIDE DEF f
  <2>. QED BY <2>3, LenOf
<1>. QED BY <1>1, FlattenFacts DEF Expand

\* Concatenation, as an operator that proofs may leave unexpanded.
Cat(a, b) == a \o b

LEMMA CatAssociative ==
    ASSUME NEW S, NEW a \in Seq(S), NEW b \in Seq(S), NEW c \in Seq(S)
    PROVE  Cat(Cat(a, b), c) = Cat(a, Cat(b, c))
BY ConcatAssociative DEF Cat

\* The parts of a sequence can be replaced on their own.
LEMMA ExpandConcat ==
    ASSUME NEW S, NEW h \in [S -> Seq(S)], NEW s \in Seq(S), NEW t \in Seq(S)
    PROVE  Expand(s \o t, h) = Expand(s, h) \o Expand(t, h)
<1>. DEFINE T == {u \in Seq(S) : Expand(s \o u, h) = Expand(s, h) \o Expand(u, h)}
<1>1. <<>> \in T
  <2>1. s \o <<>> = s /\ Expand(s, h) \o <<>> = Expand(s, h) /\ <<>> \in Seq(S)
    BY ExpandType, ConcatEmptySeq, EmptySeq
  <2>. QED BY <2>1, ExpandEmpty
<1>2. ASSUME NEW u \in Seq(S), NEW e \in S, u \in T PROVE Append(u, e) \in T
  <2>1. Append(u, e) \in Seq(S) /\ s \o u \in Seq(S)
    BY AppendProperties, ConcatProperties
  <2>2. s \o Append(u, e) = Append(s \o u, e)
    <3>1. Append(u, e) = u \o <<e>> /\ Append(s \o u, e) = (s \o u) \o <<e>> /\ <<e>> \in Seq(S)
      BY <2>1, AppendIsConcat
    <3>2. PICK last \in Seq(S) : last = <<e>>
      BY <3>1
    <3>0. Cat(Cat(s, u), last) = Cat(s, Cat(u, last))
      BY CatAssociative
    <3>3. Append(u, e) = Cat(u, <<e>>) /\ Append(s \o u, e) = Cat(Cat(s, u), <<e>>)
      BY <3>1 DEF Cat
    <3>4. s \o Append(u, e) = Cat(s, Append(u, e))
      BY DEF Cat
    <3>. QED BY <3>0, <3>2, <3>3, <3>4
  <2>3. Expand(s \o Append(u, e), h) = (Expand(s, h) \o Expand(u, h)) \o h[e]
    BY <1>2, <2>1, <2>2, ExpandAppend
  <2>4. Expand(Append(u, e), h) = Expand(u, h) \o h[e]
    BY ExpandAppend
  <2>5. Expand(s, h) \in Seq(S) /\ Expand(u, h) \in Seq(S) /\ h[e] \in Seq(S)
    BY ExpandType
  <2>6. (Expand(s, h) \o Expand(u, h)) \o h[e] = Expand(s, h) \o (Expand(u, h) \o h[e])
    <3>1. Cat(Cat(Expand(s, h), Expand(u, h)), h[e]) = Cat(Expand(s, h), Cat(Expand(u, h), h[e]))
      BY <2>5, CatAssociative
    <3>. QED BY <3>1, Zenon DEF Cat
  <2>. QED BY <2>1, <2>3, <2>4, <2>6
<1>. HIDE DEF T
<1>3. t \in T
  BY <1>1, <1>2, SeqInduction
<1>. QED BY <1>3 DEF T

\* One after the other is one that replaces by what the first brings in, replaced.
Then(S, g, h) == [e \in S |-> Expand(g[e], h)]

LEMMA ExpandTwice ==
    ASSUME NEW S, NEW g \in [S -> Seq(S)], NEW h \in [S -> Seq(S)], NEW s \in Seq(S)
    PROVE  Expand(Expand(s, g), h) = Expand(s, Then(S, g, h))
<1>. DEFINE gh == Then(S, g, h)
            T == {u \in Seq(S) : Expand(Expand(u, g), h) = Expand(u, gh)}
<1>0. gh \in [S -> Seq(S)] /\ \A e \in S : gh[e] = Expand(g[e], h)
  BY ExpandType DEF Then
<1>. HIDE DEF gh
<1>1. <<>> \in T
  BY ExpandEmpty, EmptySeq
<1>2. ASSUME NEW u \in Seq(S), NEW e \in S, u \in T PROVE Append(u, e) \in T
  <2>1. Append(u, e) \in Seq(S) /\ Expand(u, g) \in Seq(S) /\ g[e] \in Seq(S)
    BY AppendProperties, ExpandType
  <2>2. Expand(Append(u, e), g) = Expand(u, g) \o g[e]
    BY ExpandAppend
  <2>3. Expand(Expand(Append(u, e), g), h) = Expand(Expand(u, g), h) \o Expand(g[e], h)
    BY <2>1, <2>2, ExpandConcat
  <2>4. Expand(Append(u, e), gh) = Expand(u, gh) \o gh[e]
    BY <1>0, ExpandAppend
  <2>. QED BY <1>0, <1>2, <2>1, <2>3, <2>4
<1>. HIDE DEF T
<1>3. s \in T
  BY <1>1, <1>2, SeqInduction
<1>. QED BY <1>3 DEF T, gh

\* Nothing changes where every element stands for itself.
LEMMA ExpandSame ==
    ASSUME NEW S, NEW h \in [S -> Seq(S)], NEW s \in Seq(S), \A i \in DOMAIN s : h[s[i]] = <<s[i]>>
    PROVE  Expand(s, h) = s
<1>. DEFINE T == {u \in Seq(S) : (\A i \in DOMAIN u : h[u[i]] = <<u[i]>>) => Expand(u, h) = u}
<1>1. <<>> \in T
  BY ExpandEmpty, EmptySeq
<1>2. ASSUME NEW u \in Seq(S), NEW e \in S, u \in T PROVE Append(u, e) \in T
  <2>. DEFINE v == Append(u, e)
  <2>1. v \in Seq(S) /\ v = u \o <<e>> /\ Expand(v, h) = Expand(u, h) \o h[e]
    <3>1. v \in Seq(S) /\ v = u \o <<e>>
      BY AppendProperties, AppendIsConcat, Zenon
    <3>. QED BY <3>1, ExpandAppend
  <2>2. /\ DOMAIN v = DOMAIN u \cup {Len(u) + 1}
        /\ (\A j \in DOMAIN u : v[j] = u[j]) /\ v[Len(u) + 1] = e
    BY AppendFacts
  <2>. HIDE DEF v
  <2>3. ASSUME \A i \in DOMAIN v : h[v[i]] = <<v[i]>> PROVE Expand(v, h) = v
    <3>1. h[e] = <<e>> /\ \A i \in DOMAIN u : h[u[i]] = <<u[i]>>
      BY <2>2, <2>3
    <3>2. Expand(u, h) = u
      BY <1>2, <3>1
    <3>. QED BY <2>1, <3>1, <3>2
  <2>. QED BY <2>1, <2>3 DEF v
<1>. HIDE DEF T
<1>3. s \in T
  BY <1>1, <1>2, SeqInduction
<1>. QED BY <1>3 DEF T
=============================================================================
