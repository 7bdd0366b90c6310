----------------------------- MODULE SequenceLemmas -----------------------------
(***************************************************************************)
(* Lemmas about numbers, recursion, and sequences that are joined and      *)
(* folded, which the proofs about several modules need.  Induction is      *)
(* stated of sets of numbers and recursion of functions, since the         *)
(* theorems of the library have an operator as a parameter that the        *)
(* provers cannot instantiate.                                             *)
(***************************************************************************)
EXTENDS Naturals, Sequences, SequencesExt, FiniteSetsExt, FiniteSetTheorems,
        SequenceTheorems, WellFoundedInduction, TLAPS

(* Induction and recursion, and sequences joined one after the other.       *)

Smaller == {pair \in Nat \X Nat : pair[1] < pair[2]}

LEMMA SmallerIsWellFounded == IsWellFoundedOn(Smaller, Nat)
<1>1. OpToRel(<, Nat) = Smaller
  BY DEF OpToRel, Smaller
<1> QED BY <1>1, NatLessThanWellFounded

(* A set of natural numbers that is not empty has a least element.          *)
LEMMA LeastNumber ==
  ASSUME NEW T, T \subseteq Nat, T # {}
  PROVE  \E n \in T : \A m \in T : n <= m
<1>1. PICK n \in T : \A m \in T : <<m, n>> \notin Smaller
  BY SmallerIsWellFounded, WFMin
<1>2. \A m \in T : ~(m < n)
  BY <1>1 DEF Smaller
<1> QED BY <1>2

(* What holds at 0 and is passed on by each number before N holds up to N.  *)
LEMMA InductionTo ==
  ASSUME NEW N \in Nat, NEW S, 0 \in S, \A n \in 1..N : n - 1 \in S => n \in S
  PROVE  0..N \subseteq S
<1> DEFINE T == (0..N) \ S
<1>1. T \subseteq Nat
  OBVIOUS
<1>2. ASSUME T # {} PROVE FALSE
  <2>1. PICK n \in T : \A m \in T : n <= m
    <3> HIDE DEF T
    <3> QED BY <1>1, <1>2, LeastNumber
  <2>2. n \in 1..N /\ n - 1 \in 0..N /\ ~(n <= n - 1)
    OBVIOUS
  <2>3. n - 1 \in S
    BY <2>1, <2>2
  <2> QED BY <2>2, <2>3
<1> QED BY <1>2

\* The values g goes through from c on, when step is taken N times.
Recursion(g, N, X, c, step) ==
  /\ g \in [0..N -> X] /\ g[0] = c
  /\ \A i \in 1..N : g[i] = step[i][g[i - 1]]

(* Such values exist: what is defined by recursion is defined.              *)
LEMMA RecursionExists ==
  ASSUME NEW N \in Nat, NEW X, NEW c \in X, NEW step \in [1..N -> [X -> X]]
  PROVE  \E g : Recursion(g, N, X, c, step)
<1> DEFINE Good(n) == {g \in [0..n -> X] : /\ g[0] = c
                                           /\ \A i \in 1..n : g[i] = step[i][g[i - 1]]}
           S == {n \in 0..N : Good(n) # {}}
<1>1. 0 \in S
  <2>1. [i \in 0..0 |-> c] \in Good(0)
    OBVIOUS
  <2> QED BY <2>1
<1>2. ASSUME NEW n \in 1..N, n - 1 \in S PROVE n \in S
  <2>1. PICK h : h \in Good(n - 1)
    BY <1>2
  <2>2. /\ h \in [0..(n - 1) -> X] /\ h[0] = c
        /\ \A i \in 1..(n - 1) : h[i] = step[i][h[i - 1]]
    BY <2>1
  <2>3. PICK x \in X : x = step[n][h[n - 1]]
    BY <2>2
  <2> DEFINE g == [i \in 0..n |-> IF i = n THEN x ELSE h[i]]
  <2>4. g \in [0..n -> X]
    BY <2>2, <2>3
  <2>5. g[0] = c
    BY <2>2
  <2>6. ASSUME NEW i \in 1..n PROVE g[i] = step[i][g[i - 1]]
    <3>1. i \in 0..n /\ i - 1 \in 0..n /\ i - 1 # n
      OBVIOUS
    <3>2. g[i - 1] = h[i - 1]
      BY <3>1
    <3>3. CASE i = n
      BY <3>1, <3>2, <3>3, <2>3
    <3>4. CASE i # n
      <4>1. i \in 1..(n - 1)
        BY <3>4
      <4>2. h[i] = step[i][h[i - 1]]
        BY <4>1, <2>2
      <4> QED BY <4>2, <3>1, <3>2, <3>4
    <3> QED BY <3>3, <3>4
  <2>7. g \in Good(n)
    <3> HIDE DEF g
    <3> QED BY <2>4, <2>5, <2>6
  <2> HIDE DEF Good
  <2> QED BY <2>7
<1>3. 0..N \subseteq S
  <2> HIDE DEF S
  <2> QED BY <1>1, <1>2, InductionTo
<1>4. Good(N) # {}
  BY <1>3
<1> QED BY <1>4 DEF Recursion

\* F[n] is what FlattenSeq() has joined after n of the sequences.
Joins(F, N, seqs, X) ==
  /\ F \in [0..N -> Seq(X)] /\ F[0] = <<>> /\ F[N] = FlattenSeq(seqs)
  /\ \A n \in 1..N : F[n] = F[n - 1] \o seqs[n]

LEMMA Flattened ==
  ASSUME NEW X, NEW N \in Nat, NEW seqs \in [1..N -> Seq(X)]
  PROVE  \E F : Joins(F, N, seqs, X)
<1>1. Len(seqs) = N /\ seqs \in Seq(Seq(X))
  OBVIOUS
<1>2. CASE N = 0
  <2>1. FlattenSeq(seqs) = <<>>
    BY <1>1, <1>2 DEF FlattenSeq
  <2> DEFINE F == [n \in {0} |-> <<>>]
  <2>2. 0..N = {0} /\ 1..N = {}
    BY <1>2
  <2>3. F \in [0..N -> Seq(X)] /\ F[0] = <<>> /\ F[N] = FlattenSeq(seqs)
    BY <1>2, <2>1, <2>2
  <2>4. \A n \in 1..N : F[n] = F[n - 1] \o seqs[n]
    BY <2>2
  <2> HIDE DEF F
  <2> QED BY <2>3, <2>4 DEF Joins
<1>3. CASE N > 0
  <2> DEFINE step == [n \in 1..N |-> [x \in Seq(X) |-> x \o seqs[n]]]
  <2>1. step \in [1..N -> [Seq(X) -> Seq(X)]] /\ <<>> \in Seq(X)
    OBVIOUS
  <2>2. PICK F : Recursion(F, N, Seq(X), <<>>, step)
    <3> HIDE DEF step
    <3> QED BY <2>1, RecursionExists
  <2>3. F \in [0..N -> Seq(X)] /\ F[0] = <<>> /\ \A n \in 1..N : F[n] = F[n - 1] \o seqs[n]
    <3>1. F \in [0..N -> Seq(X)] /\ F[0] = <<>> /\ \A n \in 1..N : F[n] = step[n][F[n - 1]]
      BY <2>2 DEF Recursion
    <3>2. ASSUME NEW n \in 1..N PROVE F[n] = F[n - 1] \o seqs[n]
      <4>1. n - 1 \in 0..N
        OBVIOUS
      <4> QED BY <3>1, <4>1
    <3> QED BY <3>1, <3>2
  <2> DEFINE Is(f) == f = [n \in 1..N |-> IF n = 1 THEN seqs[n] ELSE f[n - 1] \o seqs[n]]
  <2>4. Is([n \in 1..N |-> F[n]])
    <3>1. ASSUME NEW n \in 1..N
          PROVE  F[n] = IF n = 1 THEN seqs[n] ELSE [m \in 1..N |-> F[m]][n - 1] \o seqs[n]
      <4>1. CASE n = 1
        <5>0. F[1] = F[0] \o seqs[1]
          BY <1>3, <2>3, 1 \in 1..N, 1 - 1 = 0
        <5>1. seqs[n] \in Seq(X) /\ F[n] = <<>> \o seqs[n]
          BY <2>3, <4>1, <5>0
        <5>2. <<>> \o seqs[n] = seqs[n]
          BY <5>1
        <5> QED BY <4>1, <5>1, <5>2
      <4>2. CASE n # 1
        <5>1. n - 1 \in 1..N
          BY <4>2
        <5> QED BY <2>3, <4>2, <5>1
      <4> QED BY <4>1, <4>2
    <3> QED BY <3>1
  <2>5. PICK G : G = CHOOSE f : Is(f)
    OBVIOUS
  <2>6. Is(G)
    <3> HIDE DEF Is
    <3> QED BY <2>4, <2>5
  <2>7. FlattenSeq(seqs) = G[N]
    <3>1. FlattenSeq(seqs) = LET f == CHOOSE f : Is(f) IN f[N]
      BY <1>1, <1>3 DEF FlattenSeq
    <3> HIDE DEF Is
    <3> QED BY <2>5, <3>1
  <2>8. G[N] = F[N]
    <3> DEFINE S == {n \in 0..N : n > 0 => G[n] = F[n]}
    <3>1. 0 \in S
      OBVIOUS
    <3>2. ASSUME NEW n \in 1..N, n - 1 \in S PROVE n \in S
      <4>1. G[n] = IF n = 1 THEN seqs[n] ELSE G[n - 1] \o seqs[n]
        BY <2>6
      <4>2. F[n] = F[n - 1] \o seqs[n]
        BY <2>3
      <4>3. CASE n = 1
        <5>0. F[1] = F[0] \o seqs[1]
          BY <1>3, <2>3, 1 \in 1..N, 1 - 1 = 0
        <5>1. seqs[n] \in Seq(X) /\ F[n] = <<>> \o seqs[n]
          BY <2>3, <4>3, <5>0
        <5>2. <<>> \o seqs[n] = seqs[n]
          BY <5>1
        <5>3. G[n] = F[n]
          BY <4>1, <4>3, <5>1, <5>2
        <5> QED BY <5>3
      <4>4. CASE n # 1
        <5>1. G[n - 1] = F[n - 1]
          BY <3>2, <4>4
        <5>2. G[n] = F[n]
          BY <4>1, <4>2, <4>4, <5>1
        <5> QED BY <5>2
      <4> QED BY <4>3, <4>4
    <3>3. 0..N \subseteq S
      <4> HIDE DEF S
      <4> QED BY <3>1, <3>2, InductionTo
    <3> QED BY <1>3, <3>3
  <2>9. F[N] = FlattenSeq(seqs)
    BY <2>7, <2>8
  <2> QED BY <2>3, <2>9 DEF Joins
<1>4. N = 0 \/ N > 0
  OBVIOUS
<1> QED BY <1>2, <1>3, <1>4

(* One sequence more is joined at the end.                                  *)
LEMMA FlattenedMore ==
  ASSUME NEW X, NEW N \in Nat, NEW seqs \in [1..N -> Seq(X)], NEW more \in [1..(N + 1) -> Seq(X)],
         \A n \in 1..N : more[n] = seqs[n]
  PROVE  /\ FlattenSeq(seqs) \in Seq(X)
         /\ FlattenSeq(more) = FlattenSeq(seqs) \o more[N + 1]
<1>1. PICK F : Joins(F, N, seqs, X)
  BY Flattened
<1>2. N + 1 \in Nat
  OBVIOUS
<1>3. PICK G : Joins(G, N + 1, more, X)
  BY <1>2, Flattened
<1> DEFINE S == {n \in 0..N : F[n] = G[n]}
<1>4. 0 \in S
  BY <1>1, <1>3 DEF Joins
<1>5. ASSUME NEW n \in 1..N, n - 1 \in S PROVE n \in S
  <2>1. n \in 1..(N + 1) /\ more[n] = seqs[n] /\ F[n - 1] = G[n - 1]
    BY <1>5
  <2>2. F[n] = F[n - 1] \o seqs[n]
    BY <1>1 DEF Joins
  <2>3. G[n] = G[n - 1] \o more[n]
    BY <1>3, <2>1 DEF Joins
  <2>4. F[n] = G[n] /\ n \in 0..N
    BY <2>1, <2>2, <2>3
  <2> QED BY <2>4
<1>6. 0..N \subseteq S
  <2> HIDE DEF S
  <2> QED BY <1>4, <1>5, InductionTo
<1>7. G[N + 1] = G[N] \o more[N + 1]
  <2>1. N + 1 \in 1..(N + 1) /\ (N + 1) - 1 = N
    OBVIOUS
  <2> QED BY <1>3, <2>1 DEF Joins
<1>8. F[N] = G[N] /\ F[N] \in Seq(X)
  BY <1>1, <1>6 DEF Joins
<1> QED BY <1>1, <1>3, <1>7, <1>8 DEF Joins

LEMMA FlattenedType ==
  ASSUME NEW X, NEW N \in Nat, NEW seqs \in [1..N -> Seq(X)]
  PROVE  FlattenSeq(seqs) \in Seq(X)
<1>1. PICK F : Joins(F, N, seqs, X)
  BY Flattened
<1> QED BY <1>1 DEF Joins


\* A sequence holds a value.
Occurs(x, s) == \E m \in 1..Len(s) : s[m] = x

\* What one of the sequences holds, the whole holds.
LEMMA FlattenedOccurs ==
  \A X, N, seqs, n, x :
    N \in Nat /\ seqs \in [1..N -> Seq(X)] /\ n \in 1..N /\ seqs[n] = <<x>>
      => Occurs(x, FlattenSeq(seqs))
<1> SUFFICES ASSUME NEW X, NEW N \in Nat, NEW seqs \in [1..N -> Seq(X)], NEW n \in 1..N, NEW x,
                    seqs[n] = <<x>>
             PROVE  Occurs(x, FlattenSeq(seqs))
  OBVIOUS
<1>1. PICK F : Joins(F, N, seqs, X)
  BY Flattened
<1> DEFINE S == {j \in 0..N : j >= n => \E m \in 1..Len(F[j]) : F[j][m] = x}
<1>2. 0 \in S
  OBVIOUS
<1>3. ASSUME NEW j \in 1..N, j - 1 \in S PROVE j \in S
  <2>1. F[j] = F[j - 1] \o seqs[j] /\ F[j - 1] \in Seq(X) /\ seqs[j] \in Seq(X)
    <3>1. j - 1 \in 0..N
      OBVIOUS
    <3> QED BY <1>1, <3>1 DEF Joins
  <2>2. CASE j = n
    <3>0. x \in X
      <4>1. PICK q \in Seq(X) : q = seqs[n]
        OBVIOUS
      <4>2. q = <<x>>
        BY <4>1
      <4>3. Len(q) = 1 /\ q[1] = x /\ 1 \in 1..Len(q)
        BY <4>2
      <4> QED BY <4>1, <4>3, ElementOfSeq
    <3>1. F[j] = F[j - 1] \o <<x>> /\ x \in X
      BY <2>1, <2>2, <3>0
    <3>2. Len(F[j]) = Len(F[j - 1]) + 1 /\ F[j][Len(F[j - 1]) + 1] = x /\ Len(F[j - 1]) \in Nat
      BY <2>1, <3>1
    <3>3. Len(F[j - 1]) + 1 \in 1..Len(F[j])
      BY <3>2
    <3>4. \E m \in 1..Len(F[j]) : F[j][m] = x
      BY <3>2, <3>3
    <3> QED BY <3>4
  <2>3. CASE j > n
    <3>1. PICK m \in 1..Len(F[j - 1]) : F[j - 1][m] = x
      BY <1>3, <2>3
    <3>2. m \in 1..Len(F[j]) /\ F[j][m] = x
      BY <2>1, <3>1
    <3>3. \E i \in 1..Len(F[j]) : F[j][i] = x
      BY <3>2
    <3> QED BY <3>3
  <2> QED BY <2>2, <2>3
<1>4. 0..N \subseteq S
  <2> HIDE DEF S
  <2> QED BY <1>2, <1>3, InductionTo
<1>5. N \in S /\ N >= n
  BY <1>4
<1>6. \E m \in 1..Len(F[N]) : F[N][m] = x
  BY <1>5
<1> QED BY <1>1, <1>6 DEF Joins, Occurs

\* The greatest number of a set up to N.
LEMMA MaxOf ==
  ASSUME NEW N \in Nat, NEW S, S \subseteq 1..N, S # {}
  PROVE  Max(S) \in S /\ \A y \in S : Max(S) >= y
<1> DEFINE T == {N - x : x \in S}
<1>1. T \subseteq Nat /\ T # {}
  <2>1. ASSUME NEW x \in S PROVE N - x \in Nat
    OBVIOUS
  <2>2. T \subseteq Nat
    BY <2>1
  <2>3. PICK s : s \in S
    OBVIOUS
  <2>4. N - s \in T
    BY <2>3
  <2> HIDE DEF T
  <2> QED BY <2>2, <2>4
<1>2. PICK n \in T : \A m \in T : n <= m
  <2> HIDE DEF T
  <2> QED BY <1>1, LeastNumber
<1>3. PICK x \in S : n = N - x
  BY <1>2
<1>4. ASSUME NEW y \in S PROVE x >= y
  <2>1. N - y \in T /\ N - x <= N - y /\ x \in Nat /\ y \in Nat
    BY <1>2, <1>3
  <2> HIDE DEF T
  <2> QED BY <2>1
<1>5. \E z \in S : \A y \in S : z >= y
  BY <1>4
<1> QED BY <1>5 DEF Max

LEMMA MaxIs ==
  ASSUME NEW N \in Nat, NEW S, S \subseteq 1..N, NEW m \in S, \A y \in S : m >= y
  PROVE  Max(S) = m
<1>1. Max(S) \in S /\ Max(S) >= m
  BY MaxOf
<1>2. m >= Max(S) /\ m \in Nat /\ Max(S) \in Nat
  <2> DEFINE x == Max(S)
  <2> HIDE DEF x
  <2>1. x \in S
    BY <1>1 DEF x
  <2>2. m >= x /\ m \in Nat /\ x \in Nat
    BY <2>1
  <2> QED BY <2>2 DEF x
<1> QED BY <1>1, <1>2

\* SetToSeq() gives each element of a finite set.
LEMMA EachOnce ==
  ASSUME NEW T, IsFiniteSet(T)
  PROVE  /\ Cardinality(T) \in Nat /\ SetToSeq(T) \in [1..Cardinality(T) -> T]
         /\ \A x \in T : \E n \in 1..Cardinality(T) : SetToSeq(T)[n] = x
<1> DEFINE N == Cardinality(T)
<1>1. N \in Nat /\ IsFiniteSet(1..N) /\ Cardinality(1..N) = N
  BY FS_CardinalityType, FS_Interval
<1>2. PICK g : g \in Bijection(1..N, T)
  <2>1. ExistsBijection(1..N, T)
    BY FS_CardinalityType
  <2> HIDE DEF N
  <2> QED BY <2>1 DEF ExistsBijection
<1>3. g \in [1..N -> T] /\ IsInjective(g)
  BY <1>2 DEF Bijection, Injection, IsInjective
<1>4. SetToSeq(T) \in [1..N -> T] /\ IsInjective(SetToSeq(T))
  BY <1>3 DEF SetToSeq
<1>5. SetToSeq(T) \in Injection(1..N, T)
  BY <1>4 DEF Injection
<1>6. SetToSeq(T) \in Surjection(1..N, T)
  BY <1>1, <1>5, FS_Injection
<1> QED BY <1>1, <1>4, <1>6 DEF Surjection

\* Where the sequence n is in what is joined.
JoinedAt(F, N, seqs, n) ==
  /\ Len(F[n]) = Len(F[n - 1]) + Len(seqs[n]) /\ Len(F[n]) <= Len(F[N])
  /\ \A j \in 1..Len(seqs[n]) : F[N][Len(F[n - 1]) + j] = seqs[n][j]

\* What is joined is there, each sequence in its place.
LEMMA JoinedAll ==
  ASSUME NEW X, NEW N \in Nat, NEW seqs \in [1..N -> Seq(X)], NEW F, Joins(F, N, seqs, X),
         NEW n \in 1..N
  PROVE  JoinedAt(F, N, seqs, n)
<1>1. /\ F \in [0..N -> Seq(X)] /\ F[0] = <<>>
      /\ \A m \in 1..N : F[m] = F[m - 1] \o seqs[m]
  BY DEF Joins
<1>2. ASSUME NEW m \in 1..N
      PROVE  /\ Len(F[m]) = Len(F[m - 1]) + Len(seqs[m]) /\ Len(F[m]) \in Nat
             /\ Len(F[m - 1]) \in Nat /\ Len(seqs[m]) \in Nat
             /\ \A i \in 1..Len(F[m]) :
                  F[m][i] = IF i <= Len(F[m - 1]) THEN F[m - 1][i] ELSE seqs[m][i - Len(F[m - 1])]
  <2>1. m \in 0..N /\ m - 1 \in 0..N
    OBVIOUS
  <2>2. PICK s, t \in Seq(X) : s = F[m - 1] /\ t = seqs[m] /\ F[m] = s \o t
    BY <1>1, <2>1
  <2>3. /\ Len(s \o t) = Len(s) + Len(t) /\ s \o t \in Seq(X)
        /\ \A i \in 1..(Len(s) + Len(t)) : (s \o t)[i] = IF i <= Len(s) THEN s[i] ELSE t[i - Len(s)]
    BY ConcatProperties
  <2>4. Len(s) \in Nat /\ Len(t) \in Nat /\ Len(s) + Len(t) \in Nat
    OBVIOUS
  <2> QED BY <2>2, <2>3, <2>4
<1> DEFINE Is(m) == Len(F[m]) <= Len(F[N]) /\ \A i \in 1..Len(F[m]) : F[N][i] = F[m][i]
           S == {k \in 0..N : Is(N - k)}
<1>3. 0 \in S
  <2>1. F[N] \in Seq(X) /\ N - 0 = N
    BY <1>1
  <2>2. Len(F[N]) \in Nat
    BY <2>1
  <2> QED BY <2>1, <2>2
<1>4. ASSUME NEW k \in 1..N, k - 1 \in S PROVE k \in S
  <2>1. PICK m \in 1..N : m = N - (k - 1) /\ m - 1 = N - k
    <3>1. N - (k - 1) \in 1..N /\ (N - (k - 1)) - 1 = N - k
      OBVIOUS
    <3> QED BY <3>1
  <2>2. Is(m)
    BY <1>4, <2>1
  <2>3. Len(F[m - 1]) <= Len(F[m]) /\ Len(F[m - 1]) <= Len(F[N])
    <3>1. Len(F[N]) \in Nat
      BY <1>1
    <3> QED BY <1>2, <2>2, <3>1
  <2>4. ASSUME NEW i \in 1..Len(F[m - 1]) PROVE F[N][i] = F[m - 1][i]
    <3>1. i \in 1..Len(F[m]) /\ i <= Len(F[m - 1])
      BY <1>2, <2>3
    <3> QED BY <1>2, <2>2, <3>1
  <2>5. Is(m - 1)
    BY <2>3, <2>4
  <2> HIDE DEF Is
  <2> QED BY <2>1, <2>5
<1>5. 0..N \subseteq S
  <2> HIDE DEF S
  <2> QED BY <1>3, <1>4, InductionTo
<1>6. Is(n)
  <2>1. N - n \in 0..N /\ N - (N - n) = n
    OBVIOUS
  <2> HIDE DEF Is
  <2> QED BY <1>5, <2>1
<1>7. ASSUME NEW j \in 1..Len(seqs[n]) PROVE F[N][Len(F[n - 1]) + j] = seqs[n][j]
  <2>1. PICK a, b \in Nat : a = Len(F[n - 1]) /\ b = Len(seqs[n]) /\ Len(F[n]) = a + b
    BY <1>2
  <2>2. a + j \in 1..(a + b) /\ ~(a + j <= a) /\ (a + j) - a = j
    BY <2>1
  <2>3. F[n][a + j] = seqs[n][j]
    BY <1>2, <2>1, <2>2
  <2> QED BY <1>6, <2>1, <2>2, <2>3
<1> QED BY <1>2, <1>6, <1>7 DEF JoinedAt

-----------------------------------------------------------------------------
(* Folds of sequences.                                                      *)

\* The fold over a set of places, the last first, of what step says of each.
FoldsSets(h, N, c, step) ==
  /\ h[{}] = c
  /\ \A s \in SUBSET (1..N) : s # {} => h[s] = step[Max(s)][h[s \ {Max(s)}]]

\* What is folded over a set of places is defined.
LEMMA FoldExists ==
  ASSUME NEW N \in Nat, NEW X, NEW c \in X, NEW step \in [1..N -> [X -> X]]
  PROVE  \E h \in [SUBSET (1..N) -> X] : FoldsSets(h, N, c, step)
<1> DEFINE only(s) == [i \in 1..N |-> IF i \in s THEN step[i] ELSE [x \in X |-> x]]
           Is(s, g) == Recursion(g, N, X, c, only(s))
           of(s) == CHOOSE g : Is(s, g)
           h == [s \in SUBSET (1..N) |-> of(s)[N]]
<1>1. ASSUME NEW s \in SUBSET (1..N) PROVE Is(s, of(s))
  <2>1. only(s) \in [1..N -> [X -> X]]
    OBVIOUS
  <2>2. \E g : Is(s, g)
    <3> HIDE DEF only
    <3> QED BY <2>1, RecursionExists
  <2> HIDE DEF Is
  <2> QED BY <2>2
<1> HIDE DEF of
<1>2. \A s \in SUBSET (1..N) :
        /\ of(s) \in [0..N -> X] /\ of(s)[0] = c
        /\ \A i \in 1..N : of(s)[i] = IF i \in s THEN step[i][of(s)[i - 1]] ELSE of(s)[i - 1]
  <2>1. ASSUME NEW s \in SUBSET (1..N), NEW i \in 1..N
        PROVE  of(s)[i] = IF i \in s THEN step[i][of(s)[i - 1]] ELSE of(s)[i - 1]
    <3>1. of(s) \in [0..N -> X] /\ of(s)[i] = only(s)[i][of(s)[i - 1]]
      BY <1>1 DEF Recursion
    <3>2. i - 1 \in 0..N
      OBVIOUS
    <3>3. of(s)[i - 1] \in X
      BY <3>1, <3>2
    <3> QED BY <3>1, <3>3
  <2>2. \A s \in SUBSET (1..N) : of(s) \in [0..N -> X] /\ of(s)[0] = c
    BY <1>1 DEF Recursion
  <2> HIDE DEF Is
  <2> QED BY <2>1, <2>2
<1> HIDE DEF Is
<1>3. h \in [SUBSET (1..N) -> X]
  BY <1>2
<1>4. h[{}] = c
  <2> DEFINE S == {n \in 0..N : of({})[n] = c}
  <2>1. 0 \in S
    BY <1>2
  <2>2. \A n \in 1..N : n - 1 \in S => n \in S
    BY <1>2
  <2>3. 0..N \subseteq S
    <3> HIDE DEF S
    <3> QED BY <2>1, <2>2, InductionTo
  <2> QED BY <2>3
<1>5. ASSUME NEW s \in SUBSET (1..N), s # {}
      PROVE  h[s] = step[Max(s)][h[s \ {Max(s)}]]
  <2>1. PICK m \in 1..N : m = Max(s) /\ m \in s /\ \A y \in s : m >= y
    BY <1>5, MaxOf
  <2>2. PICK r \in SUBSET (1..N) : r = s \ {m}
    OBVIOUS
  <2> DEFINE S == {n \in 0..N : n < m => of(s)[n] = of(r)[n]}
             T == {n \in 0..N : n >= m => of(s)[n] = of(s)[m]}
             U == {n \in 0..N : n >= m - 1 => of(r)[n] = of(r)[m - 1]}
  <2>3. 0..N \subseteq S
    <3>1. 0 \in S
      BY <1>2
    <3>2. ASSUME NEW n \in 1..N, n - 1 \in S PROVE n \in S
      <4>1. n < m => (n \in s <=> n \in r) /\ of(s)[n - 1] = of(r)[n - 1]
        BY <2>2, <3>2
      <4> QED BY <1>2, <4>1
    <3> HIDE DEF S
    <3> QED BY <3>1, <3>2, InductionTo
  <2>4. 0..N \subseteq T
    <3>1. 0 \in T
      OBVIOUS
    <3>2. ASSUME NEW n \in 1..N, n - 1 \in T PROVE n \in T
      <4>1. n > m => n \notin s
        BY <2>1
      <4>2. n > m => of(s)[n] = of(s)[n - 1] /\ of(s)[n - 1] = of(s)[m]
        BY <1>2, <3>2, <4>1
      <4> QED BY <4>2
    <3> HIDE DEF T
    <3> QED BY <3>1, <3>2, InductionTo
  <2>5. 0..N \subseteq U
    <3>1. 0 \in U
      OBVIOUS
    <3>2. ASSUME NEW n \in 1..N, n - 1 \in U PROVE n \in U
      <4>1. n >= m => n \notin r
        BY <2>1, <2>2
      <4>2. n >= m => of(r)[n] = of(r)[n - 1] /\ of(r)[n - 1] = of(r)[m - 1]
        BY <1>2, <3>2, <4>1
      <4> QED BY <4>2
    <3> HIDE DEF U
    <3> QED BY <3>1, <3>2, InductionTo
  <2>6. of(s)[N] = of(s)[m] /\ of(r)[N] = of(r)[m - 1] /\ of(s)[m - 1] = of(r)[m - 1]
    BY <2>3, <2>4, <2>5
  <2>7. of(s)[m] = step[m][of(s)[m - 1]]
    BY <1>2, <2>1
  <2>8. h[s] = of(s)[N] /\ h[r] = of(r)[N]
    OBVIOUS
  <2> QED BY <2>1, <2>2, <2>6, <2>7, <2>8
<1> HIDE DEF h
<1> QED BY <1>3, <1>4, <1>5 DEF FoldsSets

\* On the places from 1 on a fold is a recursion.
LEMMA FoldIsRecursion ==
  ASSUME NEW N \in Nat, NEW X, NEW c \in X, NEW step \in [1..N -> [X -> X]],
         NEW h, FoldsSets(h, N, c, step)
  PROVE  \E g : Recursion(g, N, X, c, step) /\ h[1..N] = g[N]
<1>1. PICK g : Recursion(g, N, X, c, step)
  BY RecursionExists
<1>2. g \in [0..N -> X] /\ g[0] = c /\ \A i \in 1..N : g[i] = step[i][g[i - 1]]
  BY <1>1 DEF Recursion
<1> DEFINE S == {n \in 0..N : h[1..n] = g[n]}
<1>3. 0 \in S
  <2>1. 1..0 = {}
    OBVIOUS
  <2> QED BY <1>2, <2>1 DEF FoldsSets
<1>4. ASSUME NEW n \in 1..N, n - 1 \in S PROVE n \in S
  <2>1. n \in 1..n /\ (\A y \in 1..n : n >= y) /\ 1..n \subseteq 1..N /\ n \in Nat
    OBVIOUS
  <2>2. Max(1..n) = n
    <3>1. 1..n \subseteq 1..n
      OBVIOUS
    <3> QED BY <2>1, <3>1, MaxIs
  <2>3. (1..n) \ {n} = 1..(n - 1)
    OBVIOUS
  <2>4. h[1..n] = step[n][h[1..(n - 1)]]
    <3>1. 1..n \in SUBSET (1..N) /\ 1..n # {}
      BY <2>1
    <3>2. h[1..n] = step[Max(1..n)][h[(1..n) \ {Max(1..n)}]]
      BY <3>1 DEF FoldsSets
    <3> QED BY <2>2, <2>3, <3>2
  <2> QED BY <1>2, <1>4, <2>4
<1>5. 0..N \subseteq S
  <2> HIDE DEF S
  <2> QED BY <1>3, <1>4, InductionTo
<1> QED BY <1>1, <1>5

\* Functions of sets of places that go on in the same way.
GoOnAlike(f, h, N) ==
  /\ f[{}] = h[{}]
  /\ \A s \in SUBSET (1..N) : s # {} /\ f[s \ {Max(s)}] = h[s \ {Max(s)}] => f[s] = h[s]
AlikeOnSets(f, h, N) == \A s \in SUBSET (1..N) : f[s] = h[s]

\* They have the same values.
LEMMA SameOnSets ==
  ASSUME NEW N \in Nat, NEW f, NEW h, GoOnAlike(f, h, N)
  PROVE  AlikeOnSets(f, h, N)
<1>0. /\ f[{}] = h[{}]
      /\ \A s \in SUBSET (1..N) : s # {} /\ f[s \ {Max(s)}] = h[s \ {Max(s)}] => f[s] = h[s]
  BY DEF GoOnAlike
<1> DEFINE S == {n \in 0..N : AlikeOnSets(f, h, n)}
<1>1. 0 \in S
  <2>1. \A s \in SUBSET (1..0) : s = {}
    OBVIOUS
  <2>2. AlikeOnSets(f, h, 0)
    BY <1>0, <2>1 DEF AlikeOnSets
  <2> QED BY <2>2
<1>2. ASSUME NEW n \in 1..N, n - 1 \in S PROVE n \in S
  <2>1. ASSUME NEW s \in SUBSET (1..n), s # {} PROVE f[s] = h[s]
    <3>1. n \in Nat /\ s \subseteq 1..n
      OBVIOUS
    <3>2. Max(s) \in s /\ \A y \in s : Max(s) >= y
      BY <2>1, <3>1, MaxOf
    <3>3. PICK m \in s : m = Max(s) /\ \A y \in s : m >= y
      BY <3>2
    <3>4. \A y \in s : y # m => y \in 1..(n - 1)
      BY <3>3
    <3>5. s \in SUBSET (1..N) /\ s \ {m} \in SUBSET (1..(n - 1))
      BY <3>4
    <3>6. f[s \ {Max(s)}] = h[s \ {Max(s)}]
      <4>1. AlikeOnSets(f, h, n - 1)
        BY <1>2
      <4> QED BY <3>3, <3>5, <4>1 DEF AlikeOnSets
    <3> QED BY <1>0, <2>1, <3>5, <3>6
  <2>2. AlikeOnSets(f, h, n)
    <3>1. ASSUME NEW s \in SUBSET (1..n) PROVE f[s] = h[s]
      BY <1>0, <2>1
    <3> QED BY <3>1 DEF AlikeOnSets
  <2> QED BY <2>2
<1>3. 0..N \subseteq S
  <2> HIDE DEF S
  <2> QED BY <1>1, <1>2, InductionTo
<1> QED BY <1>3

\* SameOnSets, to cite of given functions.
LEMMA Alike == \A N, f, h : N \in Nat /\ GoOnAlike(f, h, N) => AlikeOnSets(f, h, N)
BY SameOnSets

\* v is what comes of c in N steps.
Folded(v, N, X, c, step) == \E g : Recursion(g, N, X, c, step) /\ v = g[N]

\* FoldIsRecursion, to cite of a given fold.
LEMMA FoldFolds ==
  \A N, X, c, step, h :
    N \in Nat /\ c \in X /\ step \in [1..N -> [X -> X]] /\ FoldsSets(h, N, c, step)
      => Folded(h[1..N], N, X, c, step)
BY FoldIsRecursion DEF Folded

\* f takes the steps, the last place first.
GoesOn(f, N, X, c, step) ==
  /\ f[{}] = c
  /\ \A s \in SUBSET (1..N) :
       s # {} /\ f[s \ {Max(s)}] \in X => f[s] = step[Max(s)][f[s \ {Max(s)}]]

\* What takes the steps is the recursion.
LEMMA FoldIs ==
  ASSUME NEW N \in Nat, NEW X, NEW c \in X, NEW step \in [1..N -> [X -> X]], NEW f,
         GoesOn(f, N, X, c, step)
  PROVE  Folded(f[1..N], N, X, c, step)
<1>1. PICK h \in [SUBSET (1..N) -> X] : FoldsSets(h, N, c, step)
  BY FoldExists
<1>2. GoOnAlike(f, h, N)
  <2>1. f[{}] = h[{}]
    BY <1>1 DEF GoesOn, FoldsSets
  <2>2. ASSUME NEW s \in SUBSET (1..N), s # {}, f[s \ {Max(s)}] = h[s \ {Max(s)}]
        PROVE  f[s] = h[s]
    <3>1. h[s \ {Max(s)}] \in X
      BY <1>1
    <3> QED BY <1>1, <2>2, <3>1 DEF GoesOn, FoldsSets
  <2> QED BY <2>1, <2>2 DEF GoOnAlike
<1>3. AlikeOnSets(f, h, N)
  BY ONLY N \in Nat, <1>2, Alike, Zenon
<1>4. f[1..N] = h[1..N]
  BY <1>3 DEF AlikeOnSets
<1>5. Folded(h[1..N], N, X, c, step)
  BY ONLY N \in Nat, c \in X, step \in [1..N -> [X -> X]], <1>1, FoldFolds, Zenon
<1> QED BY <1>4, <1>5

\* FoldIs, to cite of a given function.
LEMMA FoldsAre ==
  \A N, X, c, step, f :
    /\ N \in Nat /\ c \in X /\ step \in [1..N -> [X -> X]] /\ GoesOn(f, N, X, c, step)
    => Folded(f[1..N], N, X, c, step)
BY FoldIs

=============================================================================
