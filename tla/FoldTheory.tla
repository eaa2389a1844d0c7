------------------------------ MODULE FoldTheory ------------------------------
(***************************************************************************)
(* Induction and folds. The induction theorems of the library are about a  *)
(* predicate, which no prover here can instantiate; these are about a set  *)
(* (of the numbers, or of the sequences, for which something holds), and   *)
(* follow from the well-foundedness of the naturals. With them, what a     *)
(* fold computes becomes a pair of equations, for an operator Op that a    *)
(* module which needs them gives with INSTANCE.                            *)
(***************************************************************************)
EXTENDS Integers, SequencesExt, FiniteSetTheorems, SequenceTheorems, WellFoundedInduction, TLAPS

CONSTANT Op(_, _)

\* Every non-empty set of natural numbers has a least element.
LEMMA LeastElement ==
  ASSUME NEW S \in SUBSET Nat, S # {}
  PROVE  \E m \in S : \A k \in S : m <= k
<1> DEFINE R == {ss \in Nat \X Nat : ss[1] < ss[2]}
<1>1. IsWellFoundedOn(R, Nat)
  BY NatLessThanWellFounded, Zenon DEF OpToRel
<1>a. \A x, y \in Nat : x < y => <<x, y>> \in R
  OBVIOUS
<1>. HIDE DEF R
<1>2. \E x \in S : \A y \in S : ~ (<<y, x>> \in R)
  BY <1>1, WFMin
<1>3. PICK x \in S : \A y \in S : ~ (<<y, x>> \in R)
  BY <1>2
<1>4. \A y \in S : ~ (y < x)
  BY <1>3, <1>a
<1>5. QED
  BY <1>4

\* Induction over the natural numbers.
LEMMA SetInduction ==
  ASSUME NEW S, 0 \in S, \A n \in Nat : n \in S => n + 1 \in S
  PROVE  \A n \in Nat : n \in S
<1>1. SUFFICES ASSUME NEW n \in Nat, n \notin S PROVE FALSE
  OBVIOUS
<1>2. PICK m \in Nat \ S : \A k \in Nat \ S : m <= k
  BY <1>1, LeastElement
<1>3. m # 0
  OBVIOUS
<1>4. m - 1 \in Nat /\ m - 1 \in S
  BY <1>2, <1>3
<1>5. QED
  BY <1>4

\* Induction over sequences, from the left to the right.
LEMMA SeqInduction ==
  ASSUME NEW X, NEW S, <<>> \in S,
         \A q \in Seq(X) : \A x \in X : q \in S => Append(q, x) \in S
  PROVE  \A q \in Seq(X) : q \in S
<1> DEFINE N == {n \in Nat : \A q \in Seq(X) : Len(q) = n => q \in S}
<1>1. 0 \in N
  BY EmptySeq
<1>2. ASSUME NEW n \in Nat, n \in N PROVE n + 1 \in N
  <2>1. SUFFICES ASSUME NEW q \in Seq(X), Len(q) = n + 1 PROVE q \in S
    OBVIOUS
  <2> DEFINE f == SubSeq(q, 1, n)
  <2>2. f \in Seq(X) /\ Len(f) = n /\ q[n + 1] \in X
    BY <2>1
  <2>3. q = Append(f, q[n + 1])
    BY <2>1
  <2>4. f \in S
    BY <1>2, <2>2
  <2> HIDE DEF f
  <2> QED BY <2>2, <2>3, <2>4
<1> HIDE DEF N
<1>3. \A n \in Nat : n \in N
  BY <1>1, <1>2, SetInduction
<1> QED
  BY <1>3 DEF N

\* A finite non-empty set of naturals has a largest element.
LEMMA LargestElement ==
  ASSUME NEW n \in Nat, NEW S \in SUBSET (0 .. n), S # {}
  PROVE  Max(S) \in S /\ \A k \in S : k <= Max(S)
<1> DEFINE B == {b \in Nat : \A k \in S : k <= b}
<1>1. n \in B
  OBVIOUS
<1>2. PICK b \in B : \A c \in B : b <= c
  BY <1>1, LeastElement
<1>3. b \in S
  <2>1. SUFFICES ASSUME b \notin S PROVE FALSE
    OBVIOUS
  <2>2. \A k \in S : k \in Nat /\ k < b
    BY <2>1
  <2>3. b # 0
    <3>1. PICK k : k \in S
      OBVIOUS
    <3> QED BY <3>1, <2>2
  <2>4. b - 1 \in B
    BY <2>2, <2>3
  <2> QED BY <1>2, <2>4
<1>4. \E x \in S : \A y \in S : x >= y
  BY <1>3
<1>5. \A y \in S : Max(S) >= y /\ Max(S) \in S
  BY <1>4 DEF Max
<1> QED
  BY <1>5

\* f is the recursive function with which the folds are defined, on the subsets of 1..n.
Folds(f, base, seq, n) ==
  f = [s \in SUBSET (1 .. n) |-> IF s = {} THEN base ELSE Op(f[s \ {Max(s)}], seq[Max(s)])]

\* One step of that recursion goes to a shorter initial segment.
LEMMA MaxLess ==
  ASSUME NEW n \in Nat, NEW s \in SUBSET (1 .. n + 1), s # {}
  PROVE  s \ {Max(s)} \in SUBSET (1 .. n) /\ Max(s) \in 1 .. n + 1
<1>1. n + 1 \in Nat /\ s \in SUBSET (0 .. n + 1)
  OBVIOUS
<1>2. Max(s) \in s /\ \A k \in s : k <= Max(s)
  BY <1>1, LargestElement
<1>3. ASSUME NEW k \in s, k # Max(s) PROVE k \in 1 .. n
  <2>1. k \in 1 .. n + 1 /\ Max(s) \in 1 .. n + 1 /\ k <= Max(s)
    BY <1>2
  <2> QED BY <2>1, <1>3
<1> QED BY <1>2, <1>3

\* There is such a function, so that the CHOOSE in the definition of a fold finds one.
LEMMA FoldsExists ==
  ASSUME NEW base, NEW seq
  PROVE  \A n \in Nat : \E f : Folds(f, base, seq, n)
<1> DEFINE S == {n \in Nat : \E f : Folds(f, base, seq, n)}
<1>1. 0 \in S
  <2> DEFINE f == [s \in SUBSET (1 .. 0) |-> base]
  <2>1. Folds(f, base, seq, 0)
    BY DEF Folds
  <2> QED BY <2>1
<1>2. \A n \in Nat : n \in S => n + 1 \in S
  <2> SUFFICES ASSUME NEW n \in Nat, n \in S PROVE n + 1 \in S
    OBVIOUS
  <2>1. PICK f : Folds(f, base, seq, n)
    OBVIOUS
  <2> DEFINE g == [s \in SUBSET (1 .. n + 1) |->
                     IF s = {} THEN base ELSE Op(f[s \ {Max(s)}], seq[Max(s)])]
  <2>2. ASSUME NEW s \in SUBSET (1 .. n) PROVE f[s] = g[s]
    <3>1. s \in SUBSET (1 .. n + 1)
      OBVIOUS
    <3>2. f[s] = IF s = {} THEN base ELSE Op(f[s \ {Max(s)}], seq[Max(s)])
      BY <2>1 DEF Folds
    <3> QED BY <3>1, <3>2
  <2>3. \A s \in SUBSET (1 .. n + 1) : s # {} => f[s \ {Max(s)}] = g[s \ {Max(s)}]
    BY <2>2, MaxLess
  <2> HIDE DEF S
  <2>4. g = [s \in SUBSET (1 .. n + 1) |->
                     IF s = {} THEN base ELSE Op(g[s \ {Max(s)}], seq[Max(s)])]
    <3> DEFINE h == [s \in SUBSET (1 .. n + 1) |->
                     IF s = {} THEN base ELSE Op(g[s \ {Max(s)}], seq[Max(s)])]
    <3>1. \A s \in SUBSET (1 .. n + 1) : g[s] = h[s]
      BY <2>3
    <3> QED BY <3>1
  <2>5. Folds(g, base, seq, n + 1)
    BY <2>4, Zenon DEF Folds
  <2>6. n + 1 \in Nat
    OBVIOUS
  <2> QED BY <2>5, <2>6, Zenon DEF S
<1> HIDE DEF S
<1>3. \A n \in Nat : n \in S
  BY <1>1, <1>2, SetInduction
<1> QED BY <1>3 DEF S

\* What such a function computes along the initial segments of 1..n.
LEMMA FoldsStep ==
  ASSUME NEW base, NEW seq, NEW n \in Nat, NEW f, Folds(f, base, seq, n)
  PROVE  /\ f[1 .. 0] = base
         /\ \A k \in 1 .. n : f[1 .. k] = Op(f[1 .. k - 1], seq[k])
<1>1. f[1 .. 0] = base
  BY DEF Folds
<1>2. ASSUME NEW k \in 1 .. n PROVE f[1 .. k] = Op(f[1 .. k - 1], seq[k])
  <2>1. Max(1 .. k) = k
    <3>1. Max(1 .. k) \in 1 .. k /\ \A j \in 1 .. k : j <= Max(1 .. k)
      <4>1. k \in Nat /\ 1 .. k \in SUBSET (0 .. k) /\ 1 .. k # {}
        OBVIOUS
      <4> QED BY <4>1, LargestElement
    <3> QED BY <3>1
  <2>2. (1 .. k) \ {k} = 1 .. k - 1
    OBVIOUS
  <2>3. (1 .. k) \in SUBSET (1 .. n) /\ 1 .. k # {}
    OBVIOUS
  <2> QED BY <2>1, <2>2, <2>3 DEF Folds
<1> QED BY <1>1, <1>2

LEMMA FoldLeftFolds ==
  ASSUME NEW X, NEW seq \in Seq(X), NEW base
  PROVE  \E f : Folds(f, base, seq, Len(seq)) /\ FoldLeft(Op, base, seq) = f[1 .. Len(seq)]
<1> DEFINE F == CHOOSE f : Folds(f, base, seq, Len(seq))
<1>1. Folds(F, base, seq, Len(seq))
  <2>1. \E f : Folds(f, base, seq, Len(seq))
    BY FoldsExists, Len(seq) \in Nat
  <2> QED BY <2>1, Zenon
<1>2. DOMAIN seq = 1 .. Len(seq)
  OBVIOUS
<1>3. FoldLeft(Op, base, seq) = F[1 .. Len(seq)]
  BY <1>2, Zenon DEF FoldLeft, MapThenFoldSet, Folds
<1> QED BY <1>1, <1>3

\* The two equations of FoldLeft: the loop has not started ...
THEOREM FoldLeftEmpty ==
  ASSUME NEW base
  PROVE  FoldLeft(Op, base, <<>>) = base
<1>1. PICK f : Folds(f, base, <<>>, Len(<<>>)) /\ FoldLeft(Op, base, <<>>) = f[1 .. Len(<<>>)]
  BY FoldLeftFolds, <<>> \in Seq({})
<1>2. Len(<<>>) = 0
  OBVIOUS
<1>3. Folds(f, base, <<>>, 0) /\ FoldLeft(Op, base, <<>>) = f[1 .. 0]
  BY <1>1, <1>2
<1>4. f[1 .. 0] = base
  BY <1>3 DEF Folds
<1> QED BY <1>3, <1>4

\* ... and the loop takes one more turn.
THEOREM FoldLeftAppend ==
  ASSUME NEW X, NEW seq \in Seq(X), NEW x \in X, NEW base
  PROVE  FoldLeft(Op, base, Append(seq, x)) = Op(FoldLeft(Op, base, seq), x)
<1> DEFINE n == Len(seq)
           ext == Append(seq, x)
<1>a. /\ n \in Nat /\ n + 1 \in Nat
      /\ ext \in Seq(X) /\ Len(ext) = n + 1 /\ ext[n + 1] = x
      /\ \A k \in 1 .. n : ext[k] = seq[k]
  OBVIOUS
<1>1. PICK f : Folds(f, base, seq, n) /\ FoldLeft(Op, base, seq) = f[1 .. n]
  BY FoldLeftFolds
<1>2. PICK g : Folds(g, base, ext, n + 1) /\ FoldLeft(Op, base, ext) = g[1 .. n + 1]
  BY FoldLeftFolds, <1>a
<1> HIDE DEF n, ext
<1>3. \A k \in 1 .. n : f[1 .. k] = Op(f[1 .. k - 1], seq[k])
  BY <1>1, <1>a, FoldsStep
<1>4. /\ f[1 .. 0] = base /\ g[1 .. 0] = base
      /\ \A k \in 1 .. n + 1 : g[1 .. k] = Op(g[1 .. k - 1], ext[k])
  BY <1>1, <1>2, <1>a, FoldsStep
<1> DEFINE S == {k \in Nat : k <= n => f[1 .. k] = g[1 .. k]}
<1>5. 0 \in S
  BY <1>4
<1>6. ASSUME NEW k \in Nat, k \in S PROVE k + 1 \in S
  <2>1. SUFFICES ASSUME k + 1 <= n PROVE f[1 .. k + 1] = g[1 .. k + 1]
    OBVIOUS
  <2>2. f[1 .. k] = g[1 .. k]
    BY <2>1, <1>6, <1>a
  <2>3. k + 1 \in 1 .. n /\ k + 1 \in 1 .. n + 1 /\ (k + 1) - 1 = k
    BY <2>1, <1>a
  <2>4. f[1 .. k + 1] = Op(f[1 .. k], seq[k + 1])
    BY <2>3, <1>3
  <2>5. g[1 .. k + 1] = Op(g[1 .. k], ext[k + 1])
    BY <2>3, <1>4
  <2> QED BY <2>2, <2>3, <2>4, <2>5, <1>a
<1> HIDE DEF S
<1>7. n \in S
  BY <1>5, <1>6, <1>a, SetInduction
<1>8. f[1 .. n] = g[1 .. n]
  BY <1>7, <1>a DEF S
<1>9. g[1 .. n + 1] = Op(g[1 .. n], x)
  BY <1>4, <1>a, n + 1 \in 1 .. n + 1, (n + 1) - 1 = n
<1> QED BY <1>1, <1>2, <1>8, <1>9 DEF ext
===============================================================================
