----------------------------- MODULE FoldLemmas -----------------------------
(***************************************************************************)
(* Sums and folds over finite sets, for every such set.  The induction     *)
(* theorems of the library are about operators; here a property is the set *)
(* of those that have it.                                                  *)
(***************************************************************************)
EXTENDS Integers, Sequences, SequencesExt, FiniteSetTheorems, TLAPS

-----------------------------------------------------------------------------
(* Induction.                                                              *)

\* What holds of 0 and goes on from each number to the next holds of all.
LEMMA NatSetInduction ==
  ASSUME NEW G \in SUBSET Nat, 0 \in G, \A n \in G : n + 1 \in G
  PROVE  G = Nat
<1>1. SUFFICES ASSUME Nat \ G # {} PROVE FALSE
  OBVIOUS
<1>2. PICK m \in Nat \ G : \A n \in Nat \ G : <<n, m>> \notin OpToRel(<, Nat)
  BY <1>1, NatLessThanWellFounded, WFMin
<1>3. \A n \in Nat \ G : ~(n < m)
  BY <1>2 DEF OpToRel
<1>4. m # 0 /\ m - 1 \in Nat
  OBVIOUS
<1>5. m - 1 \in G
  BY <1>3, <1>4
<1>6. QED
  BY <1>5

\* What holds of a set whenever it holds of that set without any one element holds
\* of all subsets of a finite set.
LEMMA SubsetInduction ==
  ASSUME NEW S, IsFiniteSet(S), NEW G \in SUBSET SUBSET S,
         \A s \in SUBSET S : (\A x \in s : s \ {x} \in G) => s \in G
  PROVE  G = SUBSET S
<1>1. SUFFICES ASSUME (SUBSET S) \ G # {} PROVE FALSE
  OBVIOUS
<1>2. IsWellFoundedOn(StrictSubsetOrdering(S), SUBSET S)
  BY FS_StrictSubsetOrderingWellFounded, FS_FiniteSubsetsOfFinite
<1>3. PICK s \in (SUBSET S) \ G :
        \A t \in (SUBSET S) \ G : <<t, s>> \notin StrictSubsetOrdering(S)
  BY <1>1, <1>2, WFMin
<1>4. ASSUME NEW x \in s PROVE s \ {x} \in G
  <2>1. <<s \ {x}, s>> \in StrictSubsetOrdering(S)
    BY DEF StrictSubsetOrdering
  <2>2. QED
    BY <1>3, <2>1
<1>5. QED
  BY <1>4

-----------------------------------------------------------------------------
(* Folds.                                                                  *)

\* fold takes an element of each set, and goes on with what is left.
IsFold(fold, base, step, pick, S) ==
  fold = [s \in SUBSET S |-> IF s = {} THEN base ELSE step[<<pick[s], fold[s \ {pick[s]}]>>]]

\* A fold over a finite set exists, whichever element it takes each time.
LEMMA FoldExists ==
  ASSUME NEW S, IsFiniteSet(S), NEW V, NEW base \in V, NEW step \in [S \X V -> V],
         NEW pick, \A s \in SUBSET S : s # {} => pick[s] \in s
  PROVE  \E fold \in [SUBSET S -> V] : IsFold(fold, base, step, pick, S)
<1> DEFINE Next(fold, s) == IF s = {} THEN base ELSE step[<<pick[s], fold[s \ {pick[s]}]>>]
           Upto(n) == \E fold \in [SUBSET S -> V] :
                        \A s \in SUBSET S : Cardinality(s) <= n => fold[s] = Next(fold, s)
           G == {n \in Nat : Upto(n)}
<1>1. \A s \in SUBSET S : IsFiniteSet(s) /\ Cardinality(s) \in Nat /\ Cardinality(s) <= Cardinality(S)
  BY FS_Subset, FS_CardinalityType
<1>2. ASSUME NEW s \in SUBSET S, s # {}
      PROVE  Cardinality(s \ {pick[s]}) = Cardinality(s) - 1 /\ s \ {pick[s]} \in SUBSET S
  BY <1>1, <1>2, FS_RemoveElement
<1>3. ASSUME NEW fold \in [SUBSET S -> V], NEW s \in SUBSET S PROVE Next(fold, s) \in V
  OBVIOUS
<1>4. 0 \in G
  <2> DEFINE fold == [s \in SUBSET S |-> base]
  <2>1. fold \in [SUBSET S -> V]
    OBVIOUS
  <2>2. ASSUME NEW s \in SUBSET S, Cardinality(s) <= 0 PROVE fold[s] = Next(fold, s)
    <3>1. Cardinality(s) = 0
      BY <1>1, <2>2
    <3>2. s = {}
      BY <1>1, <3>1, FS_EmptySet
    <3>3. QED
      BY <3>2
  <2> HIDE DEF fold
  <2>3. QED
    BY <2>1, <2>2
<1>5. ASSUME NEW n \in G PROVE n + 1 \in G
  <2>1. PICK fold \in [SUBSET S -> V] :
          \A s \in SUBSET S : Cardinality(s) <= n => fold[s] = Next(fold, s)
    OBVIOUS
  <2> DEFINE more == [s \in SUBSET S |-> Next(fold, s)]
  <2>2. more \in [SUBSET S -> V]
    BY <1>3
  <2>3. ASSUME NEW s \in SUBSET S, Cardinality(s) <= n PROVE more[s] = fold[s]
    BY <2>1, <2>3
  <2>4. ASSUME NEW s \in SUBSET S, Cardinality(s) <= n + 1 PROVE more[s] = Next(more, s)
    <3>1. CASE s = {}
      BY <3>1
    <3>2. CASE s # {}
      <4>1. Cardinality(s \ {pick[s]}) <= n /\ s \ {pick[s]} \in SUBSET S
        BY <1>1, <1>2, <2>4, <3>2
      <4>2. more[s \ {pick[s]}] = fold[s \ {pick[s]}]
        BY <2>3, <4>1
      <4>3. QED
        BY <3>2, <4>2
    <3>3. QED
      BY <3>1, <3>2
  <2> HIDE DEF more
  <2>5. n + 1 \in Nat
    OBVIOUS
  <2>6. QED
    BY <2>2, <2>4, <2>5
<1>6. G = Nat
  <2> HIDE DEF G
  <2>1. G \in SUBSET Nat
    BY DEF G
  <2>2. QED
    BY <1>4, <1>5, <2>1, NatSetInduction
<1>7. Upto(Cardinality(S))
  BY <1>1, <1>6
<1>8. PICK fold \in [SUBSET S -> V] : \A s \in SUBSET S : fold[s] = Next(fold, s)
  BY <1>1, <1>7
<1>9. IsFold(fold, base, step, pick, S)
  BY <1>8 DEF IsFold
<1>10. QED
  BY <1>9

-----------------------------------------------------------------------------
(* Sums.                                                                   *)

\* The sums of the values of f over each set of elements of S.
AreSums(sum, f, S) ==
  /\ sum \in [SUBSET S -> Nat]
  /\ SumFunction(f) = sum[S]
  /\ sum[{}] = 0
  /\ \A s \in SUBSET S : \A x \in s : sum[s] = f[x] + sum[s \ {x}]

\* They are sums in one order at least.
OneByOne(sum, f, S) ==
  /\ sum \in [SUBSET S -> Nat]
  /\ SumFunction(f) = sum[S]
  /\ sum[{}] = 0
  /\ \A s \in SUBSET S : s # {} => \E x \in s : sum[s] = f[x] + sum[s \ {x}]

\* Adding up takes the elements in an order of its own.
LEMMA SumUnfolds ==
  ASSUME NEW S, IsFiniteSet(S), NEW f \in [S -> Nat]
  PROVE  \E sum : OneByOne(sum, f, S)
<1> DEFINE Sum(it) == it = [s \in SUBSET S |->
                             IF s = {} THEN 0
                             ELSE LET x == CHOOSE y \in s : TRUE IN f[x] + it[s \ {x}]]
           sum == CHOOSE it : Sum(it)
           pick == [s \in SUBSET S |-> CHOOSE y \in s : TRUE]
           step == [p \in S \X Nat |-> f[p[1]] + p[2]]
<1>1. SumFunction(f) = sum[S]
  <2>1. DOMAIN f = S
    OBVIOUS
  <2>2. QED
    BY <2>1 DEF SumFunction, SumFunctionOnSet, FoldFunctionOnSet, MapThenFoldSet
<1>2. \A s \in SUBSET S : s # {} => pick[s] \in s /\ pick[s] = CHOOSE y \in s : TRUE
  OBVIOUS
<1>3. step \in [S \X Nat -> Nat] /\ \A x \in S, n \in Nat : step[<<x, n>>] = f[x] + n
  OBVIOUS
<1>4. \E it : Sum(it)
  <2> HIDE DEF pick, step
  <2>1. PICK it \in [SUBSET S -> Nat] : IsFold(it, 0, step, pick, S)
    <3>1. 0 \in Nat
      OBVIOUS
    <3>2. QED
      BY <1>2, <1>3, <3>1, FoldExists
  <2>2. ASSUME NEW s \in SUBSET S, s # {}
        PROVE  step[<<pick[s], it[s \ {pick[s]}]>>] = f[CHOOSE y \in s : TRUE] + it[s \ {CHOOSE y \in s : TRUE}]
    BY <1>2, <1>3, <2>2
  <2>3. Sum(it)
    BY <2>1, <2>2 DEF IsFold
  <2>4. QED
    BY <2>3
<1>5. Sum(sum)
  <2> HIDE DEF Sum
  <2>1. QED
    BY <1>4
<1> HIDE DEF sum
<1>6. sum[{}] = 0
  BY <1>5
<1>7. ASSUME NEW s \in SUBSET S, s # {}
      PROVE  sum[s] = f[pick[s]] + sum[s \ {pick[s]}] /\ pick[s] \in s
  BY <1>2, <1>5, <1>7
<1>8. sum \in [SUBSET S -> Nat]
  <2> DEFINE G == {s \in SUBSET S : sum[s] \in Nat}
  <2>1. ASSUME NEW s \in SUBSET S, \A x \in s : s \ {x} \in G PROVE s \in G
    <3>1. CASE s = {}
      BY <1>6, <3>1
    <3>2. CASE s # {}
      <4>1. /\ sum[s] = f[pick[s]] + sum[s \ {pick[s]}]
            /\ pick[s] \in S /\ sum[s \ {pick[s]}] \in Nat
        BY <1>7, <2>1, <3>2
      <4> HIDE DEF pick
      <4>2. f[pick[s]] \in Nat
        BY <4>1
      <4>3. QED
        BY <4>1, <4>2
    <3>3. QED
      BY <3>1, <3>2
  <2>2. G = SUBSET S
    <3> HIDE DEF G
    <3>1. G \in SUBSET SUBSET S
      BY DEF G
    <3>2. QED
      BY <2>1, <3>1, SubsetInduction
  <2>3. QED
    BY <1>5, <2>2
<1>9. OneByOne(sum, f, S)
  BY <1>1, <1>6, <1>7, <1>8 DEF OneByOne
<1>10. QED
  BY <1>9

\* The order makes no difference to a sum.
LEMMA SumInAnyOrder ==
  ASSUME NEW S, IsFiniteSet(S), NEW f \in [S -> Nat], NEW sum, OneByOne(sum, f, S)
  PROVE  AreSums(sum, f, S)
<1> DEFINE Good(s) == \A x \in s : sum[s] = f[x] + sum[s \ {x}]
           G == {s \in SUBSET S : Good(s)}
<1>0. /\ sum \in [SUBSET S -> Nat]
      /\ \A s \in SUBSET S : s # {} => \E x \in s : sum[s] = f[x] + sum[s \ {x}]
  BY DEF OneByOne
<1>1. ASSUME NEW s \in SUBSET S, \A x \in s : s \ {x} \in G, NEW x \in s
      PROVE  sum[s] = f[x] + sum[s \ {x}]
  <2>1. PICK y \in s : sum[s] = f[y] + sum[s \ {y}]
    <3>1. s # {}
      BY <1>1
    <3>2. QED
      BY <1>0, <3>1
  <2>2. CASE x # y
    <3> DEFINE t == (s \ {y}) \ {x}
    <3>1. sum[s \ {y}] = f[x] + sum[t]
      BY <1>1, <2>2
    <3>2. sum[s \ {x}] = f[y] + sum[t]
      <4>1. t = (s \ {x}) \ {y}
        OBVIOUS
      <4>2. QED
        BY <1>1, <2>2, <4>1
    <3>3. t \in SUBSET S
      OBVIOUS
    <3> HIDE DEF t
    <3>4. f[x] \in Nat /\ f[y] \in Nat /\ sum[t] \in Nat
      BY <1>0, <3>3
    <3>5. QED
      BY <2>1, <3>1, <3>2, <3>4
  <2>3. QED
    BY <2>1, <2>2
<1>2. G = SUBSET S
  <2>1. \A s \in SUBSET S : (\A x \in s : s \ {x} \in G) => s \in G
    BY <1>1
  <2> HIDE DEF G
  <2>2. G \in SUBSET SUBSET S
    BY DEF G
  <2>3. QED
    BY <2>1, <2>2, SubsetInduction
<1>3. QED
  BY <1>2 DEF OneByOne, AreSums

\* A sum with an element is the sum without it and that element.
LEMMA SumProperties ==
  ASSUME NEW S, IsFiniteSet(S), NEW f \in [S -> Nat]
  PROVE  \E sum : AreSums(sum, f, S)
BY SumUnfolds, SumInAnyOrder

LEMMA SumIsNat ==
  ASSUME NEW S, IsFiniteSet(S), NEW f \in [S -> Nat]
  PROVE  SumFunction(f) \in Nat
<1>1. PICK sum : AreSums(sum, f, S)
  BY SumProperties
<1>2. QED
  BY <1>1 DEF AreSums

\* A sum is less than one over more elements, if each element is no greater and one
\* is less, and those that the other sum leaves out are zero.
LEMMA SumLess ==
  ASSUME NEW S, IsFiniteSet(S), NEW T \in SUBSET S, NEW f \in [S -> Nat], NEW g \in [T -> Nat],
         \A x \in T : f[x] <= g[x], \A x \in S \ T : f[x] = 0,
         NEW c \in T, f[c] < g[c]
  PROVE  SumFunction(f) < SumFunction(g)
<1>1. IsFiniteSet(T)
  BY FS_Subset
<1>2. PICK sf : AreSums(sf, f, S)
  BY SumProperties
<1>3. PICK sg : AreSums(sg, g, T)
  BY <1>1, SumProperties
<1> DEFINE Good(s) == /\ sf[s] <= sg[s \cap T]
                      /\ c \in s => sf[s] < sg[s \cap T]
           G == {s \in SUBSET S : Good(s)}
<1>4. ASSUME NEW s \in SUBSET S, \A x \in s : s \ {x} \in G PROVE Good(s)
  <2>1. CASE s = {}
    BY <1>2, <1>3, <2>1 DEF AreSums
  <2>2. ASSUME NEW x \in s, x \in S \ T PROVE Good(s)
    <3>1. sf[s] = 0 + sf[s \ {x}] /\ (s \ {x}) \cap T = s \cap T /\ x # c
      BY <1>2, <2>2 DEF AreSums
    <3>2. Good(s \ {x}) /\ sf[s \ {x}] \in Nat
      BY <1>2, <1>4 DEF AreSums
    <3>3. sf[s] = sf[s \ {x}] /\ (c \in s => c \in s \ {x})
      BY <3>1, <3>2
    <3>4. QED
      BY <3>1, <3>2, <3>3
  <2>3. ASSUME NEW x \in s, x \in T PROVE Good(s)
    <3>1. sf[s] = f[x] + sf[s \ {x}]
      BY <1>2 DEF AreSums
    <3>2. sg[s \cap T] = g[x] + sg[(s \ {x}) \cap T]
      <4>1. (s \ {x}) \cap T = (s \cap T) \ {x} /\ s \cap T \in SUBSET T /\ x \in s \cap T
        BY <2>3
      <4>2. sg[s \cap T] = g[x] + sg[(s \cap T) \ {x}]
        BY <1>3, <4>1, Zenon DEF AreSums
      <4>3. QED
        BY <4>1, <4>2
    <3>3. Good(s \ {x})
      BY <1>4
    <3>4. /\ f[x] \in Nat /\ g[x] \in Nat /\ f[x] <= g[x]
          /\ sf[s \ {x}] \in Nat /\ sg[(s \ {x}) \cap T] \in Nat
      BY <1>2, <1>3, <2>3 DEF AreSums
    <3>5. CASE x = c
      BY <3>1, <3>2, <3>3, <3>4, <3>5
    <3>6. CASE x # c
      BY <3>1, <3>2, <3>3, <3>4, <3>6
    <3>7. QED
      BY <3>5, <3>6
  <2>4. QED
    BY <2>1, <2>2, <2>3
<1>5. G = SUBSET S
  <2>1. \A s \in SUBSET S : (\A x \in s : s \ {x} \in G) => s \in G
    <3> HIDE DEF Good
    <3>1. QED
      BY <1>4
  <2> HIDE DEF G
  <2>2. G \in SUBSET SUBSET S
    BY DEF G
  <2>3. QED
    BY <2>1, <2>2, SubsetInduction
<1>6. Good(S) /\ S \cap T = T /\ c \in S
  BY <1>5
<1>7. QED
  BY <1>2, <1>3, <1>6 DEF AreSums

-----------------------------------------------------------------------------
(* Folds from the left, over what a sequence has at 1 .. n.                *)

\* What holds of 0 and goes on from each number to the next holds up to n.
LEMMA UptoInduction ==
  ASSUME NEW n \in Nat, NEW G \in SUBSET (0 .. n), 0 \in G,
         \A k \in 1 .. n : k - 1 \in G => k \in G
  PROVE  G = 0 .. n
<1> DEFINE H == {k \in Nat : k \in G \/ k > n}
<1>1. 0 \in H
  OBVIOUS
<1>2. ASSUME NEW k \in H PROVE k + 1 \in H
  <2>1. CASE k + 1 > n
    BY <2>1
  <2>2. CASE ~(k + 1 > n)
    <3>1. k \in G /\ k + 1 \in 1 .. n /\ k + 1 - 1 = k
      BY <2>2
    <3>2. k + 1 \in G
      BY <3>1
    <3>3. QED
      BY <3>2
  <2>3. QED
    BY <2>1, <2>2
<1>3. H = Nat
  <2>1. H \in SUBSET Nat
    OBVIOUS
  <2> HIDE DEF H
  <2>2. QED
    BY <1>1, <1>2, <2>1, NatSetInduction
<1>4. ASSUME NEW k \in 0 .. n PROVE k \in G
  <2>1. k \in H /\ ~(k > n)
    BY <1>3
  <2>2. QED
    BY <2>1
<1>5. QED
  BY <1>4

\* Max is the greatest, of numbers up to n.
LEMMA MaxProperties ==
  ASSUME NEW n \in Nat, NEW s \in SUBSET (1 .. n), s # {}
  PROVE  Max(s) \in s /\ \A x \in s : x <= Max(s)
<1> DEFINE Greatest(t) == \E x \in t : \A y \in t : x >= y
           G == {k \in 0 .. n : \A t \in SUBSET (1 .. k) : t # {} => Greatest(t)}
<1>1. 0 \in G
  <2>1. \A t \in SUBSET (1 .. 0) : t = {}
    OBVIOUS
  <2>2. 0 \in 0 .. n
    OBVIOUS
  <2>3. QED
    BY <2>1, <2>2
<1>2. ASSUME NEW k \in 1 .. n, k - 1 \in G PROVE k \in G
  <2>1. ASSUME NEW t \in SUBSET (1 .. k), t # {} PROVE Greatest(t)
    <3>1. CASE k \in t
      BY <3>1
    <3>2. CASE k \notin t
      <4>1. t \in SUBSET (1 .. k - 1)
        BY <3>2
      <4>2. QED
        BY <1>2, <2>1, <4>1
    <3>3. QED
      BY <3>1, <3>2
  <2>2. QED
    BY <2>1
<1>3. G = 0 .. n
  <2> HIDE DEF G
  <2>1. G \in SUBSET (0 .. n)
    BY DEF G
  <2>2. QED
    BY <1>1, <1>2, <2>1, UptoInduction
<1>4. Greatest(s)
  BY <1>3
<1>5. Max(s) \in s /\ \A x \in s : Max(s) >= x
  BY <1>4 DEF Max
<1>6. QED
  BY <1>5

LEMMA MaxOfPrefix ==
  ASSUME NEW n \in Nat, NEW k \in 1 .. n
  PROVE  /\ 1 .. k \in SUBSET (1 .. n) /\ 1 .. k # {}
         /\ Max(1 .. k) = k /\ (1 .. k) \ {k} = 1 .. k - 1
<1>1. 1 .. k \in SUBSET (1 .. n) /\ k \in 1 .. k /\ (1 .. k) \ {k} = 1 .. k - 1
  OBVIOUS
<1>2. Max(1 .. k) \in 1 .. k /\ k <= Max(1 .. k)
  <2>1. 1 .. k # {}
    BY <1>1
  <2>2. QED
    BY <1>1, <2>1, MaxProperties
<1>3. QED
  BY <1>1, <1>2

\* fold takes what comes last, and goes on with what is before it.
IsFoldLeft(fold, base, step, n) ==
  fold = [s \in SUBSET (1 .. n) |-> IF s = {} THEN base ELSE step[<<Max(s), fold[s \ {Max(s)}]>>]]

\* A fold from the left exists.
LEMMA FoldLeftExists ==
  ASSUME NEW n \in Nat, NEW V, NEW base \in V, NEW step \in [(1 .. n) \X V -> V]
  PROVE  \E fold \in [SUBSET (1 .. n) -> V] : IsFoldLeft(fold, base, step, n)
<1> DEFINE pick == [s \in SUBSET (1 .. n) |-> Max(s)]
<1>1. \A s \in SUBSET (1 .. n) : s # {} => pick[s] \in s
  BY MaxProperties
<1>2. IsFiniteSet(1 .. n)
  BY FS_Interval
<1>3. \A s \in SUBSET (1 .. n) : pick[s] = Max(s)
  OBVIOUS
<1> HIDE DEF pick
<1>4. PICK fold \in [SUBSET (1 .. n) -> V] : IsFold(fold, base, step, pick, 1 .. n)
  BY <1>1, <1>2, FoldExists
<1>5. QED
  BY <1>3, <1>4 DEF IsFold, IsFoldLeft

\* The same of a fold that is known only where it has values.
FoldsLeft(fold, base, step, n, V) ==
  /\ fold[{}] = base
  /\ \A s \in SUBSET (1 .. n) :
       s # {} /\ fold[s \ {Max(s)}] \in V => fold[s] = step[<<Max(s), fold[s \ {Max(s)}]>>]

\* by takes the steps one by one.
TakesSteps(by, base, step, n) ==
  /\ by[0] = base
  /\ \A m \in 1 .. n : by[m] = step[<<m, by[m - 1]>>]

StepsLeadTo(last, base, step, n, V) ==
  \E by \in [0 .. n -> V] : TakesSteps(by, base, step, n) /\ by[n] = last

\* A fold from the left, step by step.
LEMMA FoldLeftByStep ==
  ASSUME NEW n \in Nat, NEW V, NEW base \in V, NEW step \in [(1 .. n) \X V -> V],
         NEW fold, FoldsLeft(fold, base, step, n, V)
  PROVE  StepsLeadTo(fold[1 .. n], base, step, n, V)
<1> DEFINE by == [m \in 0 .. n |-> fold[1 .. m]]
           G  == {m \in 0 .. n : fold[1 .. m] \in V}
<1>1. ASSUME NEW m \in 1 .. n, fold[1 .. m - 1] \in V
      PROVE  fold[1 .. m] = step[<<m, fold[1 .. m - 1]>>]
  <2>1. /\ 1 .. m \in SUBSET (1 .. n) /\ 1 .. m # {}
        /\ Max(1 .. m) = m /\ (1 .. m) \ {m} = 1 .. m - 1
    BY MaxOfPrefix
  <2>2. QED
    BY <1>1, <2>1 DEF FoldsLeft
<1>2. 1 .. 0 = {} /\ 0 \in 0 .. n /\ n \in 0 .. n
  OBVIOUS
<1>3. 0 \in G
  BY <1>2 DEF FoldsLeft
<1>4. ASSUME NEW m \in 1 .. n, m - 1 \in G PROVE m \in G
  <2>1. fold[1 .. m - 1] \in V /\ m \in 0 .. n
    BY <1>4
  <2>2. fold[1 .. m] \in V
    BY <1>1, <2>1
  <2>3. QED
    BY <2>1, <2>2
<1>5. G = 0 .. n
  <2> HIDE DEF G
  <2>1. G \in SUBSET (0 .. n)
    BY DEF G
  <2>2. QED
    BY <1>3, <1>4, <2>1, UptoInduction
<1>6. by \in [0 .. n -> V] /\ by[0] = base /\ by[n] = fold[1 .. n]
  BY <1>2, <1>5 DEF FoldsLeft
<1>7. ASSUME NEW m \in 1 .. n PROVE by[m] = step[<<m, by[m - 1]>>]
  <2>1. m \in 0 .. n /\ m - 1 \in 0 .. n
    OBVIOUS
  <2>2. QED
    BY <1>1, <1>5, <2>1
<1> HIDE DEF by
<1>8. QED
  BY <1>6, <1>7 DEF TakesSteps, StepsLeadTo
=============================================================================
