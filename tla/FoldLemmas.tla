----------------------------- MODULE FoldLemmas -----------------------------
(***************************************************************************)
(* Induction over numbers and over what a fold computes, in the form of    *)
(* sets and functions.                                                     *)
(*                                                                         *)
(* A fold is the function on the subsets of a finite set that satisfies a  *)
(* recursive equation.  There is one if the operator that is folded maps   *)
(* some set X to itself, and its values are in X.                          *)
(***************************************************************************)
EXTENDS Integers, FiniteSetsExt, FiniteSetTheorems, WellFoundedInduction, TLAPS

\* A set of numbers has a least one.
LEMMA LeastExists ==
    ASSUME NEW S \in SUBSET Nat, S # {}
    PROVE  \E m \in S : \A x \in S : m <= x
<1>1. PICK m \in S : \A x \in S : <<x, m>> \notin OpToRel(<, Nat)
  BY NatLessThanWellFounded, WFMin
<1>2. \A x \in S : ~ (x < m)
  BY <1>1 DEF OpToRel
<1> QED
  BY <1>2

\* A set has an element of least measure.
LEMMA LeastOf ==
    ASSUME NEW S, S # {}, NEW f, \A x \in S : f[x] \in Nat
    PROVE  \E m \in S : \A x \in S : f[m] <= f[x]
<1> DEFINE V == {f[x] : x \in S}
<1>1. V \in SUBSET Nat /\ V # {}
  OBVIOUS
<1>2. PICK m \in V : \A x \in V : m <= x
  <2> HIDE DEF V
  <2> QED
    BY <1>1, LeastExists
<1> QED
  BY <1>2

\* A bounded set of numbers has a greatest one.
LEMMA MaxIsGreatest ==
    ASSUME NEW S \in SUBSET Nat, S # {}, NEW n \in Nat, \A x \in S : x <= n
    PROVE  Max(S) \in S /\ \A x \in S : x <= Max(S)
<1> DEFINE U == {m \in Nat : \A x \in S : x <= m}
<1>1. PICK m \in U : \A x \in U : m <= x
  <2>1. U \in SUBSET Nat /\ n \in U
    OBVIOUS
  <2> HIDE DEF U
  <2> QED
    BY <2>1, LeastExists
<1>2. m \in S
  <2>1. SUFFICES ASSUME m \notin S PROVE m - 1 \in U
    BY <1>1
  <2>2. PICK y \in S : TRUE
    OBVIOUS
  <2>3. y \in Nat /\ y <= m /\ y # m /\ m \in Nat
    BY <2>1
  <2> QED
    BY <2>1, <2>3
<1>3. \E x \in S : \A y \in S : x >= y
  BY <1>1, <1>2
<1> QED
  BY <1>3 DEF Max

\* Induction: a set that holds 0 and with every number the next one.
LEMMA NumbersAreReached ==
    ASSUME NEW T, 0 \in T, \A k \in Nat : k \in T => k + 1 \in T
    PROVE  Nat \subseteq T
<1> DEFINE S == Nat \ T
<1> SUFFICES ASSUME S # {} PROVE FALSE
  OBVIOUS
<1>1. PICK m \in S : \A x \in S : m <= x
  <2> HIDE DEF S
  <2>1. S \in SUBSET Nat
    BY DEF S
  <2> QED
    BY <2>1, LeastExists
<1>2. m \in Nat /\ m \notin T /\ m # 0
  BY <1>1
<1>3. m - 1 \in Nat /\ m - 1 \notin S
  BY <1>1, <1>2
<1>4. (m - 1) + 1 \in T
  BY <1>3
<1> QED
  BY <1>2, <1>4

\* Who steps by one, and never comes back in two steps, goes one way.
LEMMA OneWay ==
    ASSUME NEW n \in Nat, NEW at \in [0 .. n -> Int],
           \A k \in 0 .. n - 1 : at[k + 1] = at[k] + 1 \/ at[k + 1] = at[k] - 1,
           \A k \in 0 .. n - 2 : at[k + 2] # at[k]
    PROVE  at[n] = at[0] + n \/ at[n] = at[0] - n
<1> DEFINE Up(m) == \A k \in 0 .. m : at[k] = at[0] + k
           Down(m) == \A k \in 0 .. m : at[k] = at[0] - k
           T == {m \in Nat : m <= n => Up(m) \/ Down(m)}
<1>1. 0 \in T
  OBVIOUS
<1>2. ASSUME NEW m \in Nat, m \in T PROVE m + 1 \in T
  <2>1. SUFFICES ASSUME m + 1 <= n PROVE Up(m + 1) \/ Down(m + 1)
    OBVIOUS
  <2>2. Up(m) \/ Down(m)
    BY <1>2, <2>1
  <2>3. m \in 0 .. n - 1 /\ m \in 0 .. n /\ at[m] \in Int /\ at[0] \in Int
    BY <2>1
  <2>4. at[m + 1] = at[m] + 1 \/ at[m + 1] = at[m] - 1
    BY <2>3
  <2>5. CASE m = 0
    BY <2>3, <2>4, <2>5
  <2>6. CASE m # 0
    <3>1. m - 1 \in 0 .. n - 2 /\ m - 1 \in 0 .. m /\ m \in 0 .. m /\ (m - 1) + 2 = m + 1
      BY <2>1, <2>6
    <3>2. at[m + 1] # at[m - 1]
      BY <3>1
    <3>3. CASE Up(m)
      <4>1. at[m + 1] = at[0] + (m + 1)
        BY <2>3, <2>4, <3>1, <3>2, <3>3
      <4>2. ASSUME NEW k \in 0 .. (m + 1) PROVE at[k] = at[0] + k
        BY <3>3, <4>1
      <4> QED
        BY <4>2
    <3>4. CASE Down(m)
      <4>1. at[m + 1] = at[0] - (m + 1)
        BY <2>3, <2>4, <3>1, <3>2, <3>4
      <4>2. ASSUME NEW k \in 0 .. (m + 1) PROVE at[k] = at[0] - k
        BY <3>4, <4>1
      <4> QED
        BY <4>2
    <3> QED
      BY <2>2, <3>3, <3>4
  <2> QED
    BY <2>5, <2>6
<1>3. n \in T
  <2> HIDE DEF T
  <2> QED
    BY <1>1, <1>2, NumbersAreReached
<1> QED
  BY <1>3

\* Finite sets: a set of sets that holds {}, and every set that is one element
\* larger than some it holds.
LEMMA SubsetsAreReached ==
    ASSUME NEW S, IsFiniteSet(S), NEW T, {} \in T,
           \A s \in SUBSET S : s # {} /\ (\A x \in s : s \ {x} \in T) => s \in T
    PROVE  SUBSET S \subseteq T
<1> DEFINE K == {k \in Nat : \A s \in SUBSET S : Cardinality(s) = k => s \in T}
<1>1. \A s \in SUBSET S : IsFiniteSet(s) /\ Cardinality(s) \in Nat
  BY FS_Subset, FS_CardinalityType
<1>2. 0 \in K
  BY <1>1, FS_EmptySet
<1>3. ASSUME NEW k \in Nat, k \in K PROVE k + 1 \in K
  <2>1. SUFFICES ASSUME NEW s \in SUBSET S, Cardinality(s) = k + 1 PROVE s \in T
    OBVIOUS
  <2>2. s # {} /\ IsFiniteSet(s)
    BY <1>1, <2>1, FS_EmptySet
  <2>3. ASSUME NEW x \in s PROVE s \ {x} \in T
    <3>1. Cardinality(s \ {x}) = Cardinality(s) - 1
      BY <2>2, FS_RemoveElement
    <3>2. Cardinality(s \ {x}) = k /\ s \ {x} \in SUBSET S
      BY <2>1, <3>1
    <3> QED
      BY <1>3, <3>2
  <2> QED
    BY <2>2, <2>3
<1> HIDE DEF K
<1>4. Nat \subseteq K
  BY <1>2, <1>3, NumbersAreReached
<1> QED
  BY <1>1, <1>4 DEF K

\* Images of finite sets.
LEMMA ImageIsFinite ==
    ASSUME NEW S, IsFiniteSet(S), NEW f, f = [x \in S |-> f[x]]
    PROVE  IsFiniteSet({f[x] : x \in S})
<1>1. f \in [S -> {f[x] : x \in S}]
  OBVIOUS
<1>2. f \in Surjection(S, {f[x] : x \in S})
  BY <1>1 DEF Surjection
<1> QED
  BY <1>2, FS_Surjection

-----------------------------------------------------------------------------
(* Folds.                                                                  *)

\* A solution of the equation, on some of the subsets of S.
Solves(f, D, b, op, ch, X) ==
    /\ f \in [D -> X]
    /\ \A s \in D : f[s] = IF s = {} THEN b ELSE op[<<ch[s], f[s \ {ch[s]}]>>]

\* There is one on all of them.
LEMMA FoldExists ==
    ASSUME NEW S, IsFiniteSet(S), NEW X, NEW b \in X, NEW op \in [S \X X -> X],
           NEW ch, \A s \in SUBSET S : s # {} => ch[s] \in s
    PROVE  \E f : Solves(f, SUBSET S, b, op, ch, X)
<1> DEFINE D(k) == {s \in SUBSET S : Cardinality(s) <= k}
           K == {k \in Nat : \E f : Solves(f, D(k), b, op, ch, X)}
<1>1. \A s \in SUBSET S : /\ IsFiniteSet(s) /\ Cardinality(s) \in Nat
                          /\ (Cardinality(s) = 0 <=> s = {})
  BY FS_Subset, FS_CardinalityType, FS_EmptySet
<1>2. 0 \in K
  <2>1. \A s \in D(0) : s = {}
    BY <1>1
  <2>2. Solves([s \in D(0) |-> b], D(0), b, op, ch, X)
    BY <2>1 DEF Solves
  <2> QED
    BY <2>2
<1>3. ASSUME NEW k \in Nat, k \in K PROVE k + 1 \in K
  <2>1. PICK f : Solves(f, D(k), b, op, ch, X)
    BY <1>3
  <2> DEFINE g == [s \in D(k + 1) |-> IF s = {} THEN b ELSE op[<<ch[s], f[s \ {ch[s]}]>>]]
  <2>2. ASSUME NEW s \in D(k) PROVE s \in D(k + 1) /\ g[s] = f[s]
    <3>1. s \in D(k + 1)
      BY <1>1
    <3> HIDE DEF D
    <3> QED
      BY <2>1, <3>1 DEF Solves
  <2>3. ASSUME NEW s \in D(k + 1), s # {}
        PROVE  ch[s] \in S /\ s \ {ch[s]} \in D(k)
    <3>1. ch[s] \in s
      BY <2>3
    <3>2. Cardinality(s \ {ch[s]}) = Cardinality(s) - 1 /\ Cardinality(s) \in Nat
      BY <1>1, <3>1, FS_RemoveElement
    <3> QED
      BY <3>1, <3>2
  <2> HIDE DEF D
  <2>4. g \in [D(k + 1) -> X]
    BY <2>1, <2>3 DEF Solves
  <2>5. ASSUME NEW s \in D(k + 1)
        PROVE  g[s] = IF s = {} THEN b ELSE op[<<ch[s], g[s \ {ch[s]}]>>]
    BY <2>2, <2>3
  <2>6. Solves(g, D(k + 1), b, op, ch, X)
    BY <2>4, <2>5 DEF Solves
  <2> QED
    BY <2>6
<1>4. Cardinality(S) \in K
  <2> HIDE DEF K
  <2> QED
    BY <1>1, <1>2, <1>3, NumbersAreReached
<1>5. \A s \in SUBSET S : Cardinality(s) <= Cardinality(S)
  BY FS_Subset
<1>6. D(Cardinality(S)) = SUBSET S
  BY <1>5
<1>7. \E f : Solves(f, D(Cardinality(S)), b, op, ch, X)
  BY <1>4
<1> HIDE DEF D
<1> QED
  BY <1>6, <1>7

\* What a fold has computed for every part of S is in X if each element keeps it there.
LEMMA FoldStaysIn ==
    ASSUME NEW S, IsFiniteSet(S), NEW X, NEW fold, fold[{}] \in X,
           \A s \in SUBSET S : s # {} => \E x \in s : fold[s \ {x}] \in X => fold[s] \in X
    PROVE  fold[S] \in X
<1> DEFINE T == {s \in SUBSET S : fold[s] \in X}
<1>1. {} \in T
  OBVIOUS
<1>2. \A s \in SUBSET S : s # {} /\ (\A x \in s : s \ {x} \in T) => s \in T
  OBVIOUS
<1> HIDE DEF T
<1>3. SUBSET S \subseteq T
  BY <1>1, <1>2, SubsetsAreReached
<1> QED
  BY <1>3 DEF T

\* The numbers up to n, one after the other: what FoldLeft takes off a domain.
LEMMA LastOfMany ==
    ASSUME NEW n \in Nat
    PROVE  /\ IsFiniteSet(1 .. n)
           /\ \A s \in SUBSET (1 .. n) : s # {} => Max(s) \in s
           /\ \A k \in 1 .. n : /\ 1 .. k \in SUBSET (1 .. n) /\ 1 .. k # {}
                              /\ Max(1 .. k) = k /\ (1 .. k) \ {k} = 1 .. k - 1
<1>1. IsFiniteSet(1 .. n)
  BY FS_Interval
<1>2. ASSUME NEW s \in SUBSET (1 .. n), s # {} PROVE Max(s) \in s /\ \A x \in s : x <= Max(s)
  BY <1>2, MaxIsGreatest
<1>3. ASSUME NEW k \in 1 .. n
      PROVE  /\ 1 .. k \in SUBSET (1 .. n) /\ 1 .. k # {}
             /\ Max(1 .. k) = k /\ (1 .. k) \ {k} = 1 .. k - 1
  <2>1. 1 .. k \in SUBSET (1 .. n) /\ k \in 1 .. k
    OBVIOUS
  <2>2. Max(1 .. k) \in 1 .. k /\ k <= Max(1 .. k)
    BY <1>2, <2>1
  <2> QED
    BY <2>1, <2>2
<1> QED
  BY <1>1, <1>2, <1>3

\* So a fold over 1 .. n has a solution.
LeftSolves(f, n, b, op, X) ==
    /\ f \in [SUBSET (1 .. n) -> X]
    /\ \A s \in SUBSET (1 .. n) : f[s] = IF s = {} THEN b ELSE op[<<Max(s), f[s \ {Max(s)}]>>]

\* There is a solution for every step and beginning.
LEMMA LeftFoldExists ==
    ASSUME NEW n \in Nat, NEW X, NEW b \in X, NEW op \in [(1 .. n) \X X -> X]
    PROVE  \E f : LeftSolves(f, n, b, op, X)
<1> DEFINE ch == [s \in SUBSET (1 .. n) |-> Max(s)]
<1>1. IsFiniteSet(1 .. n) /\ \A s \in SUBSET (1 .. n) : s # {} => ch[s] \in s
  BY LastOfMany
<1>2. PICK f : Solves(f, SUBSET (1 .. n), b, op, ch, X)
  <2> HIDE DEF ch
  <2> QED
    BY <1>1, FoldExists
<1> QED
  BY <1>2 DEF Solves, LeftSolves

-----------------------------------------------------------------------------
(* Sums.                                                                   *)

\* The equation of a sum over a set.
IsSum(f, S, w) ==
    f = [t \in SUBSET S |-> IF t = {} THEN 0
                            ELSE w[CHOOSE x \in t : TRUE] + f[t \ {CHOOSE x \in t : TRUE}]]

\* It has a solution.
LEMMA SumExists ==
    ASSUME NEW S, IsFiniteSet(S), NEW w \in [S -> Int]
    PROVE  \E f : IsSum(f, S, w)
<1> DEFINE ch == [t \in SUBSET S |-> CHOOSE x \in t : TRUE]
           op == [x \in S \X Int |-> w[x[1]] + x[2]]
<1>1. op \in [S \X Int -> Int] /\ \A x \in S, k \in Int : op[<<x, k>>] = w[x] + k
  OBVIOUS
<1>2. \A t \in SUBSET S : t # {} => ch[t] \in t
  OBVIOUS
<1>6. \A t \in SUBSET S : ch[t] = CHOOSE x \in t : TRUE
  OBVIOUS
<1> HIDE DEF op, ch
<1>3. PICK f : Solves(f, SUBSET S, 0, op, ch, Int)
  <2>1. op \in [S \X Int -> Int] /\ 0 \in Int
    BY <1>1
  <2> QED
    BY <1>2, <2>1, FoldExists
<1>4. ASSUME NEW t \in SUBSET S, t # {}
      PROVE  f[t] = w[CHOOSE x \in t : TRUE] + f[t \ {CHOOSE x \in t : TRUE}]
  <2> DEFINE y == CHOOSE x \in t : TRUE
  <2>1. y \in S /\ ch[t] = y /\ t \ {y} \in SUBSET S
    BY <1>2, <1>4, <1>6
  <2> HIDE DEF y
  <2>2. f[t] = op[<<y, f[t \ {y}]>>] /\ f[t \ {y}] \in Int
    BY <1>3, <1>4, <2>1 DEF Solves
  <2>3. f[t] = w[y] + f[t \ {y}]
    BY <1>1, <2>1, <2>2
  <2> QED
    BY <2>3 DEF y
<1>5. f = [t \in SUBSET S |-> f[t]] /\ f[{}] = 0
  BY <1>3 DEF Solves
<1> DEFINE val(t) == IF t = {} THEN 0
                     ELSE w[CHOOSE x \in t : TRUE] + f[t \ {CHOOSE x \in t : TRUE}]
<1>7. \A t \in SUBSET S : f[t] = val(t)
  BY <1>4, <1>5
<1>8. f = [t \in SUBSET S |-> val(t)]
  <2> HIDE DEF val
  <2> QED
    BY <1>5, <1>7
<1> QED
  BY <1>8 DEF IsSum

\* Whichever element is taken first, the sum is the same.
SumHas(f, S, w) ==
    /\ f \in [SUBSET S -> Int] /\ f[{}] = 0
    /\ \A t \in SUBSET S : \A x \in t : f[t] = w[x] + f[t \ {x}]

\* A sum over a finite set does not depend on the order of its elements.
LEMMA SumTakesAny ==
    ASSUME NEW S, IsFiniteSet(S), NEW w \in [S -> Int], NEW f, IsSum(f, S, w)
    PROVE  SumHas(f, S, w)
<1> DEFINE N == {t \in SUBSET S : f[t] \in Int}
           T == {t \in SUBSET S : \A x \in t : f[t] = w[x] + f[t \ {x}]}
<1>1. f = [t \in SUBSET S |-> f[t]] /\ f[{}] = 0
  BY DEF IsSum
<1>5. \A t \in SUBSET S : f[t] \in Int
  <2>1. {} \in N
    BY <1>1
  <2>2. ASSUME NEW t \in SUBSET S, t # {}, \A x \in t : t \ {x} \in N PROVE t \in N
    <3> DEFINE y == CHOOSE x \in t : TRUE
    <3>1. y \in t /\ w[y] \in Int
      BY <2>2
    <3>2. f[t] = w[y] + f[t \ {y}]
      BY <2>2 DEF IsSum
    <3> HIDE DEF y
    <3>3. f[t \ {y}] \in Int
      BY <2>2, <3>1
    <3> QED
      BY <3>1, <3>2, <3>3
  <2> HIDE DEF N
  <2>3. SUBSET S \subseteq N
    BY <2>1, <2>2, SubsetsAreReached
  <2> QED
    BY <2>3 DEF N
<1>2. {} \in T
  BY <1>1
<1>3. ASSUME NEW t \in SUBSET S, t # {}, \A x \in t : t \ {x} \in T PROVE t \in T
  <2> DEFINE y == CHOOSE x \in t : TRUE
  <2>1. y \in t /\ w[y] \in Int
    BY <1>3
  <2>2. f[t] = w[y] + f[t \ {y}]
    BY <1>3 DEF IsSum
  <2> HIDE DEF y
  <2>3. \A r \in SUBSET t : f[r] \in Int
    BY <1>5
  <2>4. ASSUME NEW x \in t PROVE f[t] = w[x] + f[t \ {x}]
    <3>1. CASE x = y
      BY <2>2, <3>1
    <3>2. CASE x # y
      <4>1. x \in t \ {y} /\ y \in t \ {x} /\ (t \ {y}) \ {x} = (t \ {x}) \ {y} /\ w[x] \in Int
        BY <2>1, <3>2
      <4>2. f[t \ {y}] = w[x] + f[(t \ {y}) \ {x}]
        BY <1>3, <2>1, <4>1
      <4>3. f[t \ {x}] = w[y] + f[(t \ {x}) \ {y}]
        BY <1>3, <2>1, <4>1
      <4>4. f[(t \ {x}) \ {y}] \in Int
        BY <2>3
      <4>5. f[(t \ {y}) \ {x}] = f[(t \ {x}) \ {y}]
        BY <4>1
      <4> QED
        BY <2>1, <2>2, <4>1, <4>2, <4>3, <4>4, <4>5
    <3> QED
      BY <3>1, <3>2
  <2> QED
    BY <2>4
<1> HIDE DEF N, T
<1>4. SUBSET S \subseteq T
  BY <1>2, <1>3, SubsetsAreReached
<1> QED
  BY <1>1, <1>4, <1>5 DEF T, SumHas
=============================================================================
