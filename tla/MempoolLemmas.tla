--------------------------- MODULE MempoolLemmas ----------------------------
(***************************************************************************)
(* What is always true of the memory pool, whatever its transactions, and  *)
(* that each operation keeps it true: entries that leave the pool for a    *)
(* conflict, because of a block, of its size or of a reorganization, an    *)
(* entry that is added, and one that is prioritised.  The sums and the     *)
(* closures by which totals and packages are stated come first.            *)
(***************************************************************************)
EXTENDS Mempool, FiniteSetTheorems, TLAPS

\* Nearly all leaves are first-order; the ones with arithmetic cite SMT.
USE Zenon

-----------------------------------------------------------------------------
(* Sums over a finite set: SumFunctionOnSet of the library is defined by   *)
(* recursion on the set, so what it computes is shown for the smallest set *)
(* for which it could be wrong.                                            *)

\* Every non-empty set of natural numbers has a least member.
LEMMA LeastNumber ==
    ASSUME NEW S \in SUBSET Nat, S # {}
    PROVE  \E n \in S : \A m \in S : n <= m
<1> DEFINE R == {ss \in Nat \X Nat : ss[1] < ss[2]}
<1>1. IsWellFoundedOn(R, Nat)
  BY NatLessThanWellFounded DEF OpToRel
<1>2. \A m, n \in Nat : m < n => <<m, n>> \in R
  OBVIOUS
<1> HIDE DEF R
<1>3. PICK n \in S : \A m \in S : <<m, n>> \notin R
  BY <1>1, WFMin
<1>4. \A m \in S : m \in Nat /\ n \in Nat /\ ~(m < n)
  BY <1>2, <1>3
<1>5. \A m \in S : n <= m
  BY SMT, <1>4
<1> QED
  BY <1>5

\* Every non-empty set of subsets of a finite set has a smallest member.
LEMMA Smallest ==
    ASSUME NEW S, IsFiniteSet(S), NEW C \in SUBSET (SUBSET S), C # {}
    PROVE  \E T \in C : \A U \in C : Cardinality(T) <= Cardinality(U)
<1> DEFINE Counts == {Cardinality(T) : T \in C}
<1>1. \A T \in C : Cardinality(T) \in Nat
  BY FS_Subset, FS_CardinalityType
<1>2. Counts \in SUBSET Nat /\ Counts # {}
  BY <1>1
<1>3. PICK n \in Counts : \A m \in Counts : n <= m
  BY <1>2, LeastNumber
<1> QED
  BY <1>3

Pick(T) == CHOOSE x \in T : TRUE

\* g is the recursion by which SumFunctionOnSet adds up f, on the sets of D.
Adds(D, f, g) ==
    \A T \in D : g[T] = IF T = {} THEN 0 ELSE f[Pick(T)] + g[T \ {Pick(T)}]

\* Taking a member out makes a finite set smaller.
LEMMA OneLess ==
    ASSUME NEW T, IsFiniteSet(T), NEW x \in T
    PROVE  /\ IsFiniteSet(T \ {x})
           /\ Cardinality(T \ {x}) \in Nat /\ Cardinality(T) \in Nat
           /\ Cardinality(T \ {x}) = Cardinality(T) - 1
  BY FS_RemoveElement, FS_CardinalityType

\* The choice of Pick is a member.
LEMMA PickIn == ASSUME NEW T, T # {} PROVE Pick(T) \in T
  BY DEF Pick

\* The recursive function behind SumFunctionOnSet exists: by its smallest failure.
LEMMA SumRecursion ==
    ASSUME NEW S, IsFiniteSet(S), NEW f, \A x \in S : f[x] \in Int
    PROVE  \E g \in [SUBSET S -> Int] : Adds(SUBSET S, f, g)
<1> DEFINE Small(n) == {T \in SUBSET S : Cardinality(T) <= n}
           Good(n) == \E g \in [Small(n) -> Int] : Adds(Small(n), f, g)
           Wrong == {n \in Nat : ~Good(n)}
<1>1. \A T \in SUBSET S : /\ IsFiniteSet(T) /\ Cardinality(T) \in Nat
                          /\ Cardinality(T) <= Cardinality(S)
  BY FS_Subset, FS_CardinalityType
<1>2. ASSUME Wrong # {} PROVE FALSE
  <2>1. PICK n \in Wrong : \A m \in Wrong : n <= m
    <3>1. Wrong \in SUBSET Nat
      OBVIOUS
    <3> HIDE DEF Wrong
    <3> QED
      BY <1>2, <3>1, LeastNumber
  <2>2. CASE n = 0
    <3>1. Small(0) = {{}}
      <4>1. \A T \in SUBSET S : Cardinality(T) <= 0 <=> T = {}
        BY SMT, <1>1, FS_EmptySet
      <4> QED
        BY <4>1
    <3> DEFINE z == [T \in Small(0) |-> 0]
    <3>2. z \in [Small(0) -> Int] /\ Adds(Small(0), f, z)
      BY SMT, <3>1 DEF Adds
    <3>3. Good(0)
      <4> HIDE DEF z, Small
      <4> QED
        BY <3>2
    <3> HIDE DEF Good
    <3> QED
      BY <2>1, <2>2, <3>3
  <2>3. CASE n # 0
    <3>1. n - 1 \in Nat /\ Good(n - 1)
      <4> HIDE DEF Good
      <4> QED
        BY SMT, <2>1, <2>3
    <3>2. PICK g \in [Small(n - 1) -> Int] : Adds(Small(n - 1), f, g)
      BY <3>1
    <3> DEFINE h == [T \in Small(n) |-> IF T = {} THEN 0 ELSE f[Pick(T)] + g[T \ {Pick(T)}]]
    <3>3. \A T \in Small(n) : T # {} => T \ {Pick(T)} \in Small(n - 1) /\ Pick(T) \in S
      <4> SUFFICES ASSUME NEW T \in Small(n), T # {}
                   PROVE  T \ {Pick(T)} \in Small(n - 1) /\ Pick(T) \in S
        OBVIOUS
      <4>1. T \in SUBSET S /\ Cardinality(T) <= n /\ Pick(T) \in T /\ IsFiniteSet(T)
        BY <1>1, PickIn
      <4>2. Cardinality(T \ {Pick(T)}) = Cardinality(T) - 1 /\ Cardinality(T) \in Nat
        BY <4>1, OneLess
      <4>3. Cardinality(T \ {Pick(T)}) <= n - 1 /\ T \ {Pick(T)} \in SUBSET S
        BY SMT, <4>1, <4>2
      <4> QED
        BY <4>1, <4>3
    <3>4. Small(n - 1) \subseteq Small(n)
      BY SMT, <1>1
    <3> HIDE DEF Small
    <3>5. h \in [Small(n) -> Int]
      BY SMT, <3>3
    <3>6. \A T \in Small(n - 1) : h[T] = g[T]
      BY <3>2, <3>4 DEF Adds
    <3>7. Adds(Small(n), f, h)
      BY <3>3, <3>6 DEF Adds
    <3> HIDE DEF h
    <3>8. Good(n)
      BY <3>5, <3>7
    <3> QED
      BY <2>1, <3>8
  <2> QED
    BY <2>2, <2>3
<1>3. Cardinality(S) \in Nat
  BY FS_CardinalityType
<1>4. Good(Cardinality(S))
  BY <1>2, <1>3
<1>5. Small(Cardinality(S)) = SUBSET S
  BY <1>1
<1> QED
  BY <1>4, <1>5

\* SumFunctionOnSet is that function.
LEMMA SumIs ==
    ASSUME NEW S, NEW f
    PROVE  SumFunctionOnSet(f, S) =
              (CHOOSE g : g = [T \in SUBSET S |->
                    IF T = {} THEN 0 ELSE f[Pick(T)] + g[T \ {Pick(T)}]])[S]
  BY DEF SumFunctionOnSet, FoldFunctionOnSet, MapThenFoldSet, Pick

\* Two recursions agree on what both add up.
LEMMA SumUnique ==
    ASSUME NEW S, IsFiniteSet(S), NEW f, NEW g, NEW h,
           Adds(SUBSET S, f, g), Adds(SUBSET S, f, h)
    PROVE  \A T \in SUBSET S : g[T] = h[T]
<1> DEFINE Wrong == {T \in SUBSET S : g[T] # h[T]}
<1>1. ASSUME Wrong # {} PROVE FALSE
  <2>1. PICK T \in Wrong : \A U \in Wrong : Cardinality(T) <= Cardinality(U)
    BY <1>1, Smallest
  <2>2. T # {}
    BY <2>1 DEF Adds
  <2>3. IsFiniteSet(T) /\ Pick(T) \in T /\ T \ {Pick(T)} \in SUBSET S
    BY <2>2, PickIn, FS_Subset
  <2>4. T \ {Pick(T)} \notin Wrong
    BY SMT, <2>1, <2>3, OneLess
  <2> QED
    BY <2>1, <2>2, <2>3, <2>4 DEF Adds
<1> QED
  BY <1>1

\* SumFunctionOnSet adds up the members one by one.
LEMMA SumStep ==
    ASSUME NEW S, IsFiniteSet(S), NEW f, \A x \in S : f[x] \in Int
    PROVE  /\ SumFunctionOnSet(f, S) \in Int
           /\ S = {} => SumFunctionOnSet(f, S) = 0
           /\ S # {} => SumFunctionOnSet(f, S)
                          = f[Pick(S)] + SumFunctionOnSet(f, S \ {Pick(S)})
<1> DEFINE It(T) == CHOOSE g : g = [U \in SUBSET T |->
                        IF U = {} THEN 0 ELSE f[Pick(U)] + g[U \ {Pick(U)}]]
<1>1. ASSUME NEW T \in SUBSET S
      PROVE  /\ Adds(SUBSET T, f, It(T)) /\ It(T)[T] \in Int
             /\ SumFunctionOnSet(f, T) = It(T)[T]
  <2>1. IsFiniteSet(T)
    BY FS_Subset
  <2>3. PICK g \in [SUBSET T -> Int] : Adds(SUBSET T, f, g)
    BY <2>1, SumRecursion
  <2>4. g = [U \in SUBSET T |-> IF U = {} THEN 0 ELSE f[Pick(U)] + g[U \ {Pick(U)}]]
    BY <2>3 DEF Adds
  <2>5. It(T) = [U \in SUBSET T |-> IF U = {} THEN 0 ELSE f[Pick(U)] + It(T)[U \ {Pick(U)}]]
    BY <2>4
  <2> HIDE DEF It
  <2>6. Adds(SUBSET T, f, It(T))
    BY <2>5 DEF Adds
  <2>7. It(T)[T] = g[T]
    BY SMT, <2>1, <2>3, <2>6, SumUnique
  <2>8. SumFunctionOnSet(f, T) = It(T)[T]
    BY SumIs DEF It
  <2> QED
    BY <2>3, <2>6, <2>7, <2>8
<1> HIDE DEF It
<1>2. CASE S = {}
  BY <1>1, <1>2 DEF Adds
<1>3. CASE S # {}
  <2> DEFINE T == S \ {Pick(S)}
  <2>1. T \in SUBSET S /\ IsFiniteSet(T)
    BY FS_Subset
  <2>2. Adds(SUBSET T, f, It(S))
    BY <1>1, <2>1 DEF Adds
  <2>3. It(S)[T] = It(T)[T]
    <3> HIDE DEF T
    <3>1. Adds(SUBSET T, f, It(T)) /\ T \in SUBSET T
      BY <1>1, <2>1
    <3>2. \A U \in SUBSET T : It(S)[U] = It(T)[U]
      BY SMT, <2>1, <2>2, <3>1, SumUnique
    <3> QED
      BY <3>1, <3>2
  <2>4. It(S)[S] = f[Pick(S)] + It(S)[T]
    BY <1>1, <1>3 DEF Adds
  <2>5. /\ SumFunctionOnSet(f, S) = It(S)[S] /\ It(S)[S] \in Int
        /\ SumFunctionOnSet(f, T) = It(T)[T]
    BY <1>1, <2>1
  <2> HIDE DEF T
  <2>6. SumFunctionOnSet(f, S) = f[Pick(S)] + SumFunctionOnSet(f, T)
    BY <2>3, <2>4, <2>5
  <2> QED
    BY <1>3, <2>5, <2>6 DEF T
<1> QED
  BY <1>1, <1>2, <1>3

\* It does not matter which member is added first.
LEMMA SumAny ==
    ASSUME NEW S, IsFiniteSet(S), NEW f, \A x \in S : f[x] \in Int, NEW y \in S
    PROVE  SumFunctionOnSet(f, S) = f[y] + SumFunctionOnSet(f, S \ {y})
<1> DEFINE Sum(T) == SumFunctionOnSet(f, T)
           OK(T) == \A x \in T : Sum(T) = f[x] + Sum(T \ {x})
           Wrong == {T \in SUBSET S : ~OK(T)}
<1>1. ASSUME NEW T \in SUBSET S
      PROVE  /\ IsFiniteSet(T) /\ Sum(T) \in Int
             /\ T # {} => Pick(T) \in T /\ Sum(T) = f[Pick(T)] + Sum(T \ {Pick(T)})
  <2>1. IsFiniteSet(T) /\ \A x \in T : f[x] \in Int
    BY FS_Subset
  <2> QED
    BY <2>1, SumStep, PickIn
<1> HIDE DEF Sum
<1>2. ASSUME Wrong # {} PROVE FALSE
  <2>1. PICK T \in Wrong : \A U \in Wrong : Cardinality(T) <= Cardinality(U)
    BY <1>2, Smallest
  <2>2. PICK x \in T : Sum(T) # f[x] + Sum(T \ {x})
    BY <2>1
  <2> DEFINE p == Pick(T)
             U == T \ {x}
             V == T \ {p}
             W == T \ {x, p}
  <2>3. T \in SUBSET S /\ IsFiniteSet(T) /\ p \in T /\ p # x
    BY <1>1, <2>1, <2>2
  <2>4. OK(U) /\ OK(V)
    <3>1. /\ Cardinality(U) = Cardinality(T) - 1 /\ Cardinality(V) = Cardinality(T) - 1
          /\ Cardinality(T) \in Nat
      BY <2>2, <2>3, OneLess
    <3>2. ~(Cardinality(T) <= Cardinality(U)) /\ ~(Cardinality(T) <= Cardinality(V))
      <4> HIDE DEF U, V
      <4> QED
        BY SMT, <3>1
    <3>3. U \notin Wrong /\ V \notin Wrong
      BY <2>1, <3>2
    <3> QED
      BY <2>3, <3>3
  <2>5. U \ {p} = W /\ V \ {x} = W /\ p \in U /\ x \in V
    BY <2>3
  <2>6. Sum(U) = f[p] + Sum(W) /\ Sum(V) = f[x] + Sum(W)
    <3> HIDE DEF p, U, V, W
    <3> QED
      BY <2>4, <2>5
  <2>7. /\ Sum(T) = f[p] + Sum(V) /\ Sum(W) \in Int /\ Sum(U) \in Int /\ Sum(V) \in Int
        /\ f[x] \in Int /\ f[p] \in Int
    BY <1>1, <2>3
  <2>8. Sum(T) = f[x] + Sum(U)
    <3> HIDE DEF p, U, V, W
    <3> QED
      BY SMT, <2>6, <2>7
  <2> QED
    BY <2>2, <2>8
<1>3. S \in SUBSET S /\ S \notin Wrong
  BY <1>2
<1> QED
  BY <1>3 DEF Sum

\* The sum over the members that are in B and the sum over the others.
LEMMA SumSplit ==
    ASSUME NEW S, IsFiniteSet(S), NEW f, \A x \in S : f[x] \in Int, NEW B
    PROVE  SumFunctionOnSet(f, S) = SumFunctionOnSet(f, S \cap B) + SumFunctionOnSet(f, S \ B)
<1> DEFINE Sum(A) == SumFunctionOnSet(f, A)
           OK(A) == Sum(A) = Sum(A \cap B) + Sum(A \ B)
           Wrong == {A \in SUBSET S : ~OK(A)}
<1>1. ASSUME NEW A \in SUBSET S
      PROVE  /\ IsFiniteSet(A) /\ Sum(A) \in Int /\ (A = {} => Sum(A) = 0)
             /\ \A x \in A : f[x] \in Int /\ Sum(A) = f[x] + Sum(A \ {x})
  <2>1. IsFiniteSet(A) /\ \A x \in A : f[x] \in Int
    BY FS_Subset
  <2>2. Sum(A) \in Int /\ (A = {} => Sum(A) = 0)
    BY <2>1, SumStep
  <2>3. \A x \in A : Sum(A) = f[x] + Sum(A \ {x})
    BY <2>1, SumAny
  <2> HIDE DEF Sum
  <2> QED
    BY <2>1, <2>2, <2>3
<1> HIDE DEF Sum
<1>2. ASSUME Wrong # {} PROVE FALSE
  <2>1. PICK A \in Wrong : \A U \in Wrong : Cardinality(A) <= Cardinality(U)
    BY <1>2, Smallest
  <2>2. A \in SUBSET S /\ ~OK(A)
    BY <2>1
  <2>3. A # {}
    <3> SUFFICES ASSUME A = {} PROVE FALSE
      OBVIOUS
    <3>1. A \cap B = {} /\ A \ B = {} /\ Sum({}) = 0
      BY <1>1, <2>2
    <3> QED
      BY SMT, <2>2, <3>1
  <2>4. PICK x \in A : TRUE
    BY <2>3
  <2> DEFINE U == A \ {x}
  <2>5. U \in SUBSET S /\ OK(U)
    <3>1. ~(Cardinality(A) <= Cardinality(U))
      <4>1. Cardinality(U) = Cardinality(A) - 1 /\ Cardinality(A) \in Nat
        BY <1>1, <2>2, <2>4, OneLess
      <4> HIDE DEF U
      <4> QED
        BY SMT, <4>1
    <3>2. U \in SUBSET S
      BY <2>2
    <3> QED
      BY <2>1, <3>1, <3>2
  <2>6. Sum(A) = f[x] + Sum(U) /\ f[x] \in Int
    BY <1>1, <2>2, <2>4
  <2>7. Sum(U \cap B) \in Int /\ Sum(U \ B) \in Int
    <3>1. U \cap B \in SUBSET S /\ U \ B \in SUBSET S
      BY <2>2
    <3> HIDE DEF U
    <3> QED
      BY <1>1, <3>1
  <2>8. CASE x \in B
    <3>1. A \ B = U \ B /\ (A \cap B) \ {x} = U \cap B /\ x \in A \cap B /\ A \cap B \in SUBSET S
      BY <2>2, <2>4, <2>8
    <3> HIDE DEF U
    <3>2. Sum(A \cap B) = f[x] + Sum(U \cap B)
      BY SMT, <1>1, <3>1
    <3>3. Sum(A \ B) = Sum(U \ B)
      BY <3>1
    <3>4. Sum(A) = Sum(A \cap B) + Sum(A \ B)
      BY SMT, <2>5, <2>6, <2>7, <3>2, <3>3
    <3> QED
      BY <2>2, <3>4
  <2>9. CASE x \notin B
    <3>1. A \cap B = U \cap B /\ (A \ B) \ {x} = U \ B /\ x \in A \ B /\ A \ B \in SUBSET S
      BY <2>2, <2>4, <2>9
    <3> HIDE DEF U
    <3>2. Sum(A \ B) = f[x] + Sum(U \ B)
      BY <1>1, <3>1
    <3>3. Sum(A \cap B) = Sum(U \cap B)
      BY <3>1
    <3>4. Sum(A) = Sum(A \cap B) + Sum(A \ B)
      BY SMT, <2>5, <2>6, <2>7, <3>2, <3>3
    <3> QED
      BY <2>2, <3>4
  <2> QED
    BY <2>8, <2>9
<1>3. S \in SUBSET S /\ S \notin Wrong
  BY <1>2
<1> QED
  BY <1>3 DEF Sum

\* Values that are the same give the same sum.
LEMMA SumOfSame ==
    ASSUME NEW S, IsFiniteSet(S), NEW f, NEW g, \A x \in S : f[x] \in Int /\ g[x] = f[x]
    PROVE  SumFunctionOnSet(g, S) = SumFunctionOnSet(f, S)
<1> DEFINE OK(A) == SumFunctionOnSet(g, A) = SumFunctionOnSet(f, A)
           Wrong == {A \in SUBSET S : ~OK(A)}
<1>1. ASSUME Wrong # {} PROVE FALSE
  <2>1. PICK A \in Wrong : \A U \in Wrong : Cardinality(A) <= Cardinality(U)
    BY <1>1, Smallest
  <2>2. /\ A \in SUBSET S /\ IsFiniteSet(A)
        /\ \A x \in A : f[x] \in Int /\ g[x] \in Int /\ g[x] = f[x]
    BY <2>1, FS_Subset
  <2>3. A # {}
    BY <2>1, <2>2, SumStep
  <2> DEFINE p == Pick(A)
             U == A \ {p}
  <2>4. p \in A /\ U \in SUBSET S
    BY <2>2, <2>3, PickIn
  <2>5. OK(U)
    <3>1. Cardinality(U) = Cardinality(A) - 1 /\ Cardinality(A) \in Nat
      BY <2>2, <2>4, OneLess
    <3>2. ~(Cardinality(A) <= Cardinality(U))
      <4> HIDE DEF U
      <4> QED
        BY SMT, <3>1
    <3> QED
      BY <2>1, <2>4, <3>2
  <2> HIDE DEF p, U
  <2>6. /\ SumFunctionOnSet(f, A) = f[p] + SumFunctionOnSet(f, U)
        /\ SumFunctionOnSet(g, A) = g[p] + SumFunctionOnSet(g, U)
    BY <2>2, <2>3, SumStep DEF p, U
  <2> QED
    BY <2>1, <2>2, <2>4, <2>5, <2>6
<1>2. S \in SUBSET S /\ S \notin Wrong
  BY <1>1
<1> QED
  BY <1>2

Ones == [t \in Txs |-> 1]

\* A count is a sum too, so that what is shown for sums of fees holds for counts.
LEMMA CountIsSum ==
    ASSUME NEW S \in SUBSET Txs
    PROVE  Cardinality(S) = SumFunctionOnSet(Ones, S)
<1> DEFINE OK(A) == Cardinality(A) = SumFunctionOnSet(Ones, A)
           Wrong == {A \in SUBSET S : ~OK(A)}
<1>1. ASSUME NEW A \in SUBSET S PROVE IsFiniteSet(A) /\ \A x \in A : Ones[x] = 1
  BY FS_Subset, MempoolAssumption DEF Ones
<1>2. ASSUME Wrong # {} PROVE FALSE
  <2>1. PICK A \in Wrong : \A U \in Wrong : Cardinality(A) <= Cardinality(U)
    <3>1. IsFiniteSet(S)
      BY <1>1
    <3> QED
      BY <1>2, <3>1, Smallest
  <2>2. A \in SUBSET S /\ IsFiniteSet(A) /\ \A x \in A : Ones[x] = 1 /\ Ones[x] \in Int
    BY SMT, <1>1, <2>1
  <2>3. A # {}
    BY <2>1, <2>2, SumStep, FS_EmptySet
  <2> DEFINE p == Pick(A)
             U == A \ {p}
  <2>4. p \in A /\ U \in SUBSET S
    BY <2>2, <2>3, PickIn
  <2>5. Cardinality(U) = Cardinality(A) - 1 /\ Cardinality(A) \in Nat
    BY <2>2, <2>4, OneLess
  <2>6. OK(U)
    <3>2. ~(Cardinality(A) <= Cardinality(U))
      <4> HIDE DEF U
      <4> QED
        BY SMT, <2>5
    <3> QED
      BY <2>1, <2>4, <3>2
  <2> HIDE DEF p, U
  <2>7. SumFunctionOnSet(Ones, A) = Ones[p] + SumFunctionOnSet(Ones, U)
    BY <2>2, <2>3, SumStep DEF p, U
  <2>8. Ones[p] = 1
    BY <2>2, <2>4
  <2> QED
    BY SMT, <2>1, <2>5, <2>6, <2>7, <2>8
<1>3. S \in SUBSET S /\ S \notin Wrong
  BY <1>2
<1> QED
  BY <1>3

-----------------------------------------------------------------------------
(* The closure under a relation, by which the pool's packages are stated.  *)

Relations == [Txs -> SUBSET Txs]

\* A closure contains its start and all that R leads to from it.
LEMMA ClosureIs ==
    ASSUME NEW R \in Relations, NEW S \in SUBSET Txs
    PROVE  /\ Closure(R, S) \in SUBSET Txs /\ S \subseteq Closure(R, S)
           /\ \A x \in Closure(R, S) : R[x] \subseteq Closure(R, S)
  BY DEF Closure, Relations

\* And it is the least such set.
LEMMA ClosureLeast ==
    ASSUME NEW R, NEW S, NEW X \in SUBSET Txs, S \subseteq X, \A x \in X : R[x] \subseteq X
    PROVE  Closure(R, S) \subseteq X
  BY DEF Closure

\* What starts inside a closure stays inside it.
LEMMA ClosureInside ==
    ASSUME NEW R \in Relations, NEW S \in SUBSET Txs, NEW Q \in SUBSET Txs,
           Q \subseteq Closure(R, S)
    PROVE  Closure(R, Q) \subseteq Closure(R, S)
  BY ClosureIs, ClosureLeast

\* Nothing is reached from nothing.
LEMMA ClosureOfEmpty == ASSUME NEW R PROVE Closure(R, {}) = {}
  BY SMT, ClosureLeast

\* What is reached from a set is reached from one of its members.
LEMMA ClosureFrom ==
    ASSUME NEW R \in Relations, NEW S \in SUBSET Txs, NEW y
    PROVE  y \in Closure(R, S) <=> \E s \in S : y \in Closure(R, {s})
<1> DEFINE X == {z \in Txs : \E s \in S : z \in Closure(R, {s})}
<1>1. \A s \in S : {s} \in SUBSET Txs
  OBVIOUS
<1>2. \A s \in S : Closure(R, {s}) \subseteq Closure(R, S)
  <2>1. \A s \in S : {s} \subseteq Closure(R, S)
    BY ClosureIs
  <2> QED
    BY <1>1, <2>1, ClosureInside
<1>3. Closure(R, S) \subseteq X
  <2>1. S \subseteq X
    BY <1>1, ClosureIs
  <2>2. \A x \in X : R[x] \subseteq X
    BY <1>1, ClosureIs
  <2> HIDE DEF X
  <2>3. X \in SUBSET Txs
    BY DEF X
  <2> QED
    BY <2>1, <2>2, <2>3, ClosureLeast
<1> QED
  BY <1>2, <1>3

\* One step, then the rest.
LEMMA ClosureStep ==
    ASSUME NEW R \in Relations, NEW x \in Txs
    PROVE  /\ R[x] \in SUBSET Txs /\ x \in Closure(R, {x})
           /\ Closure(R, {x}) = {x} \cup Closure(R, R[x])
<1>1. R[x] \in SUBSET Txs /\ {x} \in SUBSET Txs
  BY DEF Relations
<1>2. x \in Closure(R, {x}) /\ R[x] \subseteq Closure(R, {x})
  BY <1>1, ClosureIs
<1>3. Closure(R, R[x]) \subseteq Closure(R, {x})
  BY <1>1, <1>2, ClosureInside
<1> DEFINE X == {x} \cup Closure(R, R[x])
<1>4. X \in SUBSET Txs /\ {x} \subseteq X /\ \A z \in X : R[z] \subseteq X
  BY <1>1, ClosureIs
<1>5. Closure(R, {x}) \subseteq X
  <2> HIDE DEF X
  <2> QED
    BY <1>4, ClosureLeast
<1> QED
  BY <1>1, <1>2, <1>3, <1>5

Inverses(R, Q) == \A x, y \in Txs : y \in R[x] <=> x \in Q[y]

\* x is reached from y by the inverse of what reaches y from x.
LEMMA ClosureInverse ==
    ASSUME NEW R \in Relations, NEW Q \in Relations, Inverses(R, Q), NEW x \in Txs, NEW y \in Txs
    PROVE  y \in Closure(R, {x}) <=> x \in Closure(Q, {y})
<1>1. ASSUME NEW A \in Relations, NEW B \in Relations, \A u, v \in Txs : v \in A[u] => u \in B[v],
             NEW u \in Txs, NEW v \in Txs, v \in Closure(A, {u})
      PROVE  u \in Closure(B, {v})
  <2> DEFINE X == {z \in Txs : u \in Closure(B, {z})}
  <2>1. X \in SUBSET Txs /\ {u} \subseteq X
    BY ClosureStep
  <2>2. ASSUME NEW z \in X, NEW w \in A[z] PROVE w \in X
    <3>1. z \in Txs /\ w \in Txs /\ z \in B[w] /\ {w} \in SUBSET Txs /\ {z} \in SUBSET Txs
      BY <1>1, <2>2 DEF Relations
    <3>2. {z} \subseteq Closure(B, {w})
      BY <1>1, <3>1, ClosureIs
    <3>3. Closure(B, {z}) \subseteq Closure(B, {w})
      BY <1>1, <3>1, <3>2, ClosureInside
    <3> QED
      BY <2>2, <3>1, <3>3
  <2>3. Closure(A, {u}) \subseteq X
    <3> HIDE DEF X
    <3> QED
      BY <2>1, <2>2, ClosureLeast
  <2> QED
    BY <1>1, <2>3
<1> QED
  BY <1>1 DEF Inverses

\* Nothing spends from itself, in however many steps.
LEMMA NoCircle ==
    ASSUME NEW R \in Relations, \A t \in Txs : R[t] \subseteq Inputs(t), NEW x \in Txs
    PROVE  x \notin Closure(R, R[x])
<1> SUFFICES ASSUME x \in Closure(R, R[x]) PROVE FALSE
  OBVIOUS
<1> DEFINE S == {y \in Txs : y \in Closure(R, R[x]) /\ x \in Closure(R, R[y])}
<1>1. S \in SUBSET Txs /\ S # {}
  OBVIOUS
<1>2. PICK t \in S : \A i \in DOMAIN Vin[t] : Vin[t][i][1] \notin S
  <2> HIDE DEF S
  <2> QED
    BY <1>1, InputsAssumption
<1>3. t \in Txs /\ t \in Closure(R, R[x]) /\ x \in Closure(R, R[t])
  BY <1>2
<1>4. R[t] \in SUBSET Txs /\ R[x] \in SUBSET Txs
  BY <1>3, ClosureStep
<1>5. PICK z \in R[t] : x \in Closure(R, {z})
  BY <1>3, <1>4, ClosureFrom
<1>6. z \in Txs /\ z \in Closure(R, R[x])
  BY <1>3, <1>4, <1>5, ClosureIs
<1>7. z = x \/ x \in Closure(R, R[z])
  BY <1>5, <1>6, ClosureStep
<1>8. z \in S
  BY <1>6, <1>7
<1>9. z \in Inputs(t)
  BY <1>3, <1>5
<1> HIDE DEF S
<1> QED
  BY <1>2, <1>8, <1>9 DEF Inputs, Spends, Range

\* A relation is cut where nothing leads back from.
LEMMA ClosureCut ==
    ASSUME NEW R \in Relations, NEW Q \in Relations, NEW Z \in SUBSET Txs,
           \A z \in Z : R[z] \subseteq Z,
           \A y \in Txs \ Z : Q[y] = R[y] \ Z,
           NEW x \in Txs \ Z
    PROVE  Closure(Q, {x}) = Closure(R, {x}) \ Z
<1>1. {x} \in SUBSET Txs
  OBVIOUS
<1> DEFINE X == Closure(R, {x}) \ Z
           Y == Closure(Q, {x}) \cup Z
<1>2. /\ Closure(R, {x}) \in SUBSET Txs /\ x \in Closure(R, {x})
      /\ \A y \in Closure(R, {x}) : R[y] \subseteq Closure(R, {x})
  BY <1>1, ClosureIs
<1>3. /\ Closure(Q, {x}) \in SUBSET Txs /\ x \in Closure(Q, {x})
      /\ \A y \in Closure(Q, {x}) : Q[y] \subseteq Closure(Q, {x})
  BY <1>1, ClosureIs
<1>4. X \in SUBSET Txs /\ {x} \subseteq X /\ \A y \in X : Q[y] \subseteq X
  <2>1. X \in SUBSET Txs /\ {x} \subseteq X
    BY <1>2
  <2>2. ASSUME NEW y \in X PROVE Q[y] \subseteq X
    <3>1. y \in Txs \ Z /\ R[y] \subseteq Closure(R, {x})
      BY <1>2
    <3>2. Q[y] = R[y] \ Z
      BY <3>1
    <3> QED
      BY <3>1, <3>2
  <2> QED
    BY <2>1, <2>2
<1>5. Closure(Q, {x}) \subseteq X
  <2> HIDE DEF X
  <2> QED
    BY <1>4, ClosureLeast
<1>6. Y \in SUBSET Txs /\ {x} \subseteq Y /\ \A y \in Y : R[y] \subseteq Y
  <2>1. \A y \in Closure(Q, {x}) : y \in Txs \ Z
    BY <1>3, <1>5
  <2>2. \A y \in Closure(Q, {x}) : R[y] \subseteq Y
    BY <1>3, <2>1
  <2> QED
    BY <1>3, <2>2
<1>7. Closure(R, {x}) \subseteq Y
  <2> HIDE DEF Y
  <2> QED
    BY <1>6, ClosureLeast
<1> QED
  BY <1>5, <1>7

\* A relation that is changed only where the closure does not come.
LEMMA ClosureAgrees ==
    ASSUME NEW R \in Relations, NEW Q \in Relations, NEW S \in SUBSET Txs,
           \A y \in Closure(R, S) : Q[y] = R[y]
    PROVE  Closure(Q, S) = Closure(R, S)
<1>1. /\ Closure(R, S) \in SUBSET Txs /\ S \subseteq Closure(R, S)
      /\ \A x \in Closure(R, S) : R[x] \subseteq Closure(R, S)
  BY ClosureIs
<1>2. Closure(Q, S) \subseteq Closure(R, S)
  BY <1>1, ClosureLeast
<1>3. /\ Closure(Q, S) \in SUBSET Txs /\ S \subseteq Closure(Q, S)
      /\ \A x \in Closure(Q, S) : Q[x] \subseteq Closure(Q, S)
  BY ClosureIs
<1>4. \A x \in Closure(Q, S) : R[x] \subseteq Closure(Q, S)
  BY <1>2, <1>3
<1>5. Closure(R, S) \subseteq Closure(Q, S)
  BY <1>3, <1>4, ClosureLeast
<1> QED
  BY <1>2, <1>5

\* Q is R with links from the members of P to t, from which nothing leads on.
Leafed(R, Q, P, t) ==
    /\ R[t] = {} /\ t \notin P
    /\ \A y \in Txs : Q[y] = IF y \in P THEN R[y] \cup {t} ELSE R[y]

LeafReached(R, Q, P, t, x) ==
    Closure(Q, {x}) = Closure(R, {x}) \cup {y \in {t} : Closure(R, {x}) \cap P # {}}

\* A member without successors that the members of P come to lead to.
LEMMA ClosureLeaf ==
    ASSUME NEW R \in Relations, NEW Q \in Relations, NEW P \in SUBSET Txs, NEW t \in Txs,
           Leafed(R, Q, P, t), NEW x \in Txs
    PROVE  LeafReached(R, Q, P, t, x)
<1>0. R[t] = {} /\ t \notin P /\ \A y \in Txs : Q[y] = IF y \in P THEN R[y] \cup {t} ELSE R[y]
  BY DEF Leafed
<1> DEFINE X == Closure(R, {x}) \cup {y \in {t} : Closure(R, {x}) \cap P # {}}
<1>1. {x} \in SUBSET Txs
  OBVIOUS
<1>2. /\ Closure(R, {x}) \in SUBSET Txs /\ x \in Closure(R, {x})
      /\ \A y \in Closure(R, {x}) : R[y] \subseteq Closure(R, {x})
  BY <1>1, ClosureIs
<1>3. /\ Closure(Q, {x}) \in SUBSET Txs /\ x \in Closure(Q, {x})
      /\ \A y \in Closure(Q, {x}) : Q[y] \subseteq Closure(Q, {x})
  BY <1>1, ClosureIs
<1>4. X \in SUBSET Txs /\ {x} \subseteq X
  BY <1>2
<1>5. \A y \in X : Q[y] \subseteq X
  BY <1>0, <1>2
<1>6. Closure(Q, {x}) \subseteq X
  <2> HIDE DEF X
  <2> QED
    BY <1>4, <1>5, ClosureLeast
<1>7. \A y \in Closure(Q, {x}) : R[y] \subseteq Closure(Q, {x})
  BY <1>0, <1>3
<1>8. Closure(R, {x}) \subseteq Closure(Q, {x})
  <2>1. {x} \subseteq Closure(Q, {x})
    BY <1>3
  <2> QED
    BY ONLY <1>3, <1>7, <2>1, ClosureLeast, Zenon
<1>9. X \subseteq Closure(Q, {x})
  BY <1>0, <1>2, <1>3, <1>8
<1> QED
  BY <1>6, <1>9 DEF LeafReached

\* One member that comes to lead to those of K.
LEMMA ClosureGraft ==
    ASSUME NEW R \in Relations, NEW Q \in Relations, NEW K \in SUBSET Txs, NEW t \in Txs,
           Q[t] = R[t] \cup K, \A y \in Txs \ {t} : Q[y] = R[y],
           NEW x \in Txs
    PROVE  /\ t \notin Closure(R, {x}) => Closure(Q, {x}) = Closure(R, {x})
           /\ t \in Closure(R, {x}) => Closure(Q, {x}) = Closure(R, {x}) \cup Closure(R, K)
<1>1. {x} \in SUBSET Txs
  OBVIOUS
<1>2. /\ Closure(R, {x}) \in SUBSET Txs /\ x \in Closure(R, {x})
      /\ \A y \in Closure(R, {x}) : R[y] \subseteq Closure(R, {x})
  BY <1>1, ClosureIs
<1>3. CASE t \notin Closure(R, {x})
  <2>1. \A y \in Closure(R, {x}) : Q[y] = R[y]
    BY <1>2, <1>3
  <2>2. Closure(Q, {x}) = Closure(R, {x})
    BY <1>1, <2>1, ClosureAgrees
  <2> QED
    BY <1>3, <2>2
<1>4. CASE t \in Closure(R, {x})
  <2> DEFINE X == Closure(R, {x}) \cup Closure(R, K)
  <2>1. /\ Closure(Q, {x}) \in SUBSET Txs /\ x \in Closure(Q, {x})
        /\ \A y \in Closure(Q, {x}) : Q[y] \subseteq Closure(Q, {x})
    BY <1>1, ClosureIs
  <2>2. /\ Closure(R, K) \in SUBSET Txs /\ K \subseteq Closure(R, K)
        /\ \A y \in Closure(R, K) : R[y] \subseteq Closure(R, K)
    BY ClosureIs
  <2>3. X \in SUBSET Txs /\ {x} \subseteq X /\ \A y \in X : Q[y] \subseteq X
    BY <1>2, <2>2
  <2>4. Closure(Q, {x}) \subseteq X
    <3> HIDE DEF X
    <3> QED
      BY <2>3, ClosureLeast
  <2>5. \A y \in Closure(Q, {x}) : R[y] \subseteq Closure(Q, {x})
    BY <2>1
  <2>6. Closure(R, {x}) \subseteq Closure(Q, {x})
    <3>1. {x} \subseteq Closure(Q, {x})
      BY <2>1
    <3> QED
      BY <2>1, <2>5, <3>1, ClosureLeast
  <2>7. K \subseteq Closure(Q, {x})
    BY <1>4, <2>1, <2>6
  <2>8. Closure(R, K) \subseteq Closure(Q, {x})
    BY <2>1, <2>5, <2>7, ClosureLeast
  <2> QED
    BY <1>4, <2>4, <2>6, <2>8
<1> QED
  BY <1>3, <1>4

-----------------------------------------------------------------------------
(* What is always true of the pool, in the middle of a reorganization too. *)

Pools ==
    [mapTx : SUBSET Txs,
     mapNextTx : [Outpoints -> Txs \cup {None}],
     mapDeltas : [Txs -> Int],
     feeDelta : [Txs -> Int],
     parents : Relations,
     children : Relations,
     nCountWithDescendants : [Txs -> Int],
     nModFeesWithDescendants : [Txs -> Int],
     nCountWithAncestors : [Txs -> Int],
     nModFeesWithAncestors : [Txs -> Int]]

\* Links lead from one entry to another, both ways, and only where an input does.
Linked(p) ==
    /\ Inverses(p.parents, p.children)
    /\ \A t \in Txs : p.parents[t] \subseteq Inputs(t) \cap p.mapTx
    /\ \A t \in Txs \ p.mapTx : p.parents[t] = {}

\* mapNextTx names the transaction of the pool that spends an output.
NextTxExact(p) ==
    \A o \in Outpoints, t \in Txs : p.mapNextTx[o] = t <=> t \in p.mapTx /\ o \in Spends(t)

FeesOf(p) == [t \in Txs |-> GetModifiedFee(p, t)]

\* The totals f of the members of S are those of the values w over the closure under R.
Exact(R, w, f, S) == \A t \in S : f[t] = SumFunctionOnSet(w, Closure(R, {t}))

Totals(p) ==
    /\ Exact(p.children, Ones, p.nCountWithDescendants, p.mapTx)
    /\ Exact(p.children, FeesOf(p), p.nModFeesWithDescendants, p.mapTx)
    /\ Exact(p.parents, Ones, p.nCountWithAncestors, p.mapTx)
    /\ Exact(p.parents, FeesOf(p), p.nModFeesWithAncestors, p.mapTx)
    /\ \A t \in Txs \ p.mapTx : p.nCountWithDescendants[t] = 0 /\ p.nModFeesWithDescendants[t] = 0

Sound(p) == p \in Pools /\ Linked(p) /\ NextTxExact(p) /\ Totals(p)

\* The fields of a pool have their types.
LEMMA PoolFields ==
    ASSUME NEW p \in Pools
    PROVE  /\ p.mapTx \in SUBSET Txs
           /\ p.mapNextTx \in [Outpoints -> Txs \cup {None}]
           /\ p.mapDeltas \in [Txs -> Int] /\ p.feeDelta \in [Txs -> Int]
           /\ p.parents \in Relations /\ p.children \in Relations
           /\ p.nCountWithDescendants \in [Txs -> Int]
           /\ p.nModFeesWithDescendants \in [Txs -> Int]
           /\ p.nCountWithAncestors \in [Txs -> Int]
           /\ p.nModFeesWithAncestors \in [Txs -> Int]
  BY DEF Pools

\* Modified fees are integers.
LEMMA FeesType == ASSUME NEW p \in Pools PROVE FeesOf(p) \in [Txs -> Int]
  BY SMT, PoolFields, MempoolAssumption DEF FeesOf, GetModifiedFee

\* Counting is a sum of ones.
LEMMA OnesType == Ones \in [Txs -> Int]
  BY SMT DEF Ones

\* Every set of transactions has a sum.
LEMMA SumType ==
    ASSUME NEW w \in [Txs -> Int], NEW S \in SUBSET Txs
    PROVE  IsFiniteSet(S) /\ SumFunctionOnSet(w, S) \in Int
<1>1. IsFiniteSet(S) /\ \A x \in S : w[x] \in Int
  BY FS_Subset, MempoolAssumption
<1> QED
  BY <1>1, SumStep

\* The sums over what is in Z and over what is not.
LEMMA SumMinus ==
    ASSUME NEW w \in [Txs -> Int], NEW S \in SUBSET Txs, NEW Z \in SUBSET Txs
    PROVE  SumFunctionOnSet(w, S \ Z) = SumFunctionOnSet(w, S) - SumFunctionOnSet(w, S \cap Z)
<1>1. IsFiniteSet(S) /\ \A x \in S : w[x] \in Int
  BY SumType
<1>2. SumFunctionOnSet(w, S) = SumFunctionOnSet(w, S \cap Z) + SumFunctionOnSet(w, S \ Z)
  BY <1>1, SumSplit
<1>3. S \cap Z \in SUBSET Txs /\ S \ Z \in SUBSET Txs
  OBVIOUS
<1>4. SumFunctionOnSet(w, S \cap Z) \in Int /\ SumFunctionOnSet(w, S \ Z) \in Int
  BY <1>3, SumType
<1> QED
  BY SMT, <1>2, <1>4

\* The values of the members that stay decide the sum.
LEMMA SumSame ==
    ASSUME NEW v \in [Txs -> Int], NEW w, NEW S \in SUBSET Txs, \A x \in S : w[x] = v[x]
    PROVE  SumFunctionOnSet(w, S) = SumFunctionOnSet(v, S)
<1>1. IsFiniteSet(S) /\ \A x \in S : v[x] \in Int /\ w[x] = v[x]
  BY SumType
<1> QED
  BY <1>1, SumOfSame

\* One more transaction adds its own value.
LEMMA SumPlus ==
    ASSUME NEW w \in [Txs -> Int], NEW S \in SUBSET Txs, NEW t \in Txs, t \notin S
    PROVE  SumFunctionOnSet(w, S \cup {t}) = SumFunctionOnSet(w, S) + w[t]
<1> DEFINE U == S \cup {t}
<1>1. U \in SUBSET Txs /\ t \in U /\ U \ {t} = S
  OBVIOUS
<1>2. IsFiniteSet(U) /\ \A x \in U : w[x] \in Int
  BY SumType
<1> HIDE DEF U
<1>3. SumFunctionOnSet(w, U) = w[t] + SumFunctionOnSet(w, S)
  BY <1>1, <1>2, SumAny
<1>4. SumFunctionOnSet(w, S) \in Int /\ w[t] \in Int
  BY SumType
<1> QED
  BY SMT, <1>3, <1>4 DEF U

-----------------------------------------------------------------------------
(* RemoveStaged                                                            *)

Names == {"mapTx", "mapNextTx", "mapDeltas", "feeDelta", "parents", "children",
          "nCountWithDescendants", "nModFeesWithDescendants",
          "nCountWithAncestors", "nModFeesWithAncestors"}

\* The names of the fields.
LEMMA PoolNames == ASSUME NEW p \in Pools PROVE DOMAIN p = Names
  BY SMT DEF Pools, Names

\* A record with fields of the right types is a pool.
LEMMA PoolIntro ==
    ASSUME NEW q, q = [f \in Names |-> q[f]],
           q.mapTx \in SUBSET Txs,
           q.mapNextTx \in [Outpoints -> Txs \cup {None}],
           q.mapDeltas \in [Txs -> Int], q.feeDelta \in [Txs -> Int],
           q.parents \in Relations, q.children \in Relations,
           q.nCountWithDescendants \in [Txs -> Int],
           q.nModFeesWithDescendants \in [Txs -> Int],
           q.nCountWithAncestors \in [Txs -> Int],
           q.nModFeesWithAncestors \in [Txs -> Int]
    PROVE  q \in Pools
  BY SMT DEF Pools, Names

BelowIn(p, stage, t) == {r \in stage : t \in Closure(p.parents, p.parents[r])}
AboveIn(p, stage, t) == {r \in stage : t # r /\ t \in Closure(p.children, {r})}

\* The fields of RemoveStaged, with the counts as sums.
StagedIs(p, stage, u, q) ==
    /\ q \in Pools
    /\ q.mapTx = p.mapTx \ stage /\ q.mapDeltas = p.mapDeltas
    /\ q.mapNextTx = [o \in Outpoints |->
                        IF \E r \in stage : o \in Spends(r) THEN None ELSE p.mapNextTx[o]]
    /\ q.feeDelta = [t \in Txs |-> IF t \in stage THEN 0 ELSE p.feeDelta[t]]
    /\ q.parents = [t \in Txs |-> IF t \in stage THEN {} ELSE
                      p.parents[t] \ {r \in stage : t \in p.children[r]}]
    /\ q.children = [t \in Txs |-> IF t \in stage THEN {} ELSE
                       p.children[t] \ {r \in stage : t \in p.parents[r]}]
    /\ q.nCountWithDescendants = [t \in Txs |-> IF t \in stage THEN 0 ELSE
         p.nCountWithDescendants[t] - SumFunctionOnSet(Ones, BelowIn(p, stage, t))]
    /\ q.nModFeesWithDescendants = [t \in Txs |-> IF t \in stage THEN 0 ELSE
         p.nModFeesWithDescendants[t] - SumFunctionOnSet(FeesOf(p), BelowIn(p, stage, t))]
    /\ q.nCountWithAncestors = [t \in Txs |-> IF t \in stage THEN 0 ELSE
         p.nCountWithAncestors[t]
           - SumFunctionOnSet(Ones, IF u THEN AboveIn(p, stage, t) ELSE {})]
    /\ q.nModFeesWithAncestors = [t \in Txs |-> IF t \in stage THEN 0 ELSE
         p.nModFeesWithAncestors[t]
           - SumFunctionOnSet(FeesOf(p), IF u THEN AboveIn(p, stage, t) ELSE {})]

\* RemoveStaged gives a pool with those fields.
LEMMA StagedFields ==
    ASSUME NEW p \in Pools, NEW stage \in SUBSET Txs, NEW u \in BOOLEAN
    PROVE  StagedIs(p, stage, u, RemoveStaged(p, stage, u))
<1> DEFINE q == RemoveStaged(p, stage, u)
           below(t) == BelowIn(p, stage, t)
           above(t) == IF u THEN AboveIn(p, stage, t) ELSE {}
           a1 == p.mapTx \ stage
           a2 == [o \in Outpoints |->
                    IF \E r \in stage : o \in Spends(r) THEN None ELSE p.mapNextTx[o]]
           a4 == [t \in Txs |-> IF t \in stage THEN 0 ELSE p.feeDelta[t]]
           a5 == [t \in Txs |-> IF t \in stage THEN {} ELSE
                    p.parents[t] \ {r \in stage : t \in p.children[r]}]
           a6 == [t \in Txs |-> IF t \in stage THEN {} ELSE
                    p.children[t] \ {r \in stage : t \in p.parents[r]}]
           a7 == [t \in Txs |-> IF t \in stage THEN 0 ELSE
                    p.nCountWithDescendants[t] - SumFunctionOnSet(Ones, below(t))]
           a8 == [t \in Txs |-> IF t \in stage THEN 0 ELSE
                    p.nModFeesWithDescendants[t] - SumFunctionOnSet(FeesOf(p), below(t))]
           a9 == [t \in Txs |-> IF t \in stage THEN 0 ELSE
                    p.nCountWithAncestors[t] - SumFunctionOnSet(Ones, above(t))]
           a10 == [t \in Txs |-> IF t \in stage THEN 0 ELSE
                     p.nModFeesWithAncestors[t] - SumFunctionOnSet(FeesOf(p), above(t))]
           b7 == [t \in Txs |-> IF t \in stage THEN 0 ELSE
                    p.nCountWithDescendants[t] - Cardinality(below(t))]
           b9 == [t \in Txs |-> IF t \in stage THEN 0 ELSE
                    p.nCountWithAncestors[t] - Cardinality(above(t))]
<1>1. q = [p EXCEPT !.mapTx = a1, !.mapNextTx = a2, !.feeDelta = a4, !.parents = a5,
                    !.children = a6, !.nCountWithDescendants = b7,
                    !.nModFeesWithDescendants = a8, !.nCountWithAncestors = b9,
                    !.nModFeesWithAncestors = a10]
  BY DEF RemoveStaged, BelowIn, AboveIn, CalculateMemPoolAncestors, CalculateDescendants,
               SumFees, FeesOf
<1>2. \A t \in Txs : below(t) \in SUBSET Txs /\ above(t) \in SUBSET Txs
  BY DEF BelowIn, AboveIn
<1>3. b7 = a7 /\ b9 = a9
  <2> HIDE DEF below, above
  <2>1. \A t \in Txs : /\ Cardinality(below(t)) = SumFunctionOnSet(Ones, below(t))
                       /\ Cardinality(above(t)) = SumFunctionOnSet(Ones, above(t))
    BY <1>2, CountIsSum
  <2> QED
    BY <2>1
<1>4. a2 \in [Outpoints -> Txs \cup {None}] /\ a4 \in [Txs -> Int]
  BY SMT, PoolFields
<1>5. a5 \in Relations /\ a6 \in Relations
  BY PoolFields DEF Relations
<1>6. a7 \in [Txs -> Int] /\ a8 \in [Txs -> Int] /\ a9 \in [Txs -> Int] /\ a10 \in [Txs -> Int]
  <2> HIDE DEF below, above
  <2>1. \A t \in Txs : /\ SumFunctionOnSet(Ones, below(t)) \in Int
                       /\ SumFunctionOnSet(Ones, above(t)) \in Int
                       /\ SumFunctionOnSet(FeesOf(p), below(t)) \in Int
                       /\ SumFunctionOnSet(FeesOf(p), above(t)) \in Int
    BY <1>2, SumType, OnesType, FeesType
  <2> QED
    BY SMT, <2>1, PoolFields
<1>7. a1 \in SUBSET Txs
  BY PoolFields
<1> HIDE DEF q, a1, a2, a4, a5, a6, a7, a8, a9, a10, b7, b9
<1>8. /\ q = [f \in Names |-> q[f]]
      /\ q.mapTx = a1 /\ q.mapNextTx = a2 /\ q.mapDeltas = p.mapDeltas /\ q.feeDelta = a4
      /\ q.parents = a5 /\ q.children = a6
      /\ q.nCountWithDescendants = a7 /\ q.nModFeesWithDescendants = a8
      /\ q.nCountWithAncestors = a9 /\ q.nModFeesWithAncestors = a10
  <2>1. q = [p EXCEPT !.mapTx = a1, !.mapNextTx = a2, !.feeDelta = a4, !.parents = a5,
                      !.children = a6, !.nCountWithDescendants = a7,
                      !.nModFeesWithDescendants = a8, !.nCountWithAncestors = a9,
                      !.nModFeesWithAncestors = a10]
    BY <1>1, <1>3
  <2>2. q = [f \in DOMAIN p |-> q[f]]
    BY <2>1
  <2>3. /\ q.mapTx = a1 /\ q.mapNextTx = a2 /\ q.mapDeltas = p.mapDeltas /\ q.feeDelta = a4
        /\ q.parents = a5 /\ q.children = a6
        /\ q.nCountWithDescendants = a7 /\ q.nModFeesWithDescendants = a8
        /\ q.nCountWithAncestors = a9 /\ q.nModFeesWithAncestors = a10
    BY <2>1, SMT DEF Pools
  <2> QED
    BY <2>2, <2>3, PoolNames
<1>9. q \in Pools
  BY <1>4, <1>5, <1>6, <1>7, <1>8, PoolIntro, PoolFields
<1> QED
  BY <1>8, <1>9 DEF StagedIs, q, a1, a2, a4, a5, a6, a7, a8, a9, a10

\* Q is R without the members of Z, from which R does not lead out.
Cut(R, Q, Z) ==
    /\ \A z \in Z : R[z] \subseteq Z
    /\ \A y \in Txs \ Z : Q[y] = R[y] \ Z

SameOn(f, g, S) == \A y \in S : g[y] = f[y]

\* g is f less the values v of what R leads to in Z.
Reduced(R, v, f, g, M, Z) ==
    \A t \in M \ Z : g[t] = f[t] - SumFunctionOnSet(v, Closure(R, {t}) \cap Z)

\* The totals when the members of Z, from which R does not lead out, go.
LEMMA CutTotals ==
    ASSUME NEW R \in Relations, NEW Q \in Relations, NEW Z \in SUBSET Txs, NEW M \in SUBSET Txs,
           Cut(R, Q, Z), NEW v \in [Txs -> Int], NEW w, SameOn(v, w, Txs \ Z),
           NEW f, NEW g, Exact(R, v, f, M), Reduced(R, v, f, g, M, Z)
    PROVE  Exact(Q, w, g, M \ Z)
<1> SUFFICES ASSUME NEW t \in M \ Z
             PROVE  g[t] = SumFunctionOnSet(w, Closure(Q, {t}))
  BY DEF Exact
<1> DEFINE C == Closure(R, {t})
<1>0. v \in [Txs -> Int] /\ Z \in SUBSET Txs
  OBVIOUS
<1>1. t \in Txs \ Z /\ {t} \in SUBSET Txs /\ t \in M
  OBVIOUS
<1>2. Closure(Q, {t}) = C \ Z
  <2>1. \A z \in Z : R[z] \subseteq Z
    BY DEF Cut
  <2>2. \A y \in Txs \ Z : Q[y] = R[y] \ Z
    BY DEF Cut
  <2> QED
    BY SMT, <1>1, <2>1, <2>2, ClosureCut
<1>3. C \in SUBSET Txs
  BY <1>1, ClosureIs
<1>4. f[t] = SumFunctionOnSet(v, C)
  BY <1>1 DEF Exact
<1> HIDE DEF C
<1>5. SumFunctionOnSet(v, C \ Z) = SumFunctionOnSet(v, C) - SumFunctionOnSet(v, C \cap Z)
  BY ONLY <1>0, <1>3, SumMinus, Zenon
<1>6. C \ Z \in SUBSET Txs /\ \A x \in C \ Z : w[x] = v[x]
  BY <1>3 DEF SameOn
<1>7. SumFunctionOnSet(w, C \ Z) = SumFunctionOnSet(v, C \ Z)
  BY <1>6, SumSame
<1>8. g[t] = f[t] - SumFunctionOnSet(v, C \cap Z)
  BY DEF C, Reduced
<1> QED
  BY <1>2, <1>4, <1>5, <1>7, <1>8

\* The totals where nothing changes that they are of.
LEMMA KeepTotals ==
    ASSUME NEW R \in Relations, NEW Q \in Relations, NEW M \in SUBSET Txs,
           NEW v \in [Txs -> Int], NEW w, NEW f, NEW g, Exact(R, v, f, M), SameOn(f, g, M),
           \A t \in M : SameOn(R, Q, Closure(R, {t})) /\ SameOn(v, w, Closure(R, {t}))
    PROVE  Exact(Q, w, g, M)
<1> SUFFICES ASSUME NEW t \in M
             PROVE  g[t] = SumFunctionOnSet(w, Closure(Q, {t}))
  BY DEF Exact
<1>1. {t} \in SUBSET Txs
  OBVIOUS
<1>2. Closure(Q, {t}) = Closure(R, {t})
  BY <1>1, ClosureAgrees DEF SameOn
<1>3. Closure(R, {t}) \in SUBSET Txs
  BY <1>1, ClosureIs
<1>4. SumFunctionOnSet(w, Closure(R, {t})) = SumFunctionOnSet(v, Closure(R, {t}))
  BY <1>3, SumSame DEF SameOn
<1> QED
  BY <1>2, <1>4 DEF Exact, SameOn

\* What the links of a sound pool are like.
LEMMA LinkFacts ==
    ASSUME NEW p \in Pools, Linked(p)
    PROVE  /\ p.parents \in Relations /\ p.children \in Relations
           /\ Inverses(p.parents, p.children) /\ Inverses(p.children, p.parents)
           /\ \A t, x \in Txs : x \in p.parents[t] <=> t \in p.children[x]
           /\ \A t \in Txs : p.parents[t] \subseteq p.mapTx /\ p.children[t] \subseteq p.mapTx
           /\ \A t \in Txs : p.parents[t] \subseteq Txs /\ p.children[t] \subseteq Txs
           /\ \A t \in Txs : p.parents[t] \subseteq Inputs(t)
           /\ \A t \in Txs \ p.mapTx : p.parents[t] = {} /\ p.children[t] = {}
           /\ \A t, x \in Txs : x \in Closure(p.children, {t}) <=> t \in Closure(p.parents, {x})
           /\ \A t \in Txs : t \notin Closure(p.parents, p.parents[t])
<1>1. p.parents \in Relations /\ p.children \in Relations /\ p.mapTx \in SUBSET Txs
  BY PoolFields
<1>2. Inverses(p.parents, p.children) /\ Inverses(p.children, p.parents)
  BY DEF Linked, Inverses
<1>3. \A t \in Txs : p.parents[t] \subseteq p.mapTx /\ p.parents[t] \subseteq Inputs(t)
  BY DEF Linked
<1>4. \A t \in Txs, x \in Txs : x \in p.children[t] <=> t \in p.parents[x]
  BY <1>2 DEF Inverses
<1>5. \A t \in Txs \ p.mapTx : p.parents[t] = {} /\ p.children[t] = {}
  BY <1>1, <1>3, <1>4 DEF Linked, Relations
<1>6. \A t \in Txs : p.children[t] \subseteq p.mapTx
  BY <1>1, <1>4, <1>5 DEF Relations
<1>7. \A t, x \in Txs : x \in Closure(p.children, {t}) <=> t \in Closure(p.parents, {x})
  BY <1>1, <1>2, ClosureInverse
<1>8. \A t \in Txs : t \notin Closure(p.parents, p.parents[t])
  BY <1>1, <1>3, NoCircle
<1>9. \A t \in Txs : p.parents[t] \subseteq Txs /\ p.children[t] \subseteq Txs
  BY <1>1, <1>3, <1>6
<1> QED
  BY <1>1, <1>2, <1>3, <1>4, <1>5, <1>6, <1>7, <1>8, <1>9

\* The closures of entries are entries.
LEMMA ClosureInPool ==
    ASSUME NEW p \in Pools, Linked(p), NEW S \in SUBSET p.mapTx
    PROVE  /\ Closure(p.children, S) \in SUBSET p.mapTx /\ Closure(p.parents, S) \in SUBSET p.mapTx
           /\ S \in SUBSET Txs
           /\ S \subseteq Closure(p.children, S) /\ S \subseteq Closure(p.parents, S)
           /\ \A x \in Closure(p.children, S) : p.children[x] \subseteq Closure(p.children, S)
           /\ \A x \in Closure(p.parents, S) : p.parents[x] \subseteq Closure(p.parents, S)
<1>1. p.mapTx \in SUBSET Txs /\ S \subseteq p.mapTx /\ S \in SUBSET Txs
  BY PoolFields
<1>2. \A x \in p.mapTx : p.children[x] \subseteq p.mapTx /\ p.parents[x] \subseteq p.mapTx
  BY <1>1, LinkFacts
<1>3. Closure(p.children, S) \subseteq p.mapTx /\ Closure(p.parents, S) \subseteq p.mapTx
  BY <1>1, <1>2, ClosureLeast
<1> QED
  BY <1>1, <1>3, LinkFacts, ClosureIs

\* mapNextTx stays exact when any entries are removed.
LEMMA RemovedNextTx ==
    ASSUME NEW p \in Pools, NextTxExact(p), NEW stage \in SUBSET p.mapTx, NEW u \in BOOLEAN,
           NEW q, q = RemoveStaged(p, stage, u)
    PROVE  NextTxExact(q)
<1>1. p.mapTx \in SUBSET Txs /\ stage \in SUBSET Txs /\ None \notin Txs
  BY PoolFields, MempoolAssumption
<1>2. /\ q.mapTx = p.mapTx \ stage
      /\ q.mapNextTx = [o \in Outpoints |->
                          IF \E r \in stage : o \in Spends(r) THEN None ELSE p.mapNextTx[o]]
  <2>1. StagedIs(p, stage, u, q)
    BY <1>1, StagedFields
  <2> QED
    BY <2>1 DEF StagedIs
<1> SUFFICES ASSUME NEW o \in Outpoints, NEW t \in Txs
             PROVE  q.mapNextTx[o] = t <=> t \in q.mapTx /\ o \in Spends(t)
  BY DEF NextTxExact
<1>3. \A r \in Txs : p.mapNextTx[o] = r <=> r \in p.mapTx /\ o \in Spends(r)
  BY DEF NextTxExact
<1>4. CASE \E r \in stage : o \in Spends(r)
  <2>1. PICK r \in stage : o \in Spends(r)
    BY <1>4
  <2>2. q.mapNextTx[o] = None /\ p.mapNextTx[o] = r
    BY <1>1, <1>2, <1>3, <1>4, <2>1
  <2> QED
    BY <1>1, <1>2, <1>3, <2>1, <2>2
<1>5. CASE ~ \E r \in stage : o \in Spends(r)
  <2>1. q.mapNextTx[o] = p.mapNextTx[o]
    BY <1>2, <1>5
  <2> QED
    BY <1>2, <1>3, <1>5, <2>1
<1> QED
  BY <1>4, <1>5

\* From the members of stage the links lead to members of stage.
Downward(p, stage) == \A r \in stage : p.children[r] \subseteq stage

\* q is p without the entries of stage.
Without(p, stage, q) ==
    /\ Sound(q)
    /\ q.mapTx = p.mapTx \ stage /\ q.mapDeltas = p.mapDeltas
    /\ \A t \in q.mapTx : q.parents[t] = p.parents[t] \ stage /\ q.feeDelta[t] = p.feeDelta[t]

\* UpdateForRemoveFromMempool with the descendants left alone is right for a set that
\* has its descendants with it: only the totals of its ancestors change.
LEMMA RemovalSound ==
    ASSUME NEW p, Sound(p), NEW stage \in SUBSET p.mapTx,
           Downward(p, stage), NEW u \in BOOLEAN, ~u
    PROVE  Without(p, stage, RemoveStaged(p, stage, u))
<1> SUFFICES ASSUME NEW q, q = RemoveStaged(p, stage, u)
             PROVE  Without(p, stage, q)
  OBVIOUS
<1>1. p \in Pools /\ Linked(p) /\ NextTxExact(p) /\ Totals(p)
  BY DEF Sound
<1>2. p.mapTx \in SUBSET Txs /\ stage \in SUBSET Txs
  BY <1>1, PoolFields
<1>3. /\ p.parents \in Relations /\ p.children \in Relations
      /\ \A t, x \in Txs : x \in p.parents[t] <=> t \in p.children[x]
      /\ \A t, x \in Txs : x \in Closure(p.children, {t}) <=> t \in Closure(p.parents, {x})
      /\ \A t \in Txs : p.parents[t] \subseteq Txs /\ p.children[t] \subseteq Txs
      /\ \A t \in Txs : p.parents[t] \subseteq p.mapTx /\ p.children[t] \subseteq p.mapTx
      /\ \A t \in Txs : p.parents[t] \subseteq Inputs(t)
      /\ \A t \in Txs \ p.mapTx : p.parents[t] = {} /\ p.children[t] = {}
  BY <1>1, LinkFacts
<1>4. StagedIs(p, stage, u, q)
  BY <1>1, <1>2, StagedFields
<1>5. /\ q \in Pools
      /\ q.mapTx = p.mapTx \ stage /\ q.mapDeltas = p.mapDeltas
      /\ q.feeDelta = [t \in Txs |-> IF t \in stage THEN 0 ELSE p.feeDelta[t]]
      /\ q.parents = [t \in Txs |-> IF t \in stage THEN {} ELSE
                        p.parents[t] \ {r \in stage : t \in p.children[r]}]
      /\ q.children = [t \in Txs |-> IF t \in stage THEN {} ELSE
                         p.children[t] \ {r \in stage : t \in p.parents[r]}]
  BY <1>4 DEF StagedIs
<1>6. /\ q.nCountWithDescendants = [t \in Txs |-> IF t \in stage THEN 0 ELSE
           p.nCountWithDescendants[t] - SumFunctionOnSet(Ones, BelowIn(p, stage, t))]
      /\ q.nModFeesWithDescendants = [t \in Txs |-> IF t \in stage THEN 0 ELSE
           p.nModFeesWithDescendants[t] - SumFunctionOnSet(FeesOf(p), BelowIn(p, stage, t))]
  BY <1>4 DEF StagedIs
<1>7. /\ q.nCountWithAncestors = [t \in Txs |-> IF t \in stage THEN 0 ELSE
           p.nCountWithAncestors[t] - SumFunctionOnSet(Ones, {})]
      /\ q.nModFeesWithAncestors = [t \in Txs |-> IF t \in stage THEN 0 ELSE
           p.nModFeesWithAncestors[t] - SumFunctionOnSet(FeesOf(p), {})]
  BY <1>4 DEF StagedIs
<1>0. \A r \in stage : p.children[r] \subseteq stage
  BY DEF Downward
<1>8. \A t \in Txs \ stage : q.parents[t] = p.parents[t]
  <2> SUFFICES ASSUME NEW t \in Txs \ stage
               PROVE  q.parents[t] = p.parents[t]
    OBVIOUS
  <2>1. \A r \in stage : t \notin p.children[r]
    BY <1>0
  <2>2. q.parents[t] = p.parents[t] \ {r \in stage : t \in p.children[r]}
    BY <1>5
  <2> QED
    BY <2>1, <2>2
<1>9. \A t \in Txs \ stage : q.children[t] = p.children[t] \ stage
  BY SMT, <1>2, <1>3, <1>5
<1>10. \A t \in stage : q.parents[t] = {} /\ q.children[t] = {}
  BY <1>2, <1>5
<1>11. \A t \in Txs \ stage : BelowIn(p, stage, t) = Closure(p.children, {t}) \cap stage
  <2> SUFFICES ASSUME NEW t \in Txs \ stage, NEW r \in stage
               PROVE  t \in Closure(p.parents, p.parents[r]) <=> r \in Closure(p.children, {t})
    BY DEF BelowIn
  <2>1. Closure(p.parents, {r}) = {r} \cup Closure(p.parents, p.parents[r])
    BY <1>2, <1>3, ClosureStep
  <2>2. r \in Closure(p.children, {t}) <=> t \in Closure(p.parents, {r})
    BY <1>2, <1>3
  <2> QED
    BY <2>1, <2>2
<1>12. \A t \in Txs \ stage : \A y \in Closure(p.parents, {t}) : y \in Txs \ stage
  <2> SUFFICES ASSUME NEW t \in Txs \ stage, NEW y \in Closure(p.parents, {t})
               PROVE  y \in Txs \ stage
    OBVIOUS
  <2>1. y \in Txs
    <3>1. {t} \in SUBSET Txs
      OBVIOUS
    <3> QED
      BY <1>3, <3>1, ClosureIs
  <2>2. ASSUME y \in stage PROVE FALSE
    <3>1. t \in Closure(p.children, {y})
      BY <1>3, <2>1
    <3>2. {y} \subseteq stage
      BY <2>2
    <3>3. Closure(p.children, {y}) \subseteq stage
      BY <1>0, <1>2, <3>2, ClosureLeast
    <3> QED
      BY <3>1, <3>3
  <2> QED
    BY <2>1, <2>2
<1>13. Linked(q)
  <2>1. Inverses(q.parents, q.children)
    <3> SUFFICES ASSUME NEW x \in Txs, NEW y \in Txs
                 PROVE  y \in q.parents[x] <=> x \in q.children[y]
      BY DEF Inverses
    <3>1. CASE x \in stage
      <4>1. q.parents[x] = {} /\ x \notin q.children[y]
        <5>1. q.parents[x] = {} /\ (y \in stage => q.children[y] = {})
          BY <1>10, <3>1
        <5>2. y \notin stage => q.children[y] = p.children[y] \ stage
          BY <1>9
        <5> QED
          BY <3>1, <5>1, <5>2
      <4> QED
        BY <4>1
    <3>2. CASE x \notin stage /\ y \in stage
      <4>1. q.children[y] = {} /\ x \notin p.children[y] /\ q.parents[x] = p.parents[x]
        BY <1>0, <1>2, <1>8, <1>10, <3>2
      <4> QED
        BY <1>3, <4>1
    <3>3. CASE x \notin stage /\ y \notin stage
      <4>1. q.parents[x] = p.parents[x] /\ q.children[y] = p.children[y] \ stage
        BY <1>8, <1>9, <3>3
      <4>2. y \in p.parents[x] <=> x \in p.children[y]
        BY <1>3
      <4> QED
        BY <3>3, <4>1, <4>2
    <3> QED
      BY <3>1, <3>2, <3>3
  <2>2. \A t \in Txs : q.parents[t] \subseteq Inputs(t) \cap q.mapTx
    <3> SUFFICES ASSUME NEW t \in Txs, NEW x \in q.parents[t]
                 PROVE  x \in Inputs(t) /\ x \in q.mapTx
      OBVIOUS
    <3>1. t \notin stage /\ x \in p.parents[t]
      BY <1>8, <1>10
    <3>2. x \in Txs /\ t \in p.children[x] /\ x \in p.mapTx /\ x \in Inputs(t)
      BY <1>3, <3>1
    <3> QED
      BY <1>0, <1>5, <3>1, <3>2
  <2>3. \A t \in Txs \ q.mapTx : q.parents[t] = {}
    BY <1>3, <1>5, <1>8, <1>10
  <2> QED
    BY <2>1, <2>2, <2>3 DEF Linked
<1>14. FeesOf(p) \in [Txs -> Int] /\ Ones \in [Txs -> Int] /\ q.parents \in Relations /\ q.children \in Relations
  BY <1>1, <1>5, FeesType, OnesType, PoolFields
<1>15. \A t \in Txs \ stage : FeesOf(q)[t] = FeesOf(p)[t]
  BY <1>2, <1>5 DEF FeesOf, GetModifiedFee
<1>16. /\ Exact(q.children, Ones, q.nCountWithDescendants, q.mapTx)
       /\ Exact(q.children, FeesOf(q), q.nModFeesWithDescendants, q.mapTx)
  <2>1. Reduced(p.children, Ones, p.nCountWithDescendants, q.nCountWithDescendants, p.mapTx, stage)
    BY <1>2, <1>6, <1>11 DEF Reduced
  <2>2. Reduced(p.children, FeesOf(p), p.nModFeesWithDescendants, q.nModFeesWithDescendants,
                p.mapTx, stage)
    BY <1>2, <1>6, <1>11 DEF Reduced
  <2>3. /\ Exact(p.children, Ones, p.nCountWithDescendants, p.mapTx)
        /\ Exact(p.children, FeesOf(p), p.nModFeesWithDescendants, p.mapTx)
    BY <1>1 DEF Totals
  <2>4. Cut(p.children, q.children, stage)
    BY <1>0, <1>9 DEF Cut
  <2>5. SameOn(Ones, Ones, Txs \ stage) /\ SameOn(FeesOf(p), FeesOf(q), Txs \ stage)
    BY <1>15 DEF SameOn
  <2>6. Exact(q.children, Ones, q.nCountWithDescendants, p.mapTx \ stage)
    BY ONLY <1>2, <1>3, <1>14, <2>1, <2>3, <2>4, <2>5, CutTotals, Zenon
  <2>7. Exact(q.children, FeesOf(q), q.nModFeesWithDescendants, p.mapTx \ stage)
    BY ONLY <1>2, <1>3, <1>14, <2>2, <2>3, <2>4, <2>5, CutTotals, Zenon
  <2> QED
    BY <1>5, <2>6, <2>7
<1>17. /\ Exact(q.parents, Ones, q.nCountWithAncestors, q.mapTx)
       /\ Exact(q.parents, FeesOf(q), q.nModFeesWithAncestors, q.mapTx)
  <2>1. /\ SumFunctionOnSet(Ones, {}) = 0 /\ SumFunctionOnSet(FeesOf(p), {}) = 0
    BY FS_EmptySet, SumStep
  <2>2. \A t \in q.mapTx : /\ q.nCountWithAncestors[t] = p.nCountWithAncestors[t]
                           /\ q.nModFeesWithAncestors[t] = p.nModFeesWithAncestors[t]
    <3>1. \A t \in Txs : p.nCountWithAncestors[t] \in Int /\ p.nModFeesWithAncestors[t] \in Int
      BY <1>1, PoolFields
    <3>2. \A t \in q.mapTx : t \in Txs /\ t \notin stage
      BY <1>2, <1>5
    <3>3. \A t \in q.mapTx : /\ q.nCountWithAncestors[t] = p.nCountWithAncestors[t] - 0
                             /\ q.nModFeesWithAncestors[t] = p.nModFeesWithAncestors[t] - 0
      BY <1>7, <2>1, <3>2
    <3> QED
      BY SMT, <3>1, <3>2, <3>3
  <2>3. /\ Exact(p.parents, Ones, p.nCountWithAncestors, q.mapTx)
        /\ Exact(p.parents, FeesOf(p), p.nModFeesWithAncestors, q.mapTx)
        /\ q.mapTx \in SUBSET Txs /\ q.mapTx \subseteq Txs \ stage
    BY <1>1, <1>2, <1>5 DEF Totals, Exact
  <2>4. \A t \in q.mapTx : \A y \in Closure(p.parents, {t}) : y \in Txs \ stage
    BY <1>12, <2>3
  <2>5. \A t \in q.mapTx : /\ SameOn(p.parents, q.parents, Closure(p.parents, {t}))
                           /\ SameOn(Ones, Ones, Closure(p.parents, {t}))
                           /\ SameOn(FeesOf(p), FeesOf(q), Closure(p.parents, {t}))
    BY <1>8, <1>15, <2>4 DEF SameOn
  <2>6. /\ SameOn(p.nCountWithAncestors, q.nCountWithAncestors, q.mapTx)
        /\ SameOn(p.nModFeesWithAncestors, q.nModFeesWithAncestors, q.mapTx)
    BY <2>2 DEF SameOn
  <2>7. Exact(q.parents, Ones, q.nCountWithAncestors, q.mapTx)
    BY ONLY <1>3, <1>14, <2>3, <2>5, <2>6, KeepTotals, Zenon
  <2>8. Exact(q.parents, FeesOf(q), q.nModFeesWithAncestors, q.mapTx)
    BY ONLY <1>3, <1>14, <2>3, <2>5, <2>6, KeepTotals, Zenon
  <2> QED
    BY <2>7, <2>8
<1>18. \A t \in Txs \ q.mapTx : q.nCountWithDescendants[t] = 0 /\ q.nModFeesWithDescendants[t] = 0
  <2> SUFFICES ASSUME NEW t \in Txs \ q.mapTx, t \notin stage
               PROVE  q.nCountWithDescendants[t] = 0 /\ q.nModFeesWithDescendants[t] = 0
    BY <1>6
  <2>1. t \in Txs \ p.mapTx /\ p.nCountWithDescendants[t] = 0 /\ p.nModFeesWithDescendants[t] = 0
    BY <1>1, <1>5 DEF Totals
  <2>2. Closure(p.children, {t}) \cap stage = {}
    <3>1. p.children[t] = {}
      BY <1>1, <2>1, LinkFacts
    <3>2. Closure(p.children, {t}) = {t} \cup Closure(p.children, p.children[t])
      BY <1>3, <2>1, ClosureStep
    <3> QED
      BY <3>1, <3>2, ClosureOfEmpty
  <2>3. /\ SumFunctionOnSet(Ones, {}) = 0 /\ SumFunctionOnSet(FeesOf(p), {}) = 0
    BY FS_EmptySet, SumStep
  <2>4. /\ q.nCountWithDescendants[t] = p.nCountWithDescendants[t] - SumFunctionOnSet(Ones, {})
        /\ q.nModFeesWithDescendants[t] = p.nModFeesWithDescendants[t] - SumFunctionOnSet(FeesOf(p), {})
    <3>1. BelowIn(p, stage, t) = {} /\ t \in Txs /\ t \notin stage
      BY <1>11, <2>1, <2>2
    <3> QED
      BY <1>6, <3>1
  <2> QED
    BY SMT, <2>1, <2>3, <2>4
<1>19. NextTxExact(q)
  BY <1>1, RemovedNextTx
<1>20. Sound(q)
  BY <1>5, <1>13, <1>16, <1>17, <1>18, <1>19 DEF Sound, Totals
<1>21. \A t \in q.mapTx : q.parents[t] = p.parents[t] \ stage /\ q.feeDelta[t] = p.feeDelta[t]
  <2>1. \A t \in q.mapTx : t \in Txs /\ t \notin stage
    BY <1>2, <1>5
  <2>2. \A t \in q.mapTx : q.parents[t] = p.parents[t] \ stage
    <3> SUFFICES ASSUME NEW t \in q.mapTx
                 PROVE  q.parents[t] = p.parents[t] \ stage
      OBVIOUS
    <3>1. q.parents[t] = p.parents[t] /\ t \in Txs /\ t \notin stage
      BY <1>8, <2>1
    <3>2. \A x \in p.parents[t] : x \notin stage
      BY <1>0, <1>2, <1>3, <3>1
    <3> QED
      BY <3>1, <3>2
  <2>3. \A t \in q.mapTx : q.feeDelta[t] = p.feeDelta[t]
    BY <1>5, <2>1
  <2> QED
    BY <2>2, <2>3
<1> QED
  BY <1>5, <1>20, <1>21 DEF Without

\* UpdateForRemoveFromMempool with the descendants updated is right for an entry that has
\* no parents, as the one that a block takes: only the totals of its descendants change.
LEMMA TopRemovalSound ==
    ASSUME NEW p, Sound(p), NEW a \in p.mapTx, p.parents[a] = {},
           NEW u \in BOOLEAN, u
    PROVE  Without(p, {a}, RemoveStaged(p, {a}, u))
<1> SUFFICES ASSUME NEW q, q = RemoveStaged(p, {a}, u)
             PROVE  Without(p, {a}, q)
  OBVIOUS
<1>1. p \in Pools /\ Linked(p) /\ NextTxExact(p) /\ Totals(p)
  BY DEF Sound
<1>2. p.mapTx \in SUBSET Txs /\ a \in Txs /\ {a} \in SUBSET Txs
  BY <1>1, PoolFields
<1>3. /\ p.parents \in Relations /\ p.children \in Relations
      /\ \A t, x \in Txs : x \in p.parents[t] <=> t \in p.children[x]
      /\ \A t, x \in Txs : x \in Closure(p.children, {t}) <=> t \in Closure(p.parents, {x})
      /\ \A t \in Txs : p.parents[t] \subseteq Txs /\ p.children[t] \subseteq Txs
      /\ \A t \in Txs : p.parents[t] \subseteq p.mapTx /\ p.children[t] \subseteq p.mapTx
      /\ \A t \in Txs : p.parents[t] \subseteq Inputs(t)
      /\ \A t \in Txs \ p.mapTx : p.parents[t] = {} /\ p.children[t] = {}
  BY <1>1, LinkFacts
<1>4. StagedIs(p, {a}, u, q)
  BY <1>1, <1>2, StagedFields
<1>5. /\ q \in Pools
      /\ q.mapTx = p.mapTx \ {a} /\ q.mapDeltas = p.mapDeltas
      /\ q.feeDelta = [t \in Txs |-> IF t \in {a} THEN 0 ELSE p.feeDelta[t]]
      /\ q.parents = [t \in Txs |-> IF t \in {a} THEN {} ELSE
                        p.parents[t] \ {r \in {a} : t \in p.children[r]}]
      /\ q.children = [t \in Txs |-> IF t \in {a} THEN {} ELSE
                         p.children[t] \ {r \in {a} : t \in p.parents[r]}]
  BY <1>4 DEF StagedIs
<1>6. /\ q.nCountWithDescendants = [t \in Txs |-> IF t \in {a} THEN 0 ELSE
           p.nCountWithDescendants[t] - SumFunctionOnSet(Ones, BelowIn(p, {a}, t))]
      /\ q.nModFeesWithDescendants = [t \in Txs |-> IF t \in {a} THEN 0 ELSE
           p.nModFeesWithDescendants[t] - SumFunctionOnSet(FeesOf(p), BelowIn(p, {a}, t))]
  BY <1>4 DEF StagedIs
<1>7. /\ q.nCountWithAncestors = [t \in Txs |-> IF t \in {a} THEN 0 ELSE
           p.nCountWithAncestors[t] - SumFunctionOnSet(Ones, AboveIn(p, {a}, t))]
      /\ q.nModFeesWithAncestors = [t \in Txs |-> IF t \in {a} THEN 0 ELSE
           p.nModFeesWithAncestors[t] - SumFunctionOnSet(FeesOf(p), AboveIn(p, {a}, t))]
  BY <1>4 DEF StagedIs
<1>8. \A t \in Txs \ {a} : q.parents[t] = p.parents[t] \ {a}
  <2> SUFFICES ASSUME NEW t \in Txs \ {a}
               PROVE  q.parents[t] = p.parents[t] \ {a}
    OBVIOUS
  <2>1. q.parents[t] = p.parents[t] \ {r \in {a} : t \in p.children[r]}
    BY ONLY <1>5, t \in Txs \ {a}, Zenon
  <2>2. a \in p.parents[t] <=> t \in p.children[a]
    BY <1>2, <1>3
  <2> QED
    BY <2>1, <2>2
<1>9. \A t \in Txs \ {a} : q.children[t] = p.children[t]
  <2> SUFFICES ASSUME NEW t \in Txs \ {a}
               PROVE  q.children[t] = p.children[t]
    OBVIOUS
  <2>1. q.children[t] = p.children[t] \ {r \in {a} : t \in p.parents[r]}
    BY <1>5
  <2> QED
    BY <2>1
<1>10. q.parents[a] = {} /\ q.children[a] = {}
  BY <1>2, <1>5
<1>11. \A t \in Txs : BelowIn(p, {a}, t) = {}
  BY ClosureOfEmpty DEF BelowIn
<1>12. \A t \in Txs \ {a} : AboveIn(p, {a}, t) = Closure(p.parents, {t}) \cap {a}
  <2> SUFFICES ASSUME NEW t \in Txs \ {a}
               PROVE  AboveIn(p, {a}, t) = Closure(p.parents, {t}) \cap {a}
    OBVIOUS
  <2>1. t # a /\ (t \in Closure(p.children, {a}) <=> a \in Closure(p.parents, {t}))
    BY <1>2, <1>3
  <2> QED
    BY <2>1 DEF AboveIn
<1>13. \A t \in Txs \ {a} : \A y \in Closure(p.children, {t}) : y \in Txs \ {a}
  <2> SUFFICES ASSUME NEW t \in Txs \ {a}, NEW y \in Closure(p.children, {t})
               PROVE  y \in Txs \ {a}
    OBVIOUS
  <2>1. y \in Txs
    <3>1. {t} \in SUBSET Txs
      OBVIOUS
    <3> QED
      BY <1>3, <3>1, ClosureIs
  <2>2. ASSUME y = a PROVE FALSE
    <3>1. t \in Closure(p.parents, {a})
      BY <1>3, <2>1, <2>2
    <3>2. Closure(p.parents, {a}) = {a} \cup Closure(p.parents, p.parents[a])
      BY <1>2, <1>3, ClosureStep
    <3> QED
      BY <3>1, <3>2, ClosureOfEmpty
  <2> QED
    BY <2>1, <2>2
<1>14. Linked(q)
  <2>1. Inverses(q.parents, q.children)
    <3> SUFFICES ASSUME NEW x \in Txs, NEW y \in Txs
                 PROVE  y \in q.parents[x] <=> x \in q.children[y]
      BY DEF Inverses
    <3>1. y \in p.parents[x] <=> x \in p.children[y]
      BY <1>3
    <3>2. CASE x = a
      <4>1. x \notin p.children[y]
        BY <3>1, <3>2
      <4>2. x \notin q.children[y]
        BY <1>9, <1>10, <4>1
      <4> QED
        BY <1>10, <3>2, <4>2
    <3>3. CASE x # a /\ y = a
      BY <1>8, <1>10, <3>3
    <3>4. CASE x # a /\ y # a
      BY <1>8, <1>9, <3>1, <3>4
    <3> QED
      BY <3>2, <3>3, <3>4
  <2>2. \A t \in Txs : q.parents[t] \subseteq Inputs(t) \cap q.mapTx
    <3> SUFFICES ASSUME NEW t \in Txs, NEW x \in q.parents[t]
                 PROVE  x \in Inputs(t) /\ x \in q.mapTx
      OBVIOUS
    <3>1. t # a /\ x \in p.parents[t] /\ x # a
      <4>1. t # a
        BY <1>10
      <4> QED
        BY <1>8, <4>1
    <3> QED
      BY <1>3, <1>5, <3>1
  <2>3. \A t \in Txs \ q.mapTx : q.parents[t] = {}
    <3> SUFFICES ASSUME NEW t \in Txs, t \notin q.mapTx, t # a
                 PROVE  q.parents[t] = {}
      BY <1>10
    <3>1. p.parents[t] = {} /\ q.parents[t] = p.parents[t] \ {a}
      BY <1>3, <1>5, <1>8
    <3> QED
      BY <3>1
  <2> QED
    BY <2>1, <2>2, <2>3 DEF Linked
<1>15. FeesOf(p) \in [Txs -> Int] /\ Ones \in [Txs -> Int] /\ q.parents \in Relations /\ q.children \in Relations
  BY <1>1, <1>5, FeesType, OnesType, PoolFields
<1>16. \A t \in Txs \ {a} : FeesOf(q)[t] = FeesOf(p)[t]
  BY <1>2, <1>5 DEF FeesOf, GetModifiedFee
<1>17. /\ Exact(q.parents, Ones, q.nCountWithAncestors, q.mapTx)
       /\ Exact(q.parents, FeesOf(q), q.nModFeesWithAncestors, q.mapTx)
  <2>1. Reduced(p.parents, Ones, p.nCountWithAncestors, q.nCountWithAncestors, p.mapTx, {a})
    BY <1>2, <1>7, <1>12 DEF Reduced
  <2>2. Reduced(p.parents, FeesOf(p), p.nModFeesWithAncestors, q.nModFeesWithAncestors,
                p.mapTx, {a})
    BY <1>2, <1>7, <1>12 DEF Reduced
  <2>3. /\ Exact(p.parents, Ones, p.nCountWithAncestors, p.mapTx)
        /\ Exact(p.parents, FeesOf(p), p.nModFeesWithAncestors, p.mapTx)
    BY <1>1 DEF Totals
  <2>4. Cut(p.parents, q.parents, {a})
    BY <1>8 DEF Cut
  <2>5. SameOn(Ones, Ones, Txs \ {a}) /\ SameOn(FeesOf(p), FeesOf(q), Txs \ {a})
    BY <1>16 DEF SameOn
  <2>6. Exact(q.parents, Ones, q.nCountWithAncestors, p.mapTx \ {a})
    BY ONLY <1>2, <1>3, <1>15, <2>1, <2>3, <2>4, <2>5, CutTotals, Zenon
  <2>7. Exact(q.parents, FeesOf(q), q.nModFeesWithAncestors, p.mapTx \ {a})
    BY ONLY <1>2, <1>3, <1>15, <2>2, <2>3, <2>4, <2>5, CutTotals, Zenon
  <2> QED
    BY <1>5, <2>6, <2>7
<1>18. \A t \in Txs \ {a} : /\ q.nCountWithDescendants[t] = p.nCountWithDescendants[t]
                            /\ q.nModFeesWithDescendants[t] = p.nModFeesWithDescendants[t]
  <2>1. /\ SumFunctionOnSet(Ones, {}) = 0 /\ SumFunctionOnSet(FeesOf(p), {}) = 0
    BY FS_EmptySet, SumStep
  <2>2. \A t \in Txs : p.nCountWithDescendants[t] \in Int /\ p.nModFeesWithDescendants[t] \in Int
    BY <1>1, PoolFields
  <2>3. \A t \in Txs \ {a} :
          /\ q.nCountWithDescendants[t] = p.nCountWithDescendants[t] - 0
          /\ q.nModFeesWithDescendants[t] = p.nModFeesWithDescendants[t] - 0
    <3> SUFFICES ASSUME NEW t \in Txs, t \notin {a}
                 PROVE  /\ q.nCountWithDescendants[t] = p.nCountWithDescendants[t] - 0
                        /\ q.nModFeesWithDescendants[t] = p.nModFeesWithDescendants[t] - 0
      OBVIOUS
    <3>1. BelowIn(p, {a}, t) = {}
      BY <1>11
    <3>2. /\ q.nCountWithDescendants[t]
                = p.nCountWithDescendants[t] - SumFunctionOnSet(Ones, BelowIn(p, {a}, t))
          /\ q.nModFeesWithDescendants[t]
                = p.nModFeesWithDescendants[t] - SumFunctionOnSet(FeesOf(p), BelowIn(p, {a}, t))
      BY ONLY Zenon, <1>6, t \in Txs, t \notin {a}
    <3> QED
      BY ONLY <2>1, <3>1, <3>2, Zenon
  <2>4. \A t \in Txs \ {a} : t \in Txs
    OBVIOUS
  <2> QED
    BY ONLY <2>2, <2>3, <2>4
<1>19. /\ Exact(q.children, Ones, q.nCountWithDescendants, q.mapTx)
       /\ Exact(q.children, FeesOf(q), q.nModFeesWithDescendants, q.mapTx)
  <2>3. /\ Exact(p.children, Ones, p.nCountWithDescendants, q.mapTx)
        /\ Exact(p.children, FeesOf(p), p.nModFeesWithDescendants, q.mapTx)
        /\ q.mapTx \in SUBSET Txs /\ q.mapTx \subseteq Txs \ {a}
    BY <1>1, <1>2, <1>5 DEF Totals, Exact
  <2>4. \A t \in q.mapTx : \A y \in Closure(p.children, {t}) : y \in Txs \ {a}
    BY <1>13, <2>3
  <2>5. \A t \in q.mapTx : /\ SameOn(p.children, q.children, Closure(p.children, {t}))
                           /\ SameOn(Ones, Ones, Closure(p.children, {t}))
                           /\ SameOn(FeesOf(p), FeesOf(q), Closure(p.children, {t}))
    BY <1>9, <1>16, <2>4 DEF SameOn
  <2>6. /\ SameOn(p.nCountWithDescendants, q.nCountWithDescendants, q.mapTx)
        /\ SameOn(p.nModFeesWithDescendants, q.nModFeesWithDescendants, q.mapTx)
    BY <1>18, <2>3 DEF SameOn
  <2>7. Exact(q.children, Ones, q.nCountWithDescendants, q.mapTx)
    BY ONLY <1>3, <1>15, <2>3, <2>5, <2>6, KeepTotals, Zenon
  <2>8. Exact(q.children, FeesOf(q), q.nModFeesWithDescendants, q.mapTx)
    BY ONLY <1>3, <1>15, <2>3, <2>5, <2>6, KeepTotals, Zenon
  <2> QED
    BY <2>7, <2>8
<1>20. \A t \in Txs \ q.mapTx : q.nCountWithDescendants[t] = 0 /\ q.nModFeesWithDescendants[t] = 0
  <2>1. q.nCountWithDescendants[a] = 0 /\ q.nModFeesWithDescendants[a] = 0
    BY <1>2, <1>6
  <2>2. \A t \in Txs \ p.mapTx : p.nCountWithDescendants[t] = 0 /\ p.nModFeesWithDescendants[t] = 0
    BY <1>1 DEF Totals
  <2> QED
    <3> SUFFICES ASSUME NEW t \in Txs, t \notin q.mapTx, t # a
                 PROVE  q.nCountWithDescendants[t] = 0 /\ q.nModFeesWithDescendants[t] = 0
      BY <2>1
    <3>1. t \in Txs \ p.mapTx /\ t \in Txs \ {a}
      BY <1>5
    <3> QED
      BY <1>18, <2>2, <3>1
<1>21. NextTxExact(q)
  BY <1>1, RemovedNextTx
<1>22. Sound(q)
  BY <1>5, <1>14, <1>17, <1>19, <1>20, <1>21 DEF Sound, Totals
<1>23. \A t \in q.mapTx : q.parents[t] = p.parents[t] \ {a} /\ q.feeDelta[t] = p.feeDelta[t]
  <2>1. \A t \in q.mapTx : t \in Txs /\ t \notin {a}
    BY <1>2, <1>5
  <2>2. \A t \in q.mapTx : q.parents[t] = p.parents[t] \ {a}
    BY <1>8, <2>1
  <2>3. \A t \in q.mapTx : q.feeDelta[t] = p.feeDelta[t]
    BY <1>5, <2>1
  <2> QED
    BY <2>2, <2>3
<1> QED
  BY <1>5, <1>22, <1>23 DEF Without

\* The prioritisations of the entries outside X are in their entries.
DeltasBut(p, X) == \A t \in p.mapTx \ X : p.feeDelta[t] = p.mapDeltas[t]

DeltasOK(p) == \A t \in p.mapTx : p.feeDelta[t] = p.mapDeltas[t]

\* The links are the ones that the inputs make, but for those from the transactions V
\* that were put back to their children that were in the pool before.
LinkedBut(p, V) ==
    \A t \in p.mapTx : p.parents[t] = (Inputs(t) \cap p.mapTx) \ (IF t \in V THEN {} ELSE V)

\* T are the transactions of a disconnected block that are yet to be tried.
Available(p, C, T) ==
    \A t \in p.mapTx : \A o \in Spends(t) : o[1] \in p.mapTx \/ o \in Unspent(C) \/ o[1] \in T

PoolOK(p, C, V, T) ==
    /\ Sound(p)
    /\ LinkedBut(p, V)
    /\ p.mapTx \cap C = {}
    /\ Available(p, C, T)
    /\ V \subseteq p.mapTx /\ \A v \in V : Inputs(v) \cap p.mapTx \subseteq V
    /\ T \cap p.mapTx = {}

WithDelta(p, t, n) == [p EXCEPT !.mapDeltas[t] = n]

\* q is p, but for the prioritisation of t.
DeltaIs(p, t, n, q) ==
    /\ Sound(q)
    /\ q.mapTx = p.mapTx /\ q.parents = p.parents /\ q.children = p.children
    /\ q.feeDelta = p.feeDelta /\ q.mapNextTx = p.mapNextTx
    /\ q.mapDeltas = [p.mapDeltas EXCEPT ![t] = n]

\* PrioritiseTransaction and ClearPrioritisation of what is not in the pool.
LEMMA OnlyDelta ==
    ASSUME NEW p, Sound(p), NEW t \in Txs, NEW n \in Int
    PROVE  DeltaIs(p, t, n, WithDelta(p, t, n))
<1> SUFFICES ASSUME NEW q, q = [p EXCEPT !.mapDeltas[t] = n]
             PROVE  DeltaIs(p, t, n, q)
  BY DEF WithDelta
<1>1. p \in Pools /\ Linked(p) /\ NextTxExact(p) /\ Totals(p)
  BY DEF Sound
<1>2. /\ q.mapTx = p.mapTx /\ q.parents = p.parents /\ q.children = p.children
      /\ q.feeDelta = p.feeDelta /\ q.mapNextTx = p.mapNextTx
      /\ q.mapDeltas = [p.mapDeltas EXCEPT ![t] = n]
      /\ q.nCountWithDescendants = p.nCountWithDescendants
      /\ q.nModFeesWithDescendants = p.nModFeesWithDescendants
      /\ q.nCountWithAncestors = p.nCountWithAncestors
      /\ q.nModFeesWithAncestors = p.nModFeesWithAncestors
  BY <1>1, SMT DEF Pools
<1>3. q \in Pools
  BY <1>1, SMT DEF Pools
<1>4. FeesOf(q) = FeesOf(p)
  BY SMT, <1>2 DEF FeesOf, GetModifiedFee
<1>5. Linked(q) /\ NextTxExact(q)
  BY SMT, <1>1, <1>2 DEF Linked, Inverses, NextTxExact
<1>6. Totals(q)
  BY <1>1, <1>2, <1>4 DEF Totals
<1> QED
  BY <1>2, <1>3, <1>5, <1>6 DEF Sound, DeltaIs

\* And it keeps all that is true of the pool.
LEMMA OnlyDeltaOK ==
    ASSUME NEW p, NEW C, NEW V, NEW T, PoolOK(p, C, V, T), NEW t \in Txs, NEW n \in Int
    PROVE  /\ PoolOK(WithDelta(p, t, n), C, V, T) /\ DeltaIs(p, t, n, WithDelta(p, t, n))
<1>1. Sound(p)
  BY DEF PoolOK
<1>2. DeltaIs(p, t, n, WithDelta(p, t, n))
  BY <1>1, OnlyDelta
<1> DEFINE q == WithDelta(p, t, n)
<1> HIDE DEF q
<1>3. Sound(q) /\ q.mapTx = p.mapTx /\ q.parents = p.parents
  BY <1>2 DEF DeltaIs, q
<1>4. PoolOK(q, C, V, T)
  BY <1>3 DEF PoolOK, LinkedBut, Available
<1> QED
  BY <1>2, <1>4 DEF q

\* RemoveWithDescendants is RemoveStaged of the closure, without updateDescendants.
LEMMA Removal ==
    ASSUME NEW p, NEW S
    PROVE  \E u \in BOOLEAN :
             ~u /\ RemoveWithDescendants(p, S) = RemoveStaged(p, Closure(p.children, S), u)
<1>1. RemoveWithDescendants(p, S) = RemoveStaged(p, Closure(p.children, S), FALSE)
  BY DEF RemoveWithDescendants, CalculateDescendants
<1> QED
  BY <1>1

\* What an outpoint names is an input.
LEMMA InputOf == ASSUME NEW t, NEW o \in Spends(t) PROVE o[1] \in Inputs(t)
  BY DEF Inputs

\* Transactions of the pool can always be removed with their descendants, unless they
\* are being put back.
LEMMA RemoveKeeps ==
    ASSUME NEW p, NEW C, NEW V, NEW T, PoolOK(p, C, V, T),
           NEW S \in SUBSET (p.mapTx \ V), DeltasBut(p, S)
    PROVE  /\ PoolOK(RemoveWithDescendants(p, S), C, V, T)
           /\ DeltasOK(RemoveWithDescendants(p, S))
           /\ Without(p, Closure(p.children, S), RemoveWithDescendants(p, S))
           /\ S \subseteq Closure(p.children, S) /\ Closure(p.children, S) \subseteq p.mapTx
<1> DEFINE D == Closure(p.children, S)
           q == RemoveWithDescendants(p, S)
<1> HIDE DEF q
<1>1. PICK u \in BOOLEAN : ~u /\ q = RemoveStaged(p, D, u)
  BY Removal DEF q
<1>2. Sound(p) /\ p \in Pools /\ Linked(p) /\ S \in SUBSET p.mapTx /\ V \subseteq p.mapTx
  BY DEF PoolOK, Sound
<1>3. D \in SUBSET p.mapTx /\ S \subseteq D /\ \A x \in D : p.children[x] \subseteq D
  BY <1>2, ClosureInPool
<1>0. Without(p, D, q)
  <2> HIDE DEF D
  <2>1. Downward(p, D)
    BY <1>3 DEF Downward
  <2> QED
    BY ONLY <1>1, <1>2, <1>3, <2>1, u \in BOOLEAN, RemovalSound, Zenon
<1>4. /\ Sound(q) /\ q.mapTx = p.mapTx \ D /\ q.mapDeltas = p.mapDeltas
      /\ \A t \in q.mapTx : q.parents[t] = p.parents[t] \ D /\ q.feeDelta[t] = p.feeDelta[t]
  BY <1>0 DEF Without
<1>5. p.mapTx \in SUBSET Txs /\ \A t, x \in Txs : x \in p.parents[t] <=> t \in p.children[x]
  BY <1>2, PoolFields, LinkFacts
<1>6. D \cap V = {}
  <2>1. \A x \in p.mapTx \ V : p.children[x] \subseteq p.mapTx \ V
    <3> SUFFICES ASSUME NEW x \in p.mapTx \ V, NEW y \in p.children[x]
                 PROVE  y \in p.mapTx /\ y \notin V
      OBVIOUS
    <3>1. y \in p.mapTx /\ y \in Txs /\ x \in Txs
      BY <1>2, <1>5, LinkFacts
    <3>2. x \in p.parents[y] /\ p.parents[y] \subseteq Inputs(y)
      BY <1>2, <1>5, <3>1, LinkFacts
    <3> QED
      BY <3>1, <3>2 DEF PoolOK
  <2>2. p.mapTx \ V \in SUBSET Txs /\ S \subseteq p.mapTx \ V
    BY <1>5
  <2>3. D \subseteq p.mapTx \ V
    BY <2>1, <2>2, ClosureLeast
  <2> QED
    BY <2>3
<1> HIDE DEF D
<1>7. \A t \in q.mapTx : Inputs(t) \cap D = {}
  <2> SUFFICES ASSUME NEW t \in q.mapTx, NEW x \in Inputs(t) \cap D
               PROVE  FALSE
    OBVIOUS
  <2>1. t \in p.mapTx /\ t \notin D /\ x \in p.mapTx /\ x \in Txs /\ t \in Txs /\ x \notin V
    BY <1>3, <1>4, <1>5, <1>6
  <2>2. x \in p.parents[t]
    BY <2>1 DEF PoolOK, LinkedBut
  <2>3. t \in p.children[x]
    BY <1>5, <2>1, <2>2
  <2> QED
    BY <1>3, <2>1, <2>3
<1>8. LinkedBut(q, V)
  <2> SUFFICES ASSUME NEW t \in q.mapTx
               PROVE  q.parents[t] = (Inputs(t) \cap q.mapTx) \ (IF t \in V THEN {} ELSE V)
    BY DEF LinkedBut
  <2>1. p.parents[t] = (Inputs(t) \cap p.mapTx) \ (IF t \in V THEN {} ELSE V)
    BY <1>4 DEF PoolOK, LinkedBut
  <2>2. q.mapTx = p.mapTx \ D /\ q.parents[t] = p.parents[t] \ D
    BY <1>4
  <2> QED
    BY <2>1, <2>2
<1>9. Available(q, C, T)
  <2> SUFFICES ASSUME NEW t \in q.mapTx, NEW o \in Spends(t)
               PROVE  o[1] \in q.mapTx \/ o \in Unspent(C) \/ o[1] \in T
    BY DEF Available
  <2>1. o[1] \in p.mapTx \/ o \in Unspent(C) \/ o[1] \in T
    BY <1>4 DEF PoolOK, Available
  <2>2. o[1] \notin D
    BY <1>7, InputOf
  <2> QED
    BY <1>4, <2>1, <2>2
<1>10. /\ q.mapTx \cap C = {} /\ V \subseteq q.mapTx /\ T \cap q.mapTx = {}
       /\ \A v \in V : Inputs(v) \cap q.mapTx \subseteq V
  BY <1>4, <1>6 DEF PoolOK
<1>11. DeltasOK(q)
  BY <1>3, <1>4 DEF DeltasOK, DeltasBut
<1> QED
  <2>1. PoolOK(q, C, V, T)
    BY <1>4, <1>8, <1>9, <1>10 DEF PoolOK
  <2> QED
    BY <1>0, <1>3, <1>11, <2>1 DEF D, q

-----------------------------------------------------------------------------
(* Loops: the operators that go through a list are recursive functions of  *)
(* the number of its members they have done.                               *)

\* h is the sequence of the results when F[i] is applied for i = 1, ..., m.
Runs(s, F, m, h) == h = [i \in 0..m |-> IF i = 0 THEN s ELSE F[i][h[i - 1]]]

\* A loop of n rounds has a result after every round.
LEMMA LoopRuns ==
    ASSUME NEW n \in Nat, NEW s, NEW F
    PROVE  \E h : Runs(s, F, n, h)
<1> DEFINE Bad == {m \in Nat : ~ \E h : Runs(s, F, m, h)}
<1> SUFFICES ASSUME Bad # {} PROVE FALSE
  OBVIOUS
<1>1. PICK m \in Bad : \A k \in Bad : m <= k
  <2>1. Bad \in SUBSET Nat
    OBVIOUS
  <2> HIDE DEF Bad
  <2> QED
    BY <2>1, LeastNumber
<1>2. m \in Nat /\ ~ \E h : Runs(s, F, m, h)
  OBVIOUS
<1>3. m # 0
  <2> DEFINE h == [i \in 0..0 |-> s]
  <2>1. Runs(s, F, 0, h)
    BY SMT DEF Runs
  <2> QED
    BY <1>2, <2>1
<1>4. m - 1 \in Nat /\ m - 1 \notin Bad
  BY SMT, <1>1, <1>2, <1>3
<1>5. PICK g : Runs(s, F, m - 1, g)
  BY <1>4
<1> DEFINE h == [i \in 0..m |-> IF i = m THEN F[m][g[m - 1]] ELSE g[i]]
<1> HIDE DEF Bad
<1>6. \A i \in 0..(m - 1) : g[i] = IF i = 0 THEN s ELSE F[i][g[i - 1]]
  BY <1>5 DEF Runs
<1>7. \A i \in 0..m : h[i] = IF i = 0 THEN s ELSE F[i][h[i - 1]]
  <2> SUFFICES ASSUME NEW i \in 0..m
               PROVE  h[i] = IF i = 0 THEN s ELSE F[i][h[i - 1]]
    OBVIOUS
  <2>1. CASE i = m
    <3>1. m - 1 \in 0..m /\ m - 1 # m /\ m \in 0..m
      BY SMT, <1>2, <1>3
    <3>2. h[m] = F[m][g[m - 1]] /\ h[m - 1] = g[m - 1]
      BY <3>1
    <3> QED
      BY <1>3, <2>1, <3>2
  <2>2. CASE i # m /\ i = 0
    <3>1. 0 \in 0..(m - 1) /\ 0 \in 0..m /\ 0 # m
      BY SMT, <1>2, <1>3
    <3> QED
      BY <1>6, <2>2, <3>1
  <2>3. CASE i # m /\ i # 0
    <3>1. i \in 0..(m - 1) /\ i - 1 \in 0..m /\ i - 1 # m
      BY SMT, <1>2, <2>3
    <3>2. h[i] = g[i] /\ h[i - 1] = g[i - 1] /\ g[i] = F[i][g[i - 1]]
      BY <1>6, <2>3, <3>1
    <3> QED
      BY <2>3, <3>2
  <2> QED
    BY <2>1, <2>2, <2>3
<1>8. Runs(s, F, m, h)
  <2>1. DOMAIN h = 0..m /\ h = [i \in 0..m |-> h[i]]
    OBVIOUS
  <2> HIDE DEF h
  <2> QED
    BY <1>7, <2>1 DEF Runs
<1> QED
  BY <1>2, <1>8

\* What every step of a loop keeps holds at its end.
LEMMA LoopKeeps ==
    ASSUME NEW n \in Nat, NEW g, NEW G, g[0] \in G[0],
           \A i \in 1..n : g[i - 1] \in G[i - 1] => g[i] \in G[i]
    PROVE  \A i \in 0..n : g[i] \in G[i]
<1> DEFINE Bad == {m \in Nat : m <= n /\ g[m] \notin G[m]}
<1> SUFFICES ASSUME Bad # {} PROVE FALSE
  BY SMT
<1>1. PICK m \in Bad : \A k \in Bad : m <= k
  <2>1. Bad \in SUBSET Nat
    OBVIOUS
  <2> HIDE DEF Bad
  <2> QED
    BY <2>1, LeastNumber
<1>2. m \in Nat /\ m <= n /\ g[m] \notin G[m]
  OBVIOUS
<1>3. m # 0
  BY <1>2
<1>4. m - 1 \in Nat /\ m - 1 \notin Bad /\ m \in 1..n /\ m - 1 <= n
  BY SMT, <1>1, <1>2, <1>3
<1> QED
  BY <1>2, <1>4

\* The two together: each member of G[i - 1] is led by F[i] to a member of G[i].
LEMMA LoopEnds ==
    ASSUME NEW n \in Nat, NEW s, NEW F, NEW G, s \in G[0],
           \A i \in 1..n : \A q \in G[i - 1] : F[i][q] \in G[i]
    PROVE  \E h : Runs(s, F, n, h) /\ \A i \in 0..n : h[i] \in G[i]
<1>1. PICK h : Runs(s, F, n, h)
  BY LoopRuns
<1>2. \A i \in 0..n : h[i] = IF i = 0 THEN s ELSE F[i][h[i - 1]]
  BY <1>1 DEF Runs
<1>3. 0 \in 0..n /\ \A i \in 1..n : i # 0 /\ i \in 0..n
  BY SMT
<1>4. h[0] \in G[0]
  BY <1>2, <1>3
<1>5. \A i \in 1..n : h[i - 1] \in G[i - 1] => h[i] \in G[i]
  BY <1>2, <1>3
<1>6. \A i \in 0..n : h[i] \in G[i]
  BY <1>4, <1>5, LoopKeeps
<1> QED
  BY <1>1, <1>6

\* The outpoints a transaction spends, by their types.
LEMMA SpendsFacts ==
    ASSUME NEW t \in Txs
    PROVE  /\ Len(Vin[t]) \in Nat /\ DOMAIN Vin[t] = 1..Len(Vin[t])
           /\ Spends(t) = {Vin[t][i] : i \in 1..Len(Vin[t])}
           /\ Spends(t) \subseteq Outpoints
           /\ \A o \in Spends(t) : o[1] \in Txs \cup {Base} /\ o[1] \in Inputs(t)
           /\ Inputs(t) \subseteq Txs \cup {Base}
<1>1. Vin[t] \in Seq((Txs \cup {Base}) \X Nat)
  BY MempoolAssumption
<1>2. Len(Vin[t]) \in Nat /\ DOMAIN Vin[t] = 1..Len(Vin[t])
      /\ \A i \in 1..Len(Vin[t]) : Vin[t][i] \in (Txs \cup {Base}) \X Nat
  BY SMT, <1>1
<1>3. Spends(t) = {Vin[t][i] : i \in 1..Len(Vin[t])}
  BY <1>2 DEF Spends, Range
<1>4. Spends(t) \subseteq Outpoints
  BY DEF Outpoints
<1>5. \A o \in Spends(t) : o[1] \in Txs \cup {Base} /\ o[1] \in Inputs(t)
  BY <1>2, <1>3 DEF Inputs
<1>6. Inputs(t) \subseteq Txs \cup {Base}
  BY <1>5 DEF Inputs
<1> QED
  BY <1>2, <1>3, <1>4, <1>5, <1>6

NoSpender(p, o) == \A x \in p.mapTx : o \notin Spends(x)

\* removeConflicts, for one input: afterwards nothing in the pool spends it.
LEMMA ConflictGoes ==
    ASSUME NEW p, NEW C, NEW T, PoolOK(p, C, {}, T), DeltasOK(p), NEW t \in T, NEW o \in Outpoints
    PROVE  /\ PoolOK(removeConflict(p, t, o), C, {}, T) /\ DeltasOK(removeConflict(p, t, o))
           /\ removeConflict(p, t, o).mapTx \subseteq p.mapTx
           /\ NoSpender(removeConflict(p, t, o), o)
<1> DEFINE c == p.mapNextTx[o]
           q == WithDelta(p, c, 0)
           r == RemoveWithDescendants(q, {c})
<1>1. /\ p \in Pools /\ NextTxExact(p) /\ c \in Txs \cup {None} /\ p.mapTx \in SUBSET Txs
      /\ t \notin p.mapTx
  BY PoolFields DEF PoolOK, Sound
<1>2. \A x \in Txs : c = x <=> x \in p.mapTx /\ o \in Spends(x)
  BY <1>1 DEF NextTxExact
<1>3. CASE c \in {None, t}
  <2>1. removeConflict(p, t, o) = p
    BY <1>3 DEF removeConflict
  <2>2. NoSpender(p, o)
    BY <1>1, <1>2, <1>3, MempoolAssumption DEF NoSpender
  <2> QED
    BY <2>1, <2>2
<1>4. CASE c \notin {None, t}
  <2>1. c \in Txs /\ c \in p.mapTx
    BY <1>1, <1>2, <1>4
  <2>2. PoolOK(q, C, {}, T) /\ DeltaIs(p, c, 0, q)
    <3> HIDE DEF c
    <3> QED
      BY SMT, <2>1, OnlyDeltaOK
  <2>3. /\ q.mapTx = p.mapTx /\ q.feeDelta = p.feeDelta
        /\ q.mapDeltas = [p.mapDeltas EXCEPT ![c] = 0]
    BY <2>2 DEF DeltaIs
  <2>4. removeConflict(p, t, o) = r
    <3>1. removeConflict(p, t, o) = removeRecursive(q, c)
      BY <1>4 DEF removeConflict, ClearPrioritisation, WithDelta
    <3>2. c \in q.mapTx
      BY <2>1, <2>3
    <3> QED
      BY <3>1, <3>2 DEF removeRecursive
  <2>5. DeltasBut(q, {c})
    <3>1. p.mapDeltas \in [Txs -> Int]
      BY <1>1, PoolFields
    <3> HIDE DEF q, c
    <3> QED
      BY <1>1, <2>3, <3>1 DEF DeltasOK, DeltasBut
  <2>6. {c} \in SUBSET (q.mapTx \ {})
    BY <2>1, <2>3
  <2>7. /\ PoolOK(r, C, {}, T) /\ DeltasOK(r)
        /\ Without(q, Closure(q.children, {c}), r) /\ {c} \subseteq Closure(q.children, {c})
    <3> HIDE DEF q, c
    <3> QED
      BY <2>2, <2>5, <2>6, RemoveKeeps
  <2>8. r.mapTx \subseteq p.mapTx /\ c \notin r.mapTx
    <3>1. r.mapTx = q.mapTx \ Closure(q.children, {c})
      BY <2>7 DEF Without
    <3> HIDE DEF q, c, r
    <3> QED
      BY <2>3, <2>7, <3>1
  <2>9. NoSpender(r, o)
    BY <1>1, <1>2, <2>8 DEF NoSpender
  <2> QED
    BY <2>4, <2>7, <2>8, <2>9
<1> QED
  BY <1>3, <1>4

\* removeConflicts: afterwards nothing in the pool spends what t spends.
LEMMA ConflictsGo ==
    ASSUME NEW p, NEW C, NEW t \in Txs, PoolOK(p, C, {}, {t}), DeltasOK(p)
    PROVE  /\ PoolOK(removeConflicts(p, t), C, {}, {t}) /\ DeltasOK(removeConflicts(p, t))
           /\ \A o \in Spends(t) : NoSpender(removeConflicts(p, t), o)
<1> DEFINE n == Len(Vin[t])
           OK(i, q) == /\ PoolOK(q, C, {}, {t}) /\ DeltasOK(q)
                       /\ \A j \in 1..i : NoSpender(q, Vin[t][j])
           G == [i \in 0..n |-> {q \in Pools : OK(i, q)}]
           F == [i \in 1..n |-> [q \in Pools |-> removeConflict(q, t, Vin[t][i])]]
           g == CHOOSE f : f = [i \in 0..n |-> IF i = 0 THEN p
                                               ELSE removeConflict(f[i - 1], t, Vin[t][i])]
<1>1. /\ n \in Nat /\ Spends(t) = {Vin[t][i] : i \in 1..n} /\ \A i \in 1..n : Vin[t][i] \in Outpoints
  BY SpendsFacts
<1>2. \A q, i : OK(i, q) => q \in Pools
  BY DEF PoolOK, Sound
<1> HIDE DEF n
<1>3. p \in G[0]
  <2>1. OK(0, p)
    BY SMT
  <2>2. 0 \in 0..n
    BY SMT, <1>1
  <2> HIDE DEF OK
  <2> QED
    BY <1>2, <2>1, <2>2
<1>4. \A i \in 1..n : \A q \in G[i - 1] : removeConflict(q, t, Vin[t][i]) \in G[i]
  <2> SUFFICES ASSUME NEW i \in 1..n, NEW q \in G[i - 1]
               PROVE  removeConflict(q, t, Vin[t][i]) \in G[i]
    OBVIOUS
  <2> DEFINE r == removeConflict(q, t, Vin[t][i])
  <2>0. i \in 0..n /\ i - 1 \in 0..n /\ \A j \in 1..i : j \in 1..(i - 1) \/ j = i
    BY SMT, <1>1
  <2>1. OK(i - 1, q)
    <3> HIDE DEF OK
    <3> QED
      BY <2>0
  <2>2. PoolOK(q, C, {}, {t}) /\ DeltasOK(q) /\ t \in {t} /\ Vin[t][i] \in Outpoints
    BY <1>1, <2>1
  <2>3. PoolOK(r, C, {}, {t}) /\ DeltasOK(r) /\ r.mapTx \subseteq q.mapTx /\ NoSpender(r, Vin[t][i])
    BY <2>2, ConflictGoes
  <2>4. \A j \in 1..(i - 1) : NoSpender(r, Vin[t][j])
    BY <2>1, <2>3 DEF NoSpender
  <2>5. OK(i, r)
    BY <2>0, <2>3, <2>4
  <2> HIDE DEF OK, r
  <2>6. r \in G[i]
    BY <1>2, <2>0, <2>5
  <2> QED
    BY <2>6 DEF r
<1>5. \A i \in 0..n : G[i] \subseteq Pools
  OBVIOUS
<1> HIDE DEF G
<1>6. \A i \in 1..n : \A q \in Pools : F[i][q] = removeConflict(q, t, Vin[t][i])
  OBVIOUS
<1> HIDE DEF F
<1>7. 0 \in 0..n /\ \A i \in 1..n : i # 0 /\ i \in 0..n /\ i - 1 \in 0..n
  BY SMT, <1>1
<1>8. \A i \in 1..n : \A q \in G[i - 1] : F[i][q] \in G[i]
  BY <1>4, <1>5, <1>6, <1>7
<1>9. PICK h : Runs(p, F, n, h) /\ \A i \in 0..n : h[i] \in G[i]
  BY <1>1, <1>3, <1>8, LoopEnds
<1>10. \A i \in 0..n : h[i] = IF i = 0 THEN p ELSE F[i][h[i - 1]]
  BY <1>9 DEF Runs
<1>11. h = [i \in 0..n |-> IF i = 0 THEN p ELSE removeConflict(h[i - 1], t, Vin[t][i])]
  <2>1. \A i \in 0..n : h[i] = IF i = 0 THEN p ELSE removeConflict(h[i - 1], t, Vin[t][i])
    <3>1. \A i \in 0..n : i # 0 => i \in 1..n /\ i - 1 \in 0..n
      BY SMT, <1>1
    <3> QED
      BY <1>5, <1>6, <1>9, <1>10, <3>1
  <2>2. h = [i \in 0..n |-> h[i]]
    BY <1>9 DEF Runs
  <2> QED
    BY <2>1, <2>2
<1>12. g = [i \in 0..n |-> IF i = 0 THEN p ELSE removeConflict(g[i - 1], t, Vin[t][i])]
  BY <1>11
<1>13. removeConflicts(p, t) = g[n]
  BY DEF removeConflicts, n
<1> HIDE DEF g
<1>14. \A i \in 0..n : g[i] = IF i = 0 THEN p ELSE removeConflict(g[i - 1], t, Vin[t][i])
  BY <1>12
<1>15. \A i \in 0..n : g[i] \in G[i]
  <2>1. g[0] \in G[0]
    BY <1>3, <1>7, <1>14
  <2>2. \A i \in 1..n : g[i - 1] \in G[i - 1] => g[i] \in G[i]
    BY <1>4, <1>7, <1>14
  <2> QED
    BY <1>1, <2>1, <2>2, LoopKeeps
<1>16. OK(n, g[n])
  <2>1. n \in 0..n /\ g[n] \in G[n]
    BY SMT, <1>1, <1>15
  <2> HIDE DEF OK
  <2> QED
    BY <2>1 DEF G
<1> QED
  BY <1>1, <1>13, <1>16

\* The transactions of C spend older coins and from each other.
Closed(C) == C \in SUBSET Txs /\ \A c \in C : Inputs(c) \subseteq C \cup {Base}

\* removeForBlock, for one transaction t: it goes, its descendants stay and spend coins
\* that are there now, and what spent the same coins is gone.
LEMMA ConfirmedGoes ==
    ASSUME NEW p, NEW C, Closed(C), PoolOK(p, C, {}, {}), DeltasOK(p),
           NEW t \in Txs, t \notin C, Spends(t) \subseteq Unspent(C)
    PROVE  /\ PoolOK(removeConfirmed(p, t), C \cup {t}, {}, {})
           /\ DeltasOK(removeConfirmed(p, t)) /\ Closed(C \cup {t})
<1> DEFINE q == IF t \in p.mapTx THEN RemoveStaged(p, {t}, TRUE) ELSE p
           r == removeConflicts(q, t)
<1>1. Inputs(t) \subseteq C \cup {Base}
  BY DEF Inputs, Unspent
<1>2. /\ Sound(p) /\ p \in Pools /\ p.mapTx \in SUBSET Txs /\ p.mapTx \cap C = {}
      /\ Base \notin Txs
      /\ \A x \in p.mapTx : p.parents[x] = Inputs(x) \cap p.mapTx
      /\ \A x \in p.mapTx : \A o \in Spends(x) : o[1] \in p.mapTx \/ o \in Unspent(C)
  BY SMT, PoolFields, MempoolAssumption DEF PoolOK, Sound, LinkedBut, Available
<1>3. PoolOK(q, C, {}, {t}) /\ DeltasOK(q)
  <2>1. CASE t \in p.mapTx
    <3>1. PICK u \in BOOLEAN : u /\ q = RemoveStaged(p, {t}, u)
      BY <2>1
    <3> HIDE DEF q
    <3>2. p.parents[t] = {}
      BY <1>1, <1>2, <2>1
    <3>3. Without(p, {t}, q)
      BY ONLY <1>2, <2>1, <3>1, <3>2, u \in BOOLEAN, TopRemovalSound, Zenon
    <3>4. /\ Sound(q) /\ q.mapTx = p.mapTx \ {t} /\ q.mapDeltas = p.mapDeltas
          /\ \A x \in q.mapTx : q.parents[x] = p.parents[x] \ {t} /\ q.feeDelta[x] = p.feeDelta[x]
      BY <3>3 DEF Without
    <3>5. DeltasOK(q)
      BY <3>4 DEF DeltasOK
    <3>6. LinkedBut(q, {})
      BY <1>2, <3>4 DEF LinkedBut
    <3>7. Available(q, C, {t})
      BY <1>2, <3>4 DEF Available
    <3> QED
      BY <1>2, <3>4, <3>5, <3>6, <3>7 DEF PoolOK
  <2>2. CASE t \notin p.mapTx
    <3>1. q = p
      BY <2>2
    <3> HIDE DEF q
    <3>2. Available(q, C, {t})
      BY <1>2, <3>1 DEF Available
    <3> QED
      BY <1>2, <2>2, <3>1, <3>2 DEF PoolOK
  <2> QED
    BY <2>1, <2>2
<1> HIDE DEF q
<1>4. PoolOK(r, C, {}, {t}) /\ DeltasOK(r) /\ \A o \in Spends(t) : NoSpender(r, o)
  BY <1>3, ConflictsGo
<1>5. removeConfirmed(p, t) = WithDelta(r, t, 0)
  BY DEF removeConfirmed, ClearPrioritisation, WithDelta, q
<1> HIDE DEF r
<1>6. Closed(C \cup {t})
  BY <1>1 DEF Closed
<1>7. /\ Sound(r) /\ r \in Pools /\ r.mapTx \in SUBSET Txs /\ r.mapTx \cap C = {} /\ t \notin r.mapTx
      /\ LinkedBut(r, {})
      /\ \A x \in r.mapTx : \A o \in Spends(x) : o[1] \in r.mapTx \/ o \in Unspent(C) \/ o[1] = t
  BY <1>4, PoolFields DEF PoolOK, Sound, Available
<1>8. Available(r, C \cup {t}, {})
  <2> SUFFICES ASSUME NEW x \in r.mapTx, NEW o \in Spends(x), o[1] \notin r.mapTx
               PROVE  o \in Unspent(C \cup {t})
    BY DEF Available
  <2>1. o \notin Spends(t) /\ o \in Outpoints
    BY <1>4, <1>7, SpendsFacts DEF NoSpender
  <2>2. CASE o \in Unspent(C)
    BY <2>1, <2>2 DEF Unspent
  <2>3. CASE o[1] = t
    <3>1. \A c \in C : o \notin Spends(c)
      <4> SUFFICES ASSUME NEW c \in C, o \in Spends(c) PROVE FALSE
        OBVIOUS
      <4>1. t \in Inputs(c)
        BY <2>3, InputOf
      <4> QED
        BY <1>2, <4>1 DEF Closed
    <3> QED
      BY <2>1, <2>3, <3>1 DEF Unspent
  <2> QED
    BY <1>7, <2>2, <2>3
<1>9. PoolOK(r, C \cup {t}, {}, {})
  BY <1>7, <1>8 DEF PoolOK
<1>10. PoolOK(WithDelta(r, t, 0), C \cup {t}, {}, {}) /\ DeltaIs(r, t, 0, WithDelta(r, t, 0))
  BY SMT, <1>9, OnlyDeltaOK
<1> DEFINE w == WithDelta(r, t, 0)
<1> HIDE DEF w
<1>11. w.mapTx = r.mapTx /\ w.feeDelta = r.feeDelta /\ w.mapDeltas = [r.mapDeltas EXCEPT ![t] = 0]
  BY <1>10 DEF DeltaIs, w
<1>12. DeltasOK(w)
  <2>1. r.mapDeltas \in [Txs -> Int]
    BY <1>7, PoolFields
  <2> QED
    BY <1>4, <1>7, <1>11, <2>1 DEF DeltasOK
<1> QED
  BY <1>5, <1>6, <1>10, <1>12 DEF w

\* What a block finds confirmed when its i-th transaction is looked at.
Before(C, vtx, i) == C \cup {vtx[j] : j \in 1..(i - 1)}

ValidOn(C, vtx) ==
    /\ IsInjective(vtx)
    /\ \A i \in DOMAIN vtx : vtx[i] \notin Before(C, vtx, i) /\ Spends(vtx[i]) \subseteq Unspent(Before(C, vtx, i))

\* removeForBlock: the pool is right for the chain with the block.
LEMMA BlockGoes ==
    ASSUME NEW p, NEW C, Closed(C), PoolOK(p, C, {}, {}), DeltasOK(p),
           NEW vtx \in Seq(Txs), ValidOn(C, vtx)
    PROVE  /\ PoolOK(removeForBlock(p, vtx), C \cup Range(vtx), {}, {})
           /\ DeltasOK(removeForBlock(p, vtx)) /\ Closed(C \cup Range(vtx))
<1> DEFINE n == Len(vtx)
           B(i) == Before(C, vtx, i + 1)
           OK(i, q) == PoolOK(q, B(i), {}, {}) /\ DeltasOK(q) /\ Closed(B(i))
           G == [i \in 0..n |-> {q \in Pools : OK(i, q)}]
           F == [i \in 1..n |-> [q \in Pools |-> removeConfirmed(q, vtx[i])]]
           g == CHOOSE f : f = [i \in 0..n |-> IF i = 0 THEN p ELSE removeConfirmed(f[i - 1], vtx[i])]
<1>1. /\ n \in Nat /\ DOMAIN vtx = 1..n /\ \A i \in 1..n : vtx[i] \in Txs
  BY SMT
<1> HIDE DEF n
<1>2. B(0) = C /\ B(n) = C \cup Range(vtx) /\ \A i \in 1..n : B(i) = B(i - 1) \cup {vtx[i]}
  <2>1. 1..((0 + 1) - 1) = {}
    BY SMT
  <2>2. 1..((n + 1) - 1) = 1..n
    BY SMT, <1>1
  <2>3. \A i \in 1..n : 1..((i + 1) - 1) = (1..(((i - 1) + 1) - 1)) \cup {i}
    BY SMT, <1>1
  <2>4. B(0) = C
    BY <2>1 DEF Before
  <2>5. B(n) = C \cup Range(vtx)
    BY <1>1, <2>2 DEF Before, Range
  <2>6. \A i \in 1..n : B(i) = B(i - 1) \cup {vtx[i]}
    <3> SUFFICES ASSUME NEW i \in 1..n, NEW y
                 PROVE  y \in B(i) <=> y \in B(i - 1) \cup {vtx[i]}
      OBVIOUS
    <3> DEFINE J == 1..(((i - 1) + 1) - 1)
    <3>1. y \in B(i) <=> y \in C \/ \E j \in J \cup {i} : y = vtx[j]
      BY <2>3 DEF Before
    <3>2. y \in B(i - 1) <=> y \in C \/ \E j \in J : y = vtx[j]
      BY DEF Before
    <3> HIDE DEF J, B
    <3> QED
      BY <3>1, <3>2
  <2> QED
    BY <2>4, <2>5, <2>6
<1>3. \A i \in 1..n : vtx[i] \notin B(i - 1) /\ Spends(vtx[i]) \subseteq Unspent(B(i - 1))
  <2>1. \A i \in 1..n : (i - 1) + 1 = i
    BY SMT, <1>1
  <2>2. \A i \in 1..n : vtx[i] \notin Before(C, vtx, i) /\ Spends(vtx[i]) \subseteq Unspent(Before(C, vtx, i))
    BY <1>1 DEF ValidOn
  <2> QED
    BY <2>1, <2>2
<1> HIDE DEF B
<1>4. \A q, i : OK(i, q) => q \in Pools
  BY DEF PoolOK, Sound
<1>5. p \in G[0]
  <2>1. OK(0, p)
    BY <1>2
  <2>2. 0 \in 0..n
    BY SMT, <1>1
  <2> HIDE DEF OK
  <2> QED
    BY <1>4, <2>1, <2>2
<1>6. \A i \in 1..n : \A q \in G[i - 1] : removeConfirmed(q, vtx[i]) \in G[i]
  <2> SUFFICES ASSUME NEW i \in 1..n, NEW q \in G[i - 1]
               PROVE  removeConfirmed(q, vtx[i]) \in G[i]
    OBVIOUS
  <2> DEFINE r == removeConfirmed(q, vtx[i])
  <2>1. i \in 0..n /\ i - 1 \in 0..n
    BY SMT, <1>1
  <2>2. OK(i - 1, q)
    <3> HIDE DEF OK
    <3> QED
      BY <2>1
  <2>3. OK(i, r)
    <3>1. /\ PoolOK(q, B(i - 1), {}, {}) /\ DeltasOK(q) /\ Closed(B(i - 1))
          /\ vtx[i] \in Txs /\ vtx[i] \notin B(i - 1) /\ Spends(vtx[i]) \subseteq Unspent(B(i - 1))
          /\ B(i) = B(i - 1) \cup {vtx[i]}
      BY <1>1, <1>2, <1>3, <2>2
    <3>2. PoolOK(r, B(i - 1) \cup {vtx[i]}, {}, {}) /\ DeltasOK(r) /\ Closed(B(i - 1) \cup {vtx[i]})
      BY ONLY <3>1, ConfirmedGoes, Zenon
    <3> QED
      BY <3>1, <3>2
  <2> HIDE DEF OK, r
  <2>4. r \in G[i]
    BY <1>4, <2>1, <2>3
  <2> QED
    BY <2>4 DEF r
<1>7. \A i \in 0..n : G[i] \subseteq Pools
  OBVIOUS
<1> HIDE DEF G
<1>8. \A i \in 1..n : \A q \in Pools : F[i][q] = removeConfirmed(q, vtx[i])
  OBVIOUS
<1> HIDE DEF F
<1>9. 0 \in 0..n /\ \A i \in 1..n : i # 0 /\ i \in 0..n /\ i - 1 \in 0..n
  BY SMT, <1>1
<1>10. PICK h : Runs(p, F, n, h) /\ \A i \in 0..n : h[i] \in G[i]
  <2>1. \A i \in 1..n : \A q \in G[i - 1] : F[i][q] \in G[i]
    BY <1>6, <1>7, <1>8, <1>9
  <2> QED
    BY <1>1, <1>5, <2>1, LoopEnds
<1>11. h = [i \in 0..n |-> IF i = 0 THEN p ELSE removeConfirmed(h[i - 1], vtx[i])]
  <2>1. \A i \in 0..n : h[i] = IF i = 0 THEN p ELSE F[i][h[i - 1]]
    BY <1>10 DEF Runs
  <2>2. \A i \in 0..n : i # 0 => i \in 1..n /\ i - 1 \in 0..n
    BY SMT, <1>1
  <2>3. \A i \in 0..n : h[i] = IF i = 0 THEN p ELSE removeConfirmed(h[i - 1], vtx[i])
    BY <1>7, <1>8, <1>10, <2>1, <2>2
  <2>4. h = [i \in 0..n |-> h[i]]
    BY <1>10 DEF Runs
  <2> QED
    BY <2>3, <2>4
<1>12. g = [i \in 0..n |-> IF i = 0 THEN p ELSE removeConfirmed(g[i - 1], vtx[i])]
  BY <1>11
<1>13. removeForBlock(p, vtx) = g[n]
  BY DEF removeForBlock, n
<1> HIDE DEF g
<1>14. \A i \in 0..n : g[i] = IF i = 0 THEN p ELSE removeConfirmed(g[i - 1], vtx[i])
  BY <1>12
<1>15. \A i \in 0..n : g[i] \in G[i]
  <2>1. g[0] \in G[0]
    BY <1>5, <1>9, <1>14
  <2>2. \A i \in 1..n : g[i - 1] \in G[i - 1] => g[i] \in G[i]
    BY <1>6, <1>9, <1>14
  <2> QED
    BY <1>1, <2>1, <2>2, LoopKeeps
<1>16. OK(n, g[n])
  <2>1. n \in 0..n /\ g[n] \in G[n]
    BY SMT, <1>1, <1>15
  <2> HIDE DEF OK
  <2> QED
    BY <2>1 DEF G
<1> QED
  BY <1>2, <1>13, <1>16

\* The pools that are right for the confirmed transactions C outside a reorganization.
Fine(C) == {q \in Pools : PoolOK(q, C, {}, {}) /\ DeltasOK(q)}

\* A removal leaves a pool right.
LEMMA RemoveFine ==
    ASSUME NEW C, NEW q \in Fine(C), NEW S \in SUBSET q.mapTx
    PROVE  RemoveWithDescendants(q, S) \in Fine(C)
<1>1. PoolOK(q, C, {}, {}) /\ DeltasOK(q)
  BY DEF Fine
<1>2. DeltasBut(q, S) /\ S \in SUBSET (q.mapTx \ {})
  BY <1>1 DEF DeltasOK, DeltasBut
<1> DEFINE r == RemoveWithDescendants(q, S)
<1> HIDE DEF r
<1>3. PoolOK(r, C, {}, {}) /\ DeltasOK(r)
  BY <1>1, <1>2, RemoveKeeps DEF r
<1>4. r \in Pools
  BY <1>3 DEF PoolOK, Sound
<1> QED
  BY <1>3, <1>4 DEF r, Fine

\* TrimToSize and Expire, the rounds and the whole, and removeForReorg only remove
\* transactions with their descendants.
LEMMA TrimRoundFine ==
    ASSUME NEW C, NEW q \in Fine(C)
    PROVE  TrimRound(q) \subseteq Fine(C)
<1>1. \A t \in q.mapTx : RemoveWithDescendants(q, {t}) \in Fine(C)
  <2> SUFFICES ASSUME NEW t \in q.mapTx
               PROVE  RemoveWithDescendants(q, {t}) \in Fine(C)
    OBVIOUS
  <2>1. {t} \in SUBSET q.mapTx
    OBVIOUS
  <2> QED
    BY <2>1, RemoveFine
<1> QED
  BY <1>1 DEF TrimRound

\* TrimToSize leaves a pool right, whichever entries it picks.
LEMMA TrimFine ==
    ASSUME NEW C, NEW p \in Fine(C)
    PROVE  TrimToSize(p) \subseteq Fine(C)
<1> DEFINE n == Cardinality(Txs)
           Round(S) == UNION {TrimRound(q) : q \in S}
           G == [i \in 0..n |-> SUBSET Fine(C)]
           F == [i \in 1..n |-> [S \in SUBSET Fine(C) |-> Round(S)]]
           g == CHOOSE f : f = [i \in 0..n |-> IF i = 0 THEN {p} ELSE UNION {TrimRound(q) : q \in f[i - 1]}]
<1>1. n \in Nat
  BY MempoolAssumption, FS_CardinalityType
<1>2. \A S \in SUBSET Fine(C) : Round(S) \in SUBSET Fine(C)
  BY TrimRoundFine
<1> HIDE DEF n
<1>3. \A i \in 0..n : G[i] = SUBSET Fine(C)
  OBVIOUS
<1>4. \A i \in 1..n : \A S \in SUBSET Fine(C) : F[i][S] = Round(S)
  OBVIOUS
<1> HIDE DEF F, G
<1>5. 0 \in 0..n /\ n \in 0..n /\ \A i \in 1..n : i # 0 /\ i \in 0..n /\ i - 1 \in 0..n
  BY SMT, <1>1
<1>6. {p} \in G[0]
  BY <1>3, <1>5
<1> HIDE DEF Round
<1>7. PICK h : Runs({p}, F, n, h) /\ \A i \in 0..n : h[i] \in G[i]
  <2>1. \A i \in 1..n : \A S \in G[i - 1] : F[i][S] \in G[i]
    BY SMT, <1>2, <1>3, <1>4, <1>5
  <2> QED
    BY <1>1, <1>6, <2>1, LoopEnds
<1>8. h = [i \in 0..n |-> IF i = 0 THEN {p} ELSE Round(h[i - 1])]
  <2>1. \A i \in 0..n : h[i] = IF i = 0 THEN {p} ELSE F[i][h[i - 1]]
    BY <1>7 DEF Runs
  <2>2. \A i \in 0..n : i # 0 => i \in 1..n /\ i - 1 \in 0..n
    BY SMT, <1>1
  <2>3. \A i \in 0..n : h[i] = IF i = 0 THEN {p} ELSE Round(h[i - 1])
    <3> SUFFICES ASSUME NEW i \in 0..n, i # 0
                 PROVE  h[i] = Round(h[i - 1])
      BY <2>1
    <3>1. i \in 1..n /\ h[i - 1] \in SUBSET Fine(C)
      BY <1>3, <1>7, <2>2
    <3> QED
      BY <1>4, <2>1, <3>1
  <2>4. h = [i \in 0..n |-> h[i]]
    BY <1>7 DEF Runs
  <2> QED
    BY <2>3, <2>4
<1>9. g = [i \in 0..n |-> IF i = 0 THEN {p} ELSE Round(g[i - 1])]
  BY <1>8 DEF Round
<1>10. TrimToSize(p) = g[n]
  BY DEF TrimToSize, n
<1> HIDE DEF g
<1>11. \A i \in 0..n : g[i] = IF i = 0 THEN {p} ELSE Round(g[i - 1])
  BY <1>9
<1>12. \A i \in 0..n : g[i] \in G[i]
  <2>1. g[0] \in G[0]
    BY <1>5, <1>6, <1>11
  <2>2. \A i \in 1..n : g[i - 1] \in G[i - 1] => g[i] \in G[i]
    BY SMT, <1>2, <1>3, <1>5, <1>11
  <2> QED
    BY <1>1, <2>1, <2>2, LoopKeeps
<1> QED
  BY <1>3, <1>5, <1>10, <1>12

\* So does LimitMempoolSize, whatever expires.
LEMMA LimitFine ==
    ASSUME NEW C, NEW p \in Fine(C)
    PROVE  LimitMempoolSize(p) \subseteq Fine(C)
<1>1. \A S \in SUBSET p.mapTx : TrimToSize(RemoveWithDescendants(p, S)) \subseteq Fine(C)
  BY RemoveFine, TrimFine
<1> QED
  BY <1>1 DEF LimitMempoolSize

\* So does removeForReorg, whatever it finds premature.
LEMMA ReorgFine ==
    ASSUME NEW C, NEW p \in Fine(C)
    PROVE  removeForReorg(p) \subseteq Fine(C)
  BY RemoveFine DEF removeForReorg

-----------------------------------------------------------------------------
(* Addition                                                                *)

\* A are the members of M from which R leads to P.
LeadTo(R, A, P, M) == \A x \in M : x \in A <=> Closure(R, {x}) \cap P # {}

Inside(R, M) == \A x \in M : Closure(R, {x}) \subseteq M

Raised(f, g, S, d, M) == \A x \in M : g[x] = IF x \in S THEN f[x] + d ELSE f[x]

\* The totals when the leaf t is added.
LEMMA LeafTotals ==
    ASSUME NEW R \in Relations, NEW Q \in Relations, NEW P \in SUBSET Txs, NEW t \in Txs,
           Leafed(R, Q, P, t), NEW M \in SUBSET Txs, t \notin M, Inside(R, M),
           NEW A, LeadTo(R, A, P, M),
           NEW v \in [Txs -> Int], NEW w \in [Txs -> Int], SameOn(v, w, M),
           NEW f, NEW g, Exact(R, v, f, M), f[t] = 0, Raised(f, g, A \cup {t}, w[t], M \cup {t})
    PROVE  Exact(Q, w, g, M \cup {t})
<1>1. \A x \in Txs : Closure(Q, {x}) = Closure(R, {x}) \cup {y \in {t} : Closure(R, {x}) \cap P # {}}
  <2>1. \A x \in Txs : LeafReached(R, Q, P, t, x)
    BY ClosureLeaf
  <2> QED
    BY <2>1 DEF LeafReached
<1>2. ASSUME NEW x \in M
      PROVE  g[x] = SumFunctionOnSet(w, Closure(Q, {x}))
  <2> DEFINE K == Closure(R, {x})
  <2>1. x \in Txs /\ K \in SUBSET Txs /\ K \subseteq M /\ t \notin K
    BY DEF Inside
  <2>2. f[x] = SumFunctionOnSet(v, K)
    BY DEF Exact
  <2>3. Closure(Q, {x}) = K \cup {y \in {t} : K \cap P # {}}
    BY <1>1, <2>1
  <2>4. x \in A <=> K \cap P # {}
    BY DEF LeadTo
  <2>5. g[x] = IF x \in A THEN f[x] + w[t] ELSE f[x]
    BY <2>1 DEF Raised
  <2> HIDE DEF K
  <2>6. SumFunctionOnSet(w, K) = SumFunctionOnSet(v, K)
    BY <2>1, SumSame DEF SameOn
  <2>7. CASE x \in A
    <3>1. Closure(Q, {x}) = K \cup {t}
      BY <2>3, <2>4, <2>7
    <3>2. SumFunctionOnSet(w, K \cup {t}) = SumFunctionOnSet(w, K) + w[t]
      BY <2>1, SumPlus
    <3> QED
      BY <2>2, <2>5, <2>6, <2>7, <3>1, <3>2
  <2>8. CASE x \notin A
    <3>1. Closure(Q, {x}) = K
      BY <2>3, <2>4, <2>8
    <3> QED
      BY <2>2, <2>5, <2>6, <2>8, <3>1
  <2> QED
    BY <2>7, <2>8
<1>3. g[t] = SumFunctionOnSet(w, Closure(Q, {t}))
  <2>1. Closure(R, {t}) = {t}
    <3>1. Closure(R, {t}) = {t} \cup Closure(R, {})
      BY ClosureStep DEF Leafed
    <3> QED
      BY <3>1, ClosureOfEmpty
  <2>2. Closure(Q, {t}) = {} \cup {t}
    BY <1>1, <2>1 DEF Leafed
  <2>3. SumFunctionOnSet(w, {} \cup {t}) = SumFunctionOnSet(w, {}) + w[t]
    BY SumPlus
  <2>4. SumFunctionOnSet(w, {}) = 0
    BY FS_EmptySet, SumStep
  <2>5. g[t] = f[t] + w[t]
    BY DEF Raised
  <2> QED
    BY <2>2, <2>3, <2>4, <2>5
<1> QED
  BY <1>2, <1>3 DEF Exact

\* The fields of addUnchecked, with the counts as sums.
AddedIs(p, t, A, q) ==
    /\ q \in Pools
    /\ q.mapTx = p.mapTx \cup {t} /\ q.mapDeltas = p.mapDeltas
    /\ q.mapNextTx = [o \in Outpoints |->
                        IF o \in Spends(t) /\ p.mapNextTx[o] = None THEN t ELSE p.mapNextTx[o]]
    /\ q.feeDelta = [p.feeDelta EXCEPT ![t] = p.mapDeltas[t]]
    /\ q.parents = [p.parents EXCEPT ![t] = Inputs(t) \cap p.mapTx]
    /\ q.children = [x \in Txs |-> IF x \in Inputs(t) \cap p.mapTx THEN p.children[x] \cup {t}
                                   ELSE p.children[x]]
    /\ q.nCountWithDescendants = Plus(p.nCountWithDescendants, A \cup {t}, 1)
    /\ q.nModFeesWithDescendants =
         Plus(p.nModFeesWithDescendants, A \cup {t}, Fee[t] + p.mapDeltas[t])
    /\ q.nCountWithAncestors = [p.nCountWithAncestors EXCEPT ![t] = 1 + SumFunctionOnSet(Ones, A)]
    /\ q.nModFeesWithAncestors =
         [p.nModFeesWithAncestors EXCEPT
            ![t] = (Fee[t] + p.mapDeltas[t]) + SumFunctionOnSet(FeesOf(p), A)]

\* addUnchecked gives a pool with those fields.
LEMMA AddedFields ==
    ASSUME NEW p \in Pools, NEW t \in Txs, NEW A \in SUBSET Txs
    PROVE  AddedIs(p, t, A, addUnchecked(p, t, A))
<1> DEFINE q == addUnchecked(p, t, A)
           fee == Fee[t] + p.mapDeltas[t]
           a1 == p.mapTx \cup {t}
           a2 == [o \in Outpoints |->
                    IF o \in Spends(t) /\ p.mapNextTx[o] = None THEN t ELSE p.mapNextTx[o]]
           a4 == [p.feeDelta EXCEPT ![t] = p.mapDeltas[t]]
           a5 == [p.parents EXCEPT ![t] = Inputs(t) \cap p.mapTx]
           a6 == [x \in Txs |-> IF x \in Inputs(t) \cap p.mapTx THEN p.children[x] \cup {t}
                                ELSE p.children[x]]
           a7 == Plus(p.nCountWithDescendants, A \cup {t}, 1)
           a8 == Plus(p.nModFeesWithDescendants, A \cup {t}, fee)
           a9 == [p.nCountWithAncestors EXCEPT ![t] = 1 + SumFunctionOnSet(Ones, A)]
           a10 == [p.nModFeesWithAncestors EXCEPT ![t] = fee + SumFunctionOnSet(FeesOf(p), A)]
           b9 == [p.nCountWithAncestors EXCEPT ![t] = 1 + Cardinality(A)]
<1>1. q = [p EXCEPT !.mapTx = a1, !.mapNextTx = a2, !.feeDelta = a4, !.parents = a5,
                    !.children = a6, !.nCountWithDescendants = a7,
                    !.nModFeesWithDescendants = a8, !.nCountWithAncestors = b9,
                    !.nModFeesWithAncestors = a10]
  BY SMT DEF addUnchecked, SumFees, FeesOf
<1>2. b9 = a9
  BY CountIsSum
<1>3. fee \in Int /\ SumFunctionOnSet(Ones, A) \in Int /\ SumFunctionOnSet(FeesOf(p), A) \in Int
  <2>1. fee \in Int
    BY SMT, PoolFields, MempoolAssumption
  <2> QED
    BY <2>1, SumType, OnesType, FeesType
<1>4. a2 \in [Outpoints -> Txs \cup {None}] /\ a4 \in [Txs -> Int]
  BY PoolFields
<1>5. a5 \in Relations /\ a6 \in Relations
  BY SMT, PoolFields DEF Relations
<1> HIDE DEF fee
<1>6. a7 \in [Txs -> Int] /\ a8 \in [Txs -> Int] /\ a9 \in [Txs -> Int] /\ a10 \in [Txs -> Int]
  BY SMT, <1>3, PoolFields DEF Plus
<1>7. a1 \in SUBSET Txs
  BY PoolFields
<1> HIDE DEF q, a1, a2, a4, a5, a6, a7, a8, a9, a10, b9
<1>8. /\ q = [f \in Names |-> q[f]]
      /\ q.mapTx = a1 /\ q.mapNextTx = a2 /\ q.mapDeltas = p.mapDeltas /\ q.feeDelta = a4
      /\ q.parents = a5 /\ q.children = a6
      /\ q.nCountWithDescendants = a7 /\ q.nModFeesWithDescendants = a8
      /\ q.nCountWithAncestors = a9 /\ q.nModFeesWithAncestors = a10
  <2>1. q = [p EXCEPT !.mapTx = a1, !.mapNextTx = a2, !.feeDelta = a4, !.parents = a5,
                      !.children = a6, !.nCountWithDescendants = a7,
                      !.nModFeesWithDescendants = a8, !.nCountWithAncestors = a9,
                      !.nModFeesWithAncestors = a10]
    BY <1>1, <1>2
  <2>2. q = [f \in DOMAIN p |-> q[f]]
    BY <2>1
  <2>3. /\ q.mapTx = a1 /\ q.mapNextTx = a2 /\ q.mapDeltas = p.mapDeltas /\ q.feeDelta = a4
        /\ q.parents = a5 /\ q.children = a6
        /\ q.nCountWithDescendants = a7 /\ q.nModFeesWithDescendants = a8
        /\ q.nCountWithAncestors = a9 /\ q.nModFeesWithAncestors = a10
    BY <2>1, SMT DEF Pools
  <2> QED
    BY <2>2, <2>3, PoolNames
<1>9. q \in Pools
  BY <1>4, <1>5, <1>6, <1>7, <1>8, PoolIntro, PoolFields
<1> QED
  BY <1>8, <1>9 DEF AddedIs, q, a1, a2, a4, a5, a6, a7, a8, a9, a10, fee

\* q is p with an entry for t.
Added(p, t, q) ==
    /\ Sound(q)
    /\ q.mapTx = p.mapTx \cup {t} /\ q.mapDeltas = p.mapDeltas
    /\ \A x \in p.mapTx : q.parents[x] = p.parents[x] /\ q.feeDelta[x] = p.feeDelta[x]
    /\ q.parents[t] = Inputs(t) \cap p.mapTx /\ q.feeDelta[t] = p.mapDeltas[t]

\* addUnchecked is right for a transaction without conflicts: it counts with all its
\* ancestors, and has no descendants that the links lead to.
LEMMA AdditionSound ==
    ASSUME NEW p, Sound(p), NEW t \in Txs, t \notin p.mapTx, \A o \in Spends(t) : NoSpender(p, o)
    PROVE  Added(p, t, addUnchecked(p, t, NewAncestors(p, t)))
<1> DEFINE P == Inputs(t) \cap p.mapTx
           A == NewAncestors(p, t)
           q == addUnchecked(p, t, A)
           fee == Fee[t] + p.mapDeltas[t]
<1>1. p \in Pools /\ Linked(p) /\ NextTxExact(p) /\ Totals(p)
  BY DEF Sound
<1>2. p.mapTx \in SUBSET Txs /\ P \in SUBSET p.mapTx /\ P \in SUBSET Txs /\ t \notin P
  BY <1>1, PoolFields
<1>3. /\ p.parents \in Relations /\ p.children \in Relations
      /\ \A y, x \in Txs : x \in p.parents[y] <=> y \in p.children[x]
      /\ \A y, x \in Txs : x \in Closure(p.children, {y}) <=> y \in Closure(p.parents, {x})
      /\ \A y \in Txs : p.parents[y] \subseteq p.mapTx /\ p.children[y] \subseteq p.mapTx
      /\ \A y \in Txs : p.parents[y] \subseteq Inputs(y)
      /\ \A y \in Txs \ p.mapTx : p.parents[y] = {} /\ p.children[y] = {}
  BY <1>1, LinkFacts
<1>4. A = Closure(p.parents, P)
  BY DEF NewAncestors, CalculateMemPoolAncestors
<1> HIDE DEF A, P
<1>5. A \in SUBSET p.mapTx /\ A \in SUBSET Txs /\ t \notin A
  BY <1>1, <1>2, <1>4, ClosureInPool
<1>6. AddedIs(p, t, A, q)
  BY <1>1, <1>5, AddedFields
<1> HIDE DEF q
<1>7. /\ q \in Pools
      /\ q.mapTx = p.mapTx \cup {t} /\ q.mapDeltas = p.mapDeltas
      /\ q.mapNextTx = [o \in Outpoints |->
                          IF o \in Spends(t) /\ p.mapNextTx[o] = None THEN t ELSE p.mapNextTx[o]]
      /\ q.feeDelta = [p.feeDelta EXCEPT ![t] = p.mapDeltas[t]]
      /\ q.parents = [p.parents EXCEPT ![t] = P]
      /\ q.children = [x \in Txs |-> IF x \in P THEN p.children[x] \cup {t} ELSE p.children[x]]
  BY <1>6 DEF AddedIs, P
<1>8. /\ q.nCountWithDescendants = Plus(p.nCountWithDescendants, A \cup {t}, 1)
      /\ q.nModFeesWithDescendants = Plus(p.nModFeesWithDescendants, A \cup {t}, fee)
      /\ q.nCountWithAncestors = [p.nCountWithAncestors EXCEPT ![t] = 1 + SumFunctionOnSet(Ones, A)]
      /\ q.nModFeesWithAncestors =
           [p.nModFeesWithAncestors EXCEPT ![t] = fee + SumFunctionOnSet(FeesOf(p), A)]
  BY <1>6 DEF AddedIs
<1>9. q.parents[t] = P /\ \A x \in Txs \ {t} : q.parents[x] = p.parents[x]
  BY SMT, <1>3, <1>7 DEF Relations
<1>10. \A x \in Txs : q.children[x] = IF x \in P THEN p.children[x] \cup {t} ELSE p.children[x]
  BY <1>7
<1>11. /\ FeesOf(p) \in [Txs -> Int] /\ FeesOf(q) \in [Txs -> Int] /\ Ones \in [Txs -> Int]
       /\ q.parents \in Relations /\ q.children \in Relations
       /\ p.feeDelta \in [Txs -> Int] /\ p.mapDeltas \in [Txs -> Int] /\ fee \in Int
  <2>1. p.feeDelta \in [Txs -> Int] /\ p.mapDeltas \in [Txs -> Int]
    BY <1>1, PoolFields
  <2>2. fee \in Int
    BY SMT, <2>1, MempoolAssumption
  <2>3. q.parents \in Relations /\ q.children \in Relations
    BY <1>7, PoolFields
  <2> QED
    BY <1>1, <1>7, <2>1, <2>2, <2>3, FeesType, OnesType
<1>12. /\ q.feeDelta[t] = p.mapDeltas[t] /\ \A x \in Txs \ {t} : q.feeDelta[x] = p.feeDelta[x]
  BY <1>7, <1>11
<1>13. FeesOf(q)[t] = fee /\ Ones[t] = 1 /\ SameOn(FeesOf(p), FeesOf(q), p.mapTx) /\ SameOn(Ones, Ones, p.mapTx)
  BY <1>2, <1>12 DEF FeesOf, GetModifiedFee, Ones, SameOn
<1>14. Linked(q)
  <2>1. Inverses(q.parents, q.children)
    <3> SUFFICES ASSUME NEW x \in Txs, NEW y \in Txs
                 PROVE  y \in q.parents[x] <=> x \in q.children[y]
      BY DEF Inverses
    <3>1. CASE x = t
      <4>1. t \notin p.children[y]
        BY <1>3
      <4> QED
        BY <1>9, <1>10, <3>1, <4>1
    <3>2. CASE x # t
      <4>1. y \in p.parents[x] <=> x \in p.children[y]
        BY <1>3
      <4> QED
        BY <1>9, <1>10, <3>2, <4>1
    <3> QED
      BY <3>1, <3>2
  <2>2. \A x \in Txs : q.parents[x] \subseteq Inputs(x) \cap q.mapTx
    BY <1>3, <1>7, <1>9 DEF P
  <2>3. \A x \in Txs \ q.mapTx : q.parents[x] = {}
    BY <1>3, <1>7, <1>9
  <2> QED
    BY <2>1, <2>2, <2>3 DEF Linked
<1>15. NextTxExact(q)
  <2> SUFFICES ASSUME NEW o \in Outpoints, NEW x \in Txs
               PROVE  q.mapNextTx[o] = x <=> x \in q.mapTx /\ o \in Spends(x)
    BY DEF NextTxExact
  <2>1. \A r \in Txs : p.mapNextTx[o] = r <=> r \in p.mapTx /\ o \in Spends(r)
    BY <1>1 DEF NextTxExact
  <2>2. p.mapNextTx[o] \in Txs \cup {None} /\ None \notin Txs
    BY <1>1, PoolFields, MempoolAssumption
  <2>3. CASE o \in Spends(t)
    <3>1. \A r \in p.mapTx : o \notin Spends(r)
      BY <2>3 DEF NoSpender
    <3>2. p.mapNextTx[o] = None
      BY <2>1, <2>2, <3>1
    <3>3. q.mapNextTx[o] = t
      BY <1>7, <2>3, <3>2
    <3> QED
      BY <1>7, <2>3, <3>1, <3>3
  <2>4. CASE o \notin Spends(t)
    <3>1. q.mapNextTx[o] = p.mapNextTx[o]
      BY <1>7, <2>4
    <3> QED
      BY <1>7, <2>1, <2>4, <3>1
  <2> QED
    BY <2>3, <2>4
<1>16. \A x \in p.mapTx : /\ Closure(p.parents, {x}) \subseteq p.mapTx
                          /\ Closure(p.children, {x}) \subseteq p.mapTx
  <2> SUFFICES ASSUME NEW x \in p.mapTx
               PROVE  /\ Closure(p.parents, {x}) \subseteq p.mapTx
                      /\ Closure(p.children, {x}) \subseteq p.mapTx
    OBVIOUS
  <2>1. {x} \in SUBSET p.mapTx
    OBVIOUS
  <2> QED
    BY <1>1, <2>1, ClosureInPool
<1>17. /\ Exact(q.parents, Ones, q.nCountWithAncestors, q.mapTx)
       /\ Exact(q.parents, FeesOf(q), q.nModFeesWithAncestors, q.mapTx)
  <2>1. /\ Exact(p.parents, Ones, p.nCountWithAncestors, p.mapTx)
        /\ Exact(p.parents, FeesOf(p), p.nModFeesWithAncestors, p.mapTx)
    BY <1>1 DEF Totals
  <2>2. /\ SameOn(p.nCountWithAncestors, q.nCountWithAncestors, p.mapTx)
        /\ SameOn(p.nModFeesWithAncestors, q.nModFeesWithAncestors, p.mapTx)
    <3>1. p.nCountWithAncestors \in [Txs -> Int] /\ p.nModFeesWithAncestors \in [Txs -> Int]
      BY <1>1, PoolFields
    <3> QED
      BY <1>2, <1>8, <3>1 DEF SameOn
  <2>3. \A x \in p.mapTx : /\ SameOn(p.parents, q.parents, Closure(p.parents, {x}))
                           /\ SameOn(Ones, Ones, Closure(p.parents, {x}))
                           /\ SameOn(FeesOf(p), FeesOf(q), Closure(p.parents, {x}))
    BY <1>2, <1>9, <1>13, <1>16 DEF SameOn
  <2>4. Exact(q.parents, Ones, q.nCountWithAncestors, p.mapTx)
    BY ONLY <1>2, <1>3, <1>11, <2>1, <2>2, <2>3, KeepTotals, Zenon
  <2>5. Exact(q.parents, FeesOf(q), q.nModFeesWithAncestors, p.mapTx)
    BY ONLY <1>2, <1>3, <1>11, <2>1, <2>2, <2>3, KeepTotals, Zenon
  <2>6. Closure(q.parents, {t}) = A \cup {t}
    <3>1. Closure(q.parents, {t}) = {t} \cup Closure(q.parents, P)
      BY <1>9, <1>11, ClosureStep
    <3>2. \A y \in Closure(p.parents, P) : q.parents[y] = p.parents[y]
      BY <1>4, <1>5, <1>9
    <3>3. P \in SUBSET Txs /\ p.parents \in Relations /\ q.parents \in Relations
      BY <1>2, <1>3, <1>11
    <3>4. Closure(q.parents, P) = Closure(p.parents, P)
      BY ONLY Zenon, <3>2, <3>3, ClosureAgrees
    <3> QED
      BY <1>4, <3>1, <3>4
  <2>7. q.nCountWithAncestors[t] = SumFunctionOnSet(Ones, Closure(q.parents, {t}))
    <3>1. SumFunctionOnSet(Ones, A \cup {t}) = SumFunctionOnSet(Ones, A) + 1
      BY SMT, <1>5, <1>11, <1>13, SumPlus
    <3>2. p.nCountWithAncestors \in [Txs -> Int] /\ SumFunctionOnSet(Ones, A) \in Int
      BY <1>1, <1>5, <1>11, PoolFields, SumType
    <3>3. q.nCountWithAncestors[t] = 1 + SumFunctionOnSet(Ones, A)
      BY <1>8, <3>2
    <3>4. SumFunctionOnSet(Ones, Closure(q.parents, {t})) = SumFunctionOnSet(Ones, A \cup {t})
      BY <2>6
    <3> QED
      BY SMT, <3>1, <3>2, <3>3, <3>4
  <2>8. q.nModFeesWithAncestors[t] = SumFunctionOnSet(FeesOf(q), Closure(q.parents, {t}))
    <3>1. SumFunctionOnSet(FeesOf(q), A \cup {t}) = SumFunctionOnSet(FeesOf(q), A) + fee
      BY SMTT(20), <1>5, <1>11, <1>13, SumPlus
    <3>2. SumFunctionOnSet(FeesOf(q), A) = SumFunctionOnSet(FeesOf(p), A)
      BY SMT, <1>5, <1>11, <1>13, SumSame DEF SameOn
    <3>3. p.nModFeesWithAncestors \in [Txs -> Int] /\ SumFunctionOnSet(FeesOf(p), A) \in Int
      BY <1>1, <1>5, <1>11, PoolFields, SumType
    <3> HIDE DEF fee
    <3>4. q.nModFeesWithAncestors[t] = fee + SumFunctionOnSet(FeesOf(p), A)
      BY <1>8, <3>3
    <3>5. SumFunctionOnSet(FeesOf(q), Closure(q.parents, {t})) = SumFunctionOnSet(FeesOf(q), A \cup {t})
      BY <2>6
    <3> QED
      BY SMTT(20), <1>11, <3>1, <3>2, <3>3, <3>4, <3>5
  <2> QED
    BY <1>7, <2>4, <2>5, <2>7, <2>8 DEF Exact
<1>18. \A x \in Txs \ p.mapTx : p.nCountWithDescendants[x] = 0 /\ p.nModFeesWithDescendants[x] = 0
  BY <1>1 DEF Totals
<1>19. /\ Exact(q.children, Ones, q.nCountWithDescendants, q.mapTx)
       /\ Exact(q.children, FeesOf(q), q.nModFeesWithDescendants, q.mapTx)
  <2>0. /\ p.children \in Relations /\ q.children \in Relations
        /\ P \in SUBSET Txs /\ p.mapTx \in SUBSET Txs /\ t \in Txs /\ t \notin p.mapTx
        /\ FeesOf(p) \in [Txs -> Int] /\ FeesOf(q) \in [Txs -> Int] /\ Ones \in [Txs -> Int]
        /\ SameOn(FeesOf(p), FeesOf(q), p.mapTx) /\ SameOn(Ones, Ones, p.mapTx)
    BY <1>2, <1>3, <1>11, <1>13
  <2>1. /\ Exact(p.children, Ones, p.nCountWithDescendants, p.mapTx)
        /\ Exact(p.children, FeesOf(p), p.nModFeesWithDescendants, p.mapTx)
    BY <1>1 DEF Totals
  <2>2. Leafed(p.children, q.children, P, t)
    BY <1>2, <1>3, <1>10 DEF Leafed
  <2>3. Inside(p.children, p.mapTx)
    BY <1>16 DEF Inside
  <2>4. LeadTo(p.children, A, P, p.mapTx)
    <3> SUFFICES ASSUME NEW x \in p.mapTx
                 PROVE  x \in A <=> \E s \in P : s \in Closure(p.children, {x})
      BY DEF LeadTo
    <3>1. x \in A <=> \E s \in P : x \in Closure(p.parents, {s})
      BY <1>2, <1>3, <1>4, ClosureFrom
    <3> QED
      BY <1>2, <1>3, <3>1
  <2>5. p.nCountWithDescendants[t] = 0 /\ p.nModFeesWithDescendants[t] = 0
    BY <1>18
  <2>6. /\ Raised(p.nCountWithDescendants, q.nCountWithDescendants, A \cup {t}, Ones[t], p.mapTx \cup {t})
        /\ Raised(p.nModFeesWithDescendants, q.nModFeesWithDescendants, A \cup {t}, FeesOf(q)[t],
                  p.mapTx \cup {t})
    BY SMT, <1>2, <1>8, <1>13 DEF Raised, Plus
  <2>7. Exact(q.children, Ones, q.nCountWithDescendants, p.mapTx \cup {t})
    BY ONLY <2>0, <2>1, <2>2, <2>3, <2>4, <2>5, <2>6, LeafTotals, Zenon
  <2>8. Exact(q.children, FeesOf(q), q.nModFeesWithDescendants, p.mapTx \cup {t})
    BY ONLY <2>0, <2>1, <2>2, <2>3, <2>4, <2>5, <2>6, LeafTotals, Zenon
  <2> QED
    BY <1>7, <2>7, <2>8
<1>20. \A x \in Txs \ q.mapTx : q.nCountWithDescendants[x] = 0 /\ q.nModFeesWithDescendants[x] = 0
  <2> SUFFICES ASSUME NEW x \in Txs, x \notin q.mapTx
               PROVE  q.nCountWithDescendants[x] = 0 /\ q.nModFeesWithDescendants[x] = 0
    OBVIOUS
  <2>1. x \notin p.mapTx /\ x \notin A \cup {t}
    BY <1>5, <1>7
  <2> QED
    BY <1>8, <1>18, <2>1 DEF Plus
<1>21. Sound(q)
  BY <1>7, <1>14, <1>15, <1>17, <1>19, <1>20 DEF Sound, Totals
<1>22. \A x \in p.mapTx : q.parents[x] = p.parents[x] /\ q.feeDelta[x] = p.feeDelta[x]
  BY <1>2, <1>9, <1>12
<1>23. Added(p, t, q)
  BY <1>7, <1>9, <1>12, <1>21, <1>22 DEF Added, P
<1> QED
  BY <1>23 DEF q, A

ConflictsOf(p, t) == {p.mapNextTx[o] : o \in Spends(t)} \ {None}

\* q is what t makes of p: its conflicts are gone, and its own parents are not.
Takes(p, t, C, V, T, r, q) ==
    /\ PoolOK(r, C, V, T) /\ DeltasOK(r) /\ Added(r, t, q)
    /\ r.mapTx \subseteq p.mapTx
    /\ Inputs(t) \cap r.mapTx = Inputs(t) \cap p.mapTx

\* Replacement removes no ancestor of the new transaction, so the ancestors that were
\* found before the conflicts were removed are its ancestors afterwards.
LEMMA AcceptedTakes ==
    ASSUME NEW p, NEW C, NEW V, NEW T, PoolOK(p, C, V, T), DeltasOK(p),
           NEW t \in Txs, t \notin p.mapTx,
           ConflictsOf(p, t) \cap NewAncestors(p, t) = {}, ConflictsOf(p, t) \cap V = {}
    PROVE  \E r : Takes(p, t, C, V, T, r, Accepted(p, t))
<1> DEFINE S == ConflictsOf(p, t)
           P == Inputs(t) \cap p.mapTx
           A == NewAncestors(p, t)
           D == Closure(p.children, S)
           r == RemoveWithDescendants(p, S)
<1>1. p \in Pools /\ Linked(p) /\ NextTxExact(p) /\ Sound(p)
  BY DEF PoolOK, Sound
<1>2. p.mapTx \in SUBSET Txs /\ P \in SUBSET p.mapTx /\ P \in SUBSET Txs
  BY <1>1, PoolFields
<1>3. \A o \in Spends(t) : /\ o \in Outpoints /\ p.mapNextTx[o] \in Txs \cup {None}
                           /\ \A x \in Txs : p.mapNextTx[o] = x <=> x \in p.mapTx /\ o \in Spends(x)
  BY SMTT(20), <1>1, PoolFields, SpendsFacts DEF NextTxExact
<1>4. S \in SUBSET (p.mapTx \ V) /\ S \in SUBSET Txs
  BY SMT, <1>2, <1>3 DEF ConflictsOf
<1>5. A = Closure(p.parents, P)
  BY DEF NewAncestors, CalculateMemPoolAncestors
<1>6. Accepted(p, t) = addUnchecked(r, t, A)
  BY DEF Accepted, ConflictsOf
<1>7. DeltasBut(p, S)
  BY DEF DeltasBut, DeltasOK
<1> HIDE DEF S, P, A
<1>8. PoolOK(r, C, V, T) /\ DeltasOK(r) /\ Without(p, D, r) /\ S \subseteq D /\ D \subseteq p.mapTx
  BY <1>4, <1>7, RemoveKeeps
<1> HIDE DEF r
<1>9. Sound(r) /\ r.mapTx = p.mapTx \ D /\ \A x \in r.mapTx : r.parents[x] = p.parents[x] \ D
  BY <1>8 DEF Without
<1>10. /\ p.parents \in Relations /\ p.children \in Relations /\ r.parents \in Relations
       /\ \A y, x \in Txs : x \in Closure(p.children, {y}) <=> y \in Closure(p.parents, {x})
  BY <1>1, <1>9, LinkFacts, PoolFields DEF Sound
<1>11. /\ A \in SUBSET p.mapTx /\ A \in SUBSET Txs /\ P \subseteq A
       /\ \A x \in A : p.parents[x] \subseteq A
  BY <1>1, <1>2, <1>5, ClosureInPool
<1>12. A \cap D = {}
  <2> SUFFICES ASSUME NEW y \in A, y \in D PROVE FALSE
    OBVIOUS
  <2>1. PICK s \in S : y \in Closure(p.children, {s})
    <3>1. p.children \in Relations /\ S \in SUBSET Txs /\ y \in Closure(p.children, S)
      BY <1>4, <1>10
    <3> QED
      BY ONLY Zenon, <3>1, ClosureFrom
  <2>2. y \in Txs /\ s \in Txs /\ s \in Closure(p.parents, {y})
    BY <1>4, <1>10, <1>11, <2>1
  <2>3. {y} \in SUBSET Txs /\ {y} \subseteq A
    BY <2>2
  <2>4. Closure(p.parents, {y}) \subseteq A
    BY <1>11, <2>3, ClosureLeast
  <2> QED
    BY <2>2, <2>4 DEF S, A
<1> HIDE DEF D
<1>13. Inputs(t) \cap r.mapTx = P
  BY <1>9, <1>11, <1>12 DEF P
<1>14. NewAncestors(r, t) = A
  <2>1. \A y \in Closure(p.parents, P) : r.parents[y] = p.parents[y]
    <3> SUFFICES ASSUME NEW y \in A PROVE r.parents[y] = p.parents[y]
      BY <1>5
    <3>1. y \in r.mapTx /\ p.parents[y] \cap D = {}
      BY <1>9, <1>11, <1>12
    <3> QED
      BY <1>9, <3>1
  <2>2. Closure(r.parents, P) = Closure(p.parents, P)
    BY ONLY Zenon, <1>2, <1>10, <2>1, ClosureAgrees
  <2>3. NewAncestors(r, t) = Closure(r.parents, P)
    BY <1>13 DEF NewAncestors, CalculateMemPoolAncestors
  <2> QED
    BY <1>5, <2>2, <2>3
<1>15. \A o \in Spends(t) : NoSpender(r, o)
  <2> SUFFICES ASSUME NEW o \in Spends(t), NEW x \in r.mapTx, o \in Spends(x)
               PROVE  FALSE
    BY DEF NoSpender
  <2>1. x \in p.mapTx /\ x \in Txs /\ x \notin D /\ None \notin Txs
    BY <1>2, <1>9, MempoolAssumption
  <2>2. p.mapNextTx[o] = x
    BY <1>3, <2>1
  <2>3. x \in S
    BY <2>1, <2>2 DEF S, ConflictsOf
  <2> QED
    BY <1>8, <2>1, <2>3 DEF D
<1>16. t \notin r.mapTx
  BY <1>9
<1>17. Added(r, t, addUnchecked(r, t, NewAncestors(r, t)))
  BY <1>9, <1>15, <1>16, AdditionSound
<1>18. Added(r, t, Accepted(p, t))
  BY <1>6, <1>14, <1>17
<1>19. r.mapTx \subseteq p.mapTx
  BY <1>9
<1> QED
  BY <1>8, <1>13, <1>18, <1>19 DEF Takes, P

\* AcceptToMemoryPool outside a reorganization: nothing in the pool spends from t.
LEMMA AcceptedFine ==
    ASSUME NEW p, NEW C \in SUBSET Txs, p \in Fine(C), NEW t \in Txs, t \notin p.mapTx, t \notin C,
           \A o \in Spends(t) : o[1] \in p.mapTx \/ o \in Unspent(C),
           ConflictsOf(p, t) \cap NewAncestors(p, t) = {}
    PROVE  Accepted(p, t) \in Fine(C)
<1> DEFINE q == Accepted(p, t)
<1>1. PoolOK(p, C, {}, {}) /\ DeltasOK(p) /\ ConflictsOf(p, t) \cap {} = {}
  BY DEF Fine
<1>2. PICK r : Takes(p, t, C, {}, {}, r, q)
  BY <1>1, AcceptedTakes
<1> HIDE DEF q
<1>3. /\ PoolOK(r, C, {}, {}) /\ DeltasOK(r) /\ Added(r, t, q)
      /\ r.mapTx \subseteq p.mapTx /\ Inputs(t) \cap r.mapTx = Inputs(t) \cap p.mapTx
  BY <1>2 DEF Takes
<1>4. /\ Sound(q) /\ q.mapTx = r.mapTx \cup {t} /\ q.mapDeltas = r.mapDeltas
      /\ \A x \in r.mapTx : q.parents[x] = r.parents[x] /\ q.feeDelta[x] = r.feeDelta[x]
      /\ q.parents[t] = Inputs(t) \cap r.mapTx /\ q.feeDelta[t] = r.mapDeltas[t]
  BY <1>3 DEF Added
<1>5. /\ r.mapTx \in SUBSET Txs /\ r.mapTx \cap C = {} /\ t \notin r.mapTx
      /\ \A x \in r.mapTx : r.parents[x] = Inputs(x) \cap r.mapTx
      /\ \A x \in r.mapTx : \A o \in Spends(x) : o[1] \in r.mapTx \/ o \in Unspent(C)
  BY <1>3, PoolFields DEF PoolOK, Sound, LinkedBut, Available
<1>6. \A x \in r.mapTx : t \notin Inputs(x)
  <2> SUFFICES ASSUME NEW x \in r.mapTx, NEW o \in Spends(x), o[1] = t
               PROVE  FALSE
    BY DEF Inputs
  <2>1. o[1] \in C \cup {Base}
    BY <1>5 DEF Unspent
  <2> QED
    BY <2>1, MempoolAssumption
<1>7. t \notin Inputs(t)
  <2> SUFFICES ASSUME NEW o \in Spends(t), o[1] = t
               PROVE  FALSE
    BY DEF Inputs
  <2>1. o[1] \in C \cup {Base}
    BY DEF Unspent
  <2> QED
    BY <2>1, MempoolAssumption
<1>8. LinkedBut(q, {})
  BY SMT, <1>4, <1>5, <1>6, <1>7 DEF LinkedBut
<1>9. Available(q, C, {})
  <2> SUFFICES ASSUME NEW x \in q.mapTx, NEW o \in Spends(x)
               PROVE  o[1] \in q.mapTx \/ o \in Unspent(C)
    BY DEF Available
  <2>1. CASE x \in r.mapTx
    BY <1>4, <1>5, <2>1
  <2>2. CASE x = t
    <3>1. o[1] \in Inputs(t) /\ (o[1] \in p.mapTx \/ o \in Unspent(C))
      BY <2>2, InputOf
    <3> QED
      BY <1>3, <1>4, <3>1
  <2> QED
    BY <1>4, <2>1, <2>2
<1>10. DeltasOK(q)
  BY SMT, <1>3, <1>4 DEF DeltasOK
<1>11. PoolOK(q, C, {}, {})
  BY <1>4, <1>5, <1>8, <1>9 DEF PoolOK
<1>12. q \in Pools
  BY <1>4 DEF Sound
<1> QED
  BY <1>10, <1>11, <1>12 DEF Fine, q

\* DisconnectTip puts t back: it is linked with its parents, and not yet with the
\* children that were in the pool while it was in a block.
LEMMA PutBack ==
    ASSUME NEW p, NEW C, NEW V, NEW T, PoolOK(p, C, V, T), DeltasOK(p),
           NEW t \in Txs, t \in T, t \notin C,
           \A o \in Spends(t) : o[1] \in p.mapTx \/ o \in Unspent(C),
           ConflictsOf(p, t) \cap NewAncestors(p, t) = {},
           \A v \in V : Spends(v) \cap Spends(t) = {} /\ t \notin Inputs(v),
           t \notin Inputs(t), Inputs(t) \cap p.mapTx \subseteq V
    PROVE  /\ PoolOK(Accepted(p, t), C, V \cup {t}, T \ {t}) /\ DeltasOK(Accepted(p, t))
           /\ Accepted(p, t).mapTx \subseteq p.mapTx \cup {t}
<1> DEFINE q == Accepted(p, t)
<1>1. t \notin p.mapTx /\ p \in Pools /\ NextTxExact(p) /\ p.mapTx \in SUBSET Txs
  BY PoolFields DEF PoolOK, Sound
<1>2. ConflictsOf(p, t) \cap V = {}
  <2> SUFFICES ASSUME NEW o \in Spends(t), p.mapNextTx[o] # None, p.mapNextTx[o] \in V
               PROVE  FALSE
    BY DEF ConflictsOf
  <2>1. o \in Outpoints /\ p.mapNextTx[o] \in Txs
    BY SMT, <1>1, PoolFields, SpendsFacts
  <2>2. o \in Spends(p.mapNextTx[o])
    BY <1>1, <2>1 DEF NextTxExact
  <2> QED
    BY <2>2
<1>3. PICK r : Takes(p, t, C, V, T, r, q)
  BY <1>1, <1>2, AcceptedTakes
<1> HIDE DEF q
<1>4. /\ PoolOK(r, C, V, T) /\ DeltasOK(r) /\ Added(r, t, q)
      /\ r.mapTx \subseteq p.mapTx /\ Inputs(t) \cap r.mapTx = Inputs(t) \cap p.mapTx
  BY <1>3 DEF Takes
<1>5. /\ Sound(q) /\ q.mapTx = r.mapTx \cup {t} /\ q.mapDeltas = r.mapDeltas
      /\ \A x \in r.mapTx : q.parents[x] = r.parents[x] /\ q.feeDelta[x] = r.feeDelta[x]
      /\ q.parents[t] = Inputs(t) \cap r.mapTx /\ q.feeDelta[t] = r.mapDeltas[t]
  BY <1>4 DEF Added
<1>6. /\ r.mapTx \cap C = {} /\ t \notin r.mapTx /\ V \subseteq r.mapTx
      /\ T \cap r.mapTx = {}
      /\ \A v \in V : Inputs(v) \cap r.mapTx \subseteq V
      /\ \A x \in r.mapTx : r.parents[x] = (Inputs(x) \cap r.mapTx) \ (IF x \in V THEN {} ELSE V)
      /\ \A x \in r.mapTx : \A o \in Spends(x) : o[1] \in r.mapTx \/ o \in Unspent(C) \/ o[1] \in T
  BY <1>4 DEF PoolOK, LinkedBut, Available
<1>7. LinkedBut(q, V \cup {t})
  <2> SUFFICES ASSUME NEW x \in q.mapTx
               PROVE  q.parents[x] = (Inputs(x) \cap q.mapTx)
                                       \ (IF x \in V \cup {t} THEN {} ELSE V \cup {t})
    BY DEF LinkedBut
  <2>1. CASE x = t
    BY <1>5, <2>1
  <2>2. CASE x \in V
    <3>1. q.parents[x] = Inputs(x) \cap r.mapTx /\ t \notin Inputs(x)
      BY SMT, <1>5, <1>6, <2>2
    <3> QED
      BY <1>5, <2>2, <3>1
  <2>3. CASE x \notin V \cup {t}
    <3>1. x \in r.mapTx /\ q.parents[x] = (Inputs(x) \cap r.mapTx) \ V
      BY <1>5, <1>6, <2>3
    <3>2. (Inputs(x) \cap q.mapTx) \ (V \cup {t}) = (Inputs(x) \cap r.mapTx) \ V
      BY SMT, <1>5, <1>6
    <3> QED
      BY <2>3, <3>1, <3>2
  <2> QED
    BY <2>1, <2>2, <2>3
<1>8. Available(q, C, T \ {t})
  <2> SUFFICES ASSUME NEW x \in q.mapTx, NEW o \in Spends(x)
               PROVE  o[1] \in q.mapTx \/ o \in Unspent(C) \/ o[1] \in T \ {t}
    BY DEF Available
  <2>1. CASE x \in r.mapTx
    BY <1>5, <1>6, <2>1
  <2>2. CASE x = t
    <3>1. o[1] \in Inputs(t) /\ (o[1] \in p.mapTx \/ o \in Unspent(C))
      BY <2>2, InputOf
    <3> QED
      BY <1>4, <1>5, <3>1
  <2> QED
    BY <1>5, <2>1, <2>2
<1>9. DeltasOK(q)
  BY <1>4, <1>5 DEF DeltasOK
<1>10. \A v \in V \cup {t} : Inputs(v) \cap q.mapTx \subseteq V \cup {t}
  BY <1>4, <1>5, <1>6
<1>11. q.mapTx \cap C = {} /\ V \cup {t} \subseteq q.mapTx /\ (T \ {t}) \cap q.mapTx = {}
  BY SMT, <1>5, <1>6
<1>12. PoolOK(q, C, V \cup {t}, T \ {t})
  BY <1>5, <1>7, <1>8, <1>10, <1>11 DEF PoolOK
<1>13. q.mapTx \subseteq p.mapTx \cup {t}
  BY <1>4, <1>5
<1> QED
  BY <1>9, <1>12, <1>13 DEF q

\* Or it is not put back, and what spends from it goes.
LEMMA NotPutBack ==
    ASSUME NEW p, NEW C, NEW V, NEW T, PoolOK(p, C, V, T), DeltasOK(p),
           NEW t \in Txs, t \in T, \A v \in V : t \notin Inputs(v)
    PROVE  /\ PoolOK(removeRecursive(p, t), C, V, T \ {t}) /\ DeltasOK(removeRecursive(p, t))
           /\ removeRecursive(p, t).mapTx \subseteq p.mapTx
<1> DEFINE q == removeRecursive(p, t)
           S == Spenders(p, t)
<1>1. t \notin p.mapTx /\ p \in Pools /\ NextTxExact(p) /\ p.mapTx \in SUBSET Txs
  BY PoolFields DEF PoolOK, Sound
<1>2. q = RemoveWithDescendants(p, S)
  BY <1>1 DEF removeRecursive
<1>3. S \in SUBSET (p.mapTx \ V)
  <2> SUFFICES ASSUME NEW o \in Outpoints, o[1] = t, p.mapNextTx[o] # None
               PROVE  p.mapNextTx[o] \in p.mapTx \ V
    BY DEF Spenders
  <2>1. p.mapNextTx[o] \in Txs
    BY SMT, <1>1, PoolFields
  <2>2. p.mapNextTx[o] \in p.mapTx /\ o \in Spends(p.mapNextTx[o])
    BY <1>1, <2>1 DEF NextTxExact
  <2>3. t \in Inputs(p.mapNextTx[o])
    BY <2>2, InputOf
  <2> QED
    BY <2>2, <2>3
<1>4. DeltasBut(p, S)
  BY DEF DeltasBut, DeltasOK
<1> HIDE DEF S, q
<1>5. PoolOK(q, C, V, T) /\ DeltasOK(q) /\ Without(p, Closure(p.children, S), q) /\ S \subseteq Closure(p.children, S)
  BY <1>2, <1>3, <1>4, RemoveKeeps
<1>6. q.mapTx = p.mapTx \ Closure(p.children, S)
  BY <1>5 DEF Without
<1>7. Available(q, C, T \ {t})
  <2> SUFFICES ASSUME NEW x \in q.mapTx, NEW o \in Spends(x)
               PROVE  o[1] \in q.mapTx \/ o \in Unspent(C) \/ o[1] \in T \ {t}
    BY DEF Available
  <2>1. o[1] \in q.mapTx \/ o \in Unspent(C) \/ o[1] \in T
    BY <1>5 DEF PoolOK, Available
  <2>2. x \in p.mapTx /\ x \in Txs /\ x \notin S /\ None \notin Txs
    BY <1>1, <1>5, <1>6, MempoolAssumption
  <2>3. o \in Outpoints /\ p.mapNextTx[o] = x
    BY <1>1, <2>2, SpendsFacts DEF NextTxExact
  <2>4. o[1] # t
    BY <2>2, <2>3 DEF S, Spenders
  <2> QED
    BY <2>1, <2>4
<1>8. PoolOK(q, C, V, T \ {t})
  <2>1. (T \ {t}) \cap q.mapTx = {}
    BY <1>5 DEF PoolOK
  <2> QED
    BY <1>5, <1>7, <2>1 DEF PoolOK
<1>9. q.mapTx \subseteq p.mapTx
  BY <1>6
<1> QED
  BY <1>5, <1>8, <1>9 DEF q

\* w is v, with d added for t.
Shifted(v, w, t, d) == d \in Int /\ w[t] = v[t] + d /\ \A x \in Txs \ {t} : w[x] = v[x]

SumShifted(v, w, t, d, S) ==
    SumFunctionOnSet(w, S) = SumFunctionOnSet(v, S) + (IF t \in S THEN d ELSE 0)

\* A sum moves by d if the value of a member does.
LEMMA SumShift ==
    ASSUME NEW v \in [Txs -> Int], NEW w \in [Txs -> Int], NEW t \in Txs, NEW d,
           Shifted(v, w, t, d), NEW S \in SUBSET Txs
    PROVE  SumShifted(v, w, t, d, S)
<1>1. CASE t \in S
  <2> DEFINE Z == S \ {t}
  <2>1. Z \in SUBSET Txs /\ t \notin Z /\ S = Z \cup {t} /\ \A x \in Z : w[x] = v[x]
    BY <1>1 DEF Shifted
  <2> HIDE DEF Z
  <2>2. SumFunctionOnSet(w, Z) = SumFunctionOnSet(v, Z)
    BY <2>1, SumSame
  <2>3. /\ SumFunctionOnSet(w, Z \cup {t}) = SumFunctionOnSet(w, Z) + w[t]
        /\ SumFunctionOnSet(v, Z \cup {t}) = SumFunctionOnSet(v, Z) + v[t]
    BY <2>1, SumPlus
  <2>4. /\ SumFunctionOnSet(w, S) = SumFunctionOnSet(w, Z) + w[t]
        /\ SumFunctionOnSet(v, S) = SumFunctionOnSet(v, Z) + v[t]
    BY <2>1, <2>3
  <2>5. SumFunctionOnSet(v, Z) \in Int /\ v[t] \in Int /\ w[t] = v[t] + d /\ d \in Int
    BY <2>1, SumType DEF Shifted
  <2> QED
    BY SMT, <1>1, <2>2, <2>4, <2>5 DEF SumShifted
<1>2. CASE t \notin S
  <2>1. \A x \in S : w[x] = v[x]
    BY <1>2 DEF Shifted
  <2>2. SumFunctionOnSet(w, S) = SumFunctionOnSet(v, S)
    BY <2>1, SumSame
  <2>3. SumFunctionOnSet(v, S) \in Int
    BY SumType
  <2> QED
    BY SMT, <1>2, <2>2, <2>3 DEF SumShifted
<1> QED
  BY <1>1, <1>2

\* g is f, with d added for the members of M from which R leads to t.
RaisedAt(R, f, g, t, d, M) ==
    \A x \in M : g[x] = IF t \in Closure(R, {x}) THEN f[x] + d ELSE f[x]

\* Totals are right again once those that count t have moved by d.
LEMMA ShiftTotals ==
    ASSUME NEW R \in Relations, NEW M \in SUBSET Txs,
           NEW v \in [Txs -> Int], NEW w \in [Txs -> Int], NEW t \in Txs, NEW d,
           Shifted(v, w, t, d), NEW f, NEW g, Exact(R, v, f, M),
           RaisedAt(R, f, g, t, d, M)
    PROVE  Exact(R, w, g, M)
<1> SUFFICES ASSUME NEW x \in M
             PROVE  g[x] = SumFunctionOnSet(w, Closure(R, {x}))
  BY DEF Exact
<1> DEFINE K == Closure(R, {x})
<1>1. K \in SUBSET Txs
  <2>1. {x} \in SUBSET Txs
    OBVIOUS
  <2> QED
    BY <2>1, ClosureIs
<1>2. f[x] = SumFunctionOnSet(v, K)
  BY DEF Exact
<1>3. g[x] = IF t \in K THEN f[x] + d ELSE f[x]
  BY DEF RaisedAt
<1> HIDE DEF K
<1>4. SumShifted(v, w, t, d, K)
  BY <1>1, SumShift
<1>5. g[x] = SumFunctionOnSet(w, K)
  <2>1. SumFunctionOnSet(v, K) \in Int
    BY <1>1, SumType
  <2> QED
    BY SMT, <1>2, <1>3, <1>4, <2>1 DEF SumShifted
<1> QED
  BY <1>5 DEF K

\* What PrioritiseTransaction does to the entry of t and to those it counts in.
Prioritised(p, t, total, own, d) ==
    [p EXCEPT !.feeDelta[t] = total,
              !.nModFeesWithDescendants = Plus(Plus(@, {t}, own), Closure(p.parents, p.parents[t]), d),
              !.nModFeesWithAncestors = Plus(Plus(@, {t}, own), Closure(p.children, {t}) \ {t}, d)]

EntryShifted(p, t, total, q) ==
    /\ Sound(q)
    /\ q.mapTx = p.mapTx /\ q.parents = p.parents /\ q.mapDeltas = p.mapDeltas
    /\ q.feeDelta = [p.feeDelta EXCEPT ![t] = total]

\* PrioritiseTransaction moves exactly the totals that count t.
LEMMA PrioritisedSound ==
    ASSUME NEW p, Sound(p), NEW t \in Txs, t \in p.mapTx, NEW d \in Int, NEW total \in Int,
           NEW own \in Int, total = p.feeDelta[t] + d, own = d
    PROVE  EntryShifted(p, t, total, Prioritised(p, t, total, own, d))
<1> DEFINE q == Prioritised(p, t, total, own, d)
           above == Closure(p.parents, p.parents[t])
           below == Closure(p.children, {t}) \ {t}
           a4 == [p.feeDelta EXCEPT ![t] = total]
           a8 == Plus(Plus(p.nModFeesWithDescendants, {t}, own), above, d)
           a10 == Plus(Plus(p.nModFeesWithAncestors, {t}, own), below, d)
<1>1. p \in Pools /\ Linked(p) /\ NextTxExact(p) /\ Totals(p)
  BY DEF Sound
<1>2. /\ p.mapTx \in SUBSET Txs /\ p.feeDelta \in [Txs -> Int]
      /\ p.nModFeesWithDescendants \in [Txs -> Int] /\ p.nModFeesWithAncestors \in [Txs -> Int]
      /\ p.parents \in Relations /\ p.children \in Relations
  BY <1>1, PoolFields
<1>3. q = [p EXCEPT !.feeDelta = a4, !.nModFeesWithDescendants = a8, !.nModFeesWithAncestors = a10]
  BY DEF Prioritised
<1> HIDE DEF above, below, q
<1>4. a4 \in [Txs -> Int] /\ a8 \in [Txs -> Int] /\ a10 \in [Txs -> Int]
  BY SMT, <1>2 DEF Plus
<1> HIDE DEF a4, a8, a10
<1>5. /\ q.mapTx = p.mapTx /\ q.mapNextTx = p.mapNextTx /\ q.mapDeltas = p.mapDeltas
      /\ q.parents = p.parents /\ q.children = p.children
      /\ q.feeDelta = a4 /\ q.nModFeesWithDescendants = a8 /\ q.nModFeesWithAncestors = a10
      /\ q.nCountWithDescendants = p.nCountWithDescendants
      /\ q.nCountWithAncestors = p.nCountWithAncestors
  BY <1>1, <1>3, SMT DEF Pools
<1>6. q \in Pools
  <2>1. q = [f \in DOMAIN p |-> q[f]]
    BY <1>3
  <2>2. q = [f \in Names |-> q[f]]
    BY <1>1, <2>1, PoolNames
  <2> QED
    BY <1>1, <1>4, <1>5, <2>2, PoolIntro, PoolFields
<1>7. /\ Closure(p.parents, {t}) = {t} \cup above /\ t \notin above
      /\ Closure(p.children, {t}) = {t} \cup below /\ t \notin below
      /\ Closure(p.parents, {t}) \subseteq p.mapTx
  <2>1. Closure(p.parents, {t}) = {t} \cup above /\ t \notin above
    BY <1>1, <1>2, ClosureStep, LinkFacts DEF above
  <2>2. t \in Closure(p.children, {t})
    BY <1>2, ClosureStep
  <2>3. {t} \in SUBSET p.mapTx
    OBVIOUS
  <2>4. Closure(p.parents, {t}) \subseteq p.mapTx
    BY <1>1, <2>3, ClosureInPool
  <2> QED
    BY <2>1, <2>2, <2>4 DEF below
<1>8. \A y, x \in Txs : x \in Closure(p.children, {y}) <=> y \in Closure(p.parents, {x})
  BY <1>1, LinkFacts
<1>9. FeesOf(p) \in [Txs -> Int] /\ FeesOf(q) \in [Txs -> Int]
  BY <1>1, <1>6, FeesType
<1>10. Shifted(FeesOf(p), FeesOf(q), t, d)
  <2>1. q.feeDelta[t] = p.feeDelta[t] + d /\ \A x \in Txs \ {t} : q.feeDelta[x] = p.feeDelta[x]
    BY <1>2, <1>5 DEF a4
  <2>2. \A x \in Txs : Fee[x] \in Int /\ p.feeDelta[x] \in Int
    BY <1>2, MempoolAssumption
  <2> QED
    BY SMT, <2>1, <2>2 DEF Shifted, FeesOf, GetModifiedFee
<1>11. Exact(q.children, FeesOf(q), q.nModFeesWithDescendants, q.mapTx)
  <2>1. Exact(p.children, FeesOf(p), p.nModFeesWithDescendants, p.mapTx)
    BY <1>1 DEF Totals
  <2>2. \A x \in p.mapTx : t \in Closure(p.children, {x}) <=> x \in Closure(p.parents, {t})
    BY <1>2, <1>8
  <2>3. RaisedAt(p.children, p.nModFeesWithDescendants, a8, t, d, p.mapTx)
    BY <1>2, <1>7, <2>2 DEF RaisedAt, Plus, a8
  <2>0. p.children \in Relations /\ p.mapTx \in SUBSET Txs
    BY <1>2
  <2>4. Exact(p.children, FeesOf(q), a8, p.mapTx)
    BY ONLY <2>0, <1>9, <1>10, <2>1, <2>3, t \in Txs, ShiftTotals, Zenon
  <2> QED
    BY <1>5, <2>4
<1>12. Exact(q.parents, FeesOf(q), q.nModFeesWithAncestors, q.mapTx)
  <2>1. Exact(p.parents, FeesOf(p), p.nModFeesWithAncestors, p.mapTx)
    BY <1>1 DEF Totals
  <2>2. \A x \in p.mapTx : t \in Closure(p.parents, {x}) <=> x \in Closure(p.children, {t})
    BY <1>2, <1>8
  <2>3. RaisedAt(p.parents, p.nModFeesWithAncestors, a10, t, d, p.mapTx)
    BY <1>2, <1>7, <2>2 DEF RaisedAt, Plus, a10
  <2>0. p.parents \in Relations /\ p.mapTx \in SUBSET Txs
    BY <1>2
  <2>4. Exact(p.parents, FeesOf(q), a10, p.mapTx)
    BY ONLY <2>0, <1>9, <1>10, <2>1, <2>3, t \in Txs, ShiftTotals, Zenon
  <2> QED
    BY <1>5, <2>4
<1>13. \A x \in Txs \ q.mapTx : q.nCountWithDescendants[x] = 0 /\ q.nModFeesWithDescendants[x] = 0
  <2> SUFFICES ASSUME NEW x \in Txs, x \notin p.mapTx
               PROVE  p.nCountWithDescendants[x] = 0 /\ a8[x] = 0
    BY <1>5
  <2>1. p.nCountWithDescendants[x] = 0 /\ p.nModFeesWithDescendants[x] = 0
    BY <1>1 DEF Totals
  <2>2. x \notin above /\ x # t
    BY <1>7
  <2> QED
    BY <2>1, <2>2 DEF Plus, a8
<1>14. Linked(q) /\ NextTxExact(q)
  BY SMT, <1>1, <1>5 DEF Linked, Inverses, NextTxExact
<1>15. Totals(q)
  <2>1. /\ Exact(q.children, Ones, q.nCountWithDescendants, q.mapTx)
        /\ Exact(q.parents, Ones, q.nCountWithAncestors, q.mapTx)
    BY <1>1, <1>5 DEF Totals
  <2> QED
    BY <1>11, <1>12, <1>13, <2>1 DEF Totals
<1> QED
  BY <1>5, <1>6, <1>14, <1>15 DEF EntryShifted, Sound, q, a4

=============================================================================
