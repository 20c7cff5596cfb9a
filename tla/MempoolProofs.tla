---------------------------- MODULE MempoolProofs ----------------------------
(***************************************************************************)
(* For any transactions, fees and limits: the totals and the links of the  *)
(* memory pool are right at every moment, in the middle of reorganizations *)
(* too, and every input of its transactions is there.                      *)
(***************************************************************************)
EXTENDS MempoolLemmas

\* Nearly all leaves are first-order; the ones with arithmetic cite SMT.
USE Zenon

-----------------------------------------------------------------------------
(* UpdateTransactionsFromBlock takes the transactions V that were put back *)
(* from the last to the first and links each with its children outside V.  *)
(* U are those it has yet to take.  Until then a member of U counts its    *)
(* descendants inside V only, and does not count in those outside.         *)

CountsBelow(R, w, f, M, U, V) ==
    \A x \in M : f[x] = SumFunctionOnSet(w, IF x \in U THEN Closure(R, {x}) \cap V
                                            ELSE Closure(R, {x}))

CountsAbove(R, w, f, M, U, V) ==
    \A x \in M : f[x] = SumFunctionOnSet(w, IF x \in V THEN Closure(R, {x})
                                            ELSE Closure(R, {x}) \ U)

\* Where Q leads when the links of one member of U were added to R.
GraftedBelow(R, Q, M, U, V) ==
    /\ \A x \in M : Closure(Q, {x}) \cap V = Closure(R, {x}) \cap V
    /\ \A x \in M \ U : Closure(Q, {x}) = Closure(R, {x})

GrownAt(Q, w, f, g, M, V, t) ==
    /\ g[t] = f[t] + SumFunctionOnSet(w, Closure(Q, {t}) \ V)
    /\ \A x \in M \ {t} : g[x] = f[x]

\* The totals over descendants when t is taken.
LEMMA GraftBelow ==
    ASSUME NEW R, NEW Q \in Relations, NEW M \in SUBSET Txs, NEW U \in SUBSET M, NEW V \in SUBSET M,
           NEW t \in U, NEW w \in [Txs -> Int], NEW f, NEW g,
           GraftedBelow(R, Q, M, U, V), CountsBelow(R, w, f, M, U, V), GrownAt(Q, w, f, g, M, V, t)
    PROVE  CountsBelow(Q, w, g, M, U \ {t}, V)
<1> SUFFICES ASSUME NEW x \in M
             PROVE  g[x] = SumFunctionOnSet(w, IF x \in U \ {t} THEN Closure(Q, {x}) \cap V
                                               ELSE Closure(Q, {x}))
  BY DEF CountsBelow
<1>1. CASE x = t
  <2> DEFINE D == Closure(Q, {t})
  <2>1. D \in SUBSET Txs /\ V \in SUBSET Txs
    <3>1. {t} \in SUBSET Txs
      OBVIOUS
    <3> QED
      BY <3>1, ClosureIs
  <2>2. D \cap V = Closure(R, {t}) \cap V
    BY DEF GraftedBelow
  <2>3. f[t] = SumFunctionOnSet(w, Closure(R, {t}) \cap V)
    BY DEF CountsBelow
  <2>4. g[t] = f[t] + SumFunctionOnSet(w, D \ V)
    BY DEF GrownAt
  <2> HIDE DEF D
  <2>5. f[t] = SumFunctionOnSet(w, D \cap V)
    BY <2>2, <2>3
  <2>6. SumFunctionOnSet(w, D \ V) = SumFunctionOnSet(w, D) - SumFunctionOnSet(w, D \cap V)
    BY <2>1, SumMinus
  <2>7. D \cap V \in SUBSET Txs
    BY <2>1
  <2>8. SumFunctionOnSet(w, D) \in Int /\ SumFunctionOnSet(w, D \cap V) \in Int
    BY <2>1, <2>7, SumType
  <2>9. g[t] = SumFunctionOnSet(w, D)
    BY SMT, <2>4, <2>5, <2>6, <2>8
  <2> QED
    BY <1>1, <2>9 DEF D
<1>2. CASE x # t /\ x \in U
  <2>1. g[x] = f[x]
    BY <1>2 DEF GrownAt
  <2>2. f[x] = SumFunctionOnSet(w, Closure(R, {x}) \cap V)
    BY <1>2 DEF CountsBelow
  <2>3. Closure(Q, {x}) \cap V = Closure(R, {x}) \cap V
    BY DEF GraftedBelow
  <2>4. g[x] = SumFunctionOnSet(w, Closure(Q, {x}) \cap V)
    BY <2>1, <2>2, <2>3
  <2> QED
    BY <1>2, <2>4
<1>3. CASE x \notin U
  <2>1. g[x] = f[x]
    BY <1>3 DEF GrownAt
  <2>2. f[x] = SumFunctionOnSet(w, Closure(R, {x}))
    BY <1>3 DEF CountsBelow
  <2>3. Closure(Q, {x}) = Closure(R, {x})
    BY <1>3 DEF GraftedBelow
  <2>4. g[x] = SumFunctionOnSet(w, Closure(Q, {x}))
    BY <2>1, <2>2, <2>3
  <2> QED
    BY <1>3, <2>4
<1> QED
  BY <1>1, <1>2, <1>3

\* B are the members outside V that t comes to lead to.
GraftedAbove(R, Q, M, U, V, t, B) ==
    /\ B \cap V = {}
    /\ \A x \in M \cap V : Closure(Q, {x}) = Closure(R, {x})
    /\ \A x \in M \ V : Closure(Q, {x}) \ (U \ {t}) = (Closure(R, {x}) \ U) \cup {y \in {t} : x \in B}

\* The totals over ancestors when t is taken.
LEMMA GraftAbove ==
    ASSUME NEW R \in Relations, NEW Q \in Relations, NEW M \in SUBSET Txs,
           NEW U \in SUBSET M, NEW V \in SUBSET M,
           NEW t \in U, NEW w \in [Txs -> Int], NEW f, NEW g, NEW B,
           GraftedAbove(R, Q, M, U, V, t, B), CountsAbove(R, w, f, M, U, V), Raised(f, g, B, w[t], M)
    PROVE  CountsAbove(Q, w, g, M, U \ {t}, V)
<1> SUFFICES ASSUME NEW x \in M
             PROVE  g[x] = SumFunctionOnSet(w, IF x \in V THEN Closure(Q, {x})
                                               ELSE Closure(Q, {x}) \ (U \ {t}))
  BY DEF CountsAbove
<1>1. g[x] = IF x \in B THEN f[x] + w[t] ELSE f[x]
  BY DEF Raised
<1>2. CASE x \in V
  <2>1. f[x] = SumFunctionOnSet(w, Closure(R, {x}))
    BY <1>2 DEF CountsAbove
  <2>2. Closure(Q, {x}) = Closure(R, {x}) /\ x \notin B
    BY <1>2 DEF GraftedAbove
  <2>3. g[x] = SumFunctionOnSet(w, Closure(Q, {x}))
    BY <1>1, <2>1, <2>2
  <2> QED
    BY <1>2, <2>3
<1>3. CASE x \notin V
  <2> DEFINE Z == Closure(R, {x}) \ U
  <2>1. f[x] = SumFunctionOnSet(w, Z)
    BY <1>3 DEF CountsAbove
  <2>2. Closure(Q, {x}) \ (U \ {t}) = Z \cup {y \in {t} : x \in B}
    BY <1>3 DEF GraftedAbove
  <2>3. Z \in SUBSET Txs /\ t \notin Z /\ t \in Txs
    <3>1. {x} \in SUBSET Txs
      OBVIOUS
    <3> QED
      BY <3>1, ClosureIs
  <2> HIDE DEF Z
  <2>4. g[x] = SumFunctionOnSet(w, Closure(Q, {x}) \ (U \ {t}))
    <3>1. CASE x \in B
      <4>1. Closure(Q, {x}) \ (U \ {t}) = Z \cup {t}
        BY <2>2, <3>1
      <4>2. SumFunctionOnSet(w, Z \cup {t}) = SumFunctionOnSet(w, Z) + w[t]
        BY <2>3, SumPlus
      <4>3. g[x] = SumFunctionOnSet(w, Z) + w[t]
        BY <1>1, <2>1, <3>1
      <4> QED
        BY <4>1, <4>2, <4>3
    <3>2. CASE x \notin B
      <4>1. Closure(Q, {x}) \ (U \ {t}) = Z
        BY <2>2, <3>2
      <4>2. g[x] = SumFunctionOnSet(w, Z)
        BY <1>1, <2>1, <3>2
      <4> QED
        BY <4>1, <4>2
    <3> QED
      BY <3>1, <3>2
  <2> QED
    BY <1>3, <2>4
<1> QED
  BY <1>2, <1>3

\* The fields of UpdateForDescendants, with the counts as sums.
TiedIs(p, t, K, V, q) ==
    LET R == [p.children EXCEPT ![t] = p.children[t] \cup K]
        all == Closure(R, {t}) \ ({t} \cup V)
    IN /\ q \in Pools
       /\ q.mapTx = p.mapTx /\ q.mapDeltas = p.mapDeltas
       /\ q.mapNextTx = p.mapNextTx /\ q.feeDelta = p.feeDelta
       /\ q.children = R
       /\ q.parents = [x \in Txs |-> IF x \in K THEN p.parents[x] \cup {t} ELSE p.parents[x]]
       /\ q.nCountWithAncestors = Plus(p.nCountWithAncestors, all, 1)
       /\ q.nModFeesWithAncestors = Plus(p.nModFeesWithAncestors, all, FeesOf(p)[t])
       /\ q.nCountWithDescendants =
            [p.nCountWithDescendants EXCEPT ![t] = p.nCountWithDescendants[t] + SumFunctionOnSet(Ones, all)]
       /\ q.nModFeesWithDescendants =
            [p.nModFeesWithDescendants EXCEPT
               ![t] = p.nModFeesWithDescendants[t] + SumFunctionOnSet(FeesOf(p), all)]

\* UpdateForDescendants gives a pool with those fields.
LEMMA TiedFields ==
    ASSUME NEW p \in Pools, NEW t \in p.mapTx, NEW V \in SUBSET Txs, Spenders(p, t) \subseteq Txs
    PROVE  TiedIs(p, t, Spenders(p, t) \ V, V, UpdateForDescendants(p, t, V))
<1> DEFINE q == UpdateForDescendants(p, t, V)
           K == Spenders(p, t) \ V
           R == [p.children EXCEPT ![t] = p.children[t] \cup K]
           Q == [x \in Txs |-> IF x \in K THEN p.parents[x] \cup {t} ELSE p.parents[x]]
           p0 == [p EXCEPT !.children = R, !.parents = Q]
           all == Closure(R, {t}) \ ({t} \cup V)
           all0 == Closure(p0.children, {t}) \ ({t} \cup V)
           fee == GetModifiedFee(p, t)
<1>1. q = [p0 EXCEPT
             !.nCountWithAncestors = Plus(p0.nCountWithAncestors, all0, 1),
             !.nModFeesWithAncestors = Plus(p0.nModFeesWithAncestors, all0, fee),
             !.nCountWithDescendants[t] = p0.nCountWithDescendants[t] + Cardinality(all0),
             !.nModFeesWithDescendants[t] =
                p0.nModFeesWithDescendants[t] + SumFunctionOnSet(FeesOf(p), all0)]
  BY DEF UpdateForDescendants, SumFees, FeesOf, CalculateDescendants
<1>2. K \in SUBSET Txs /\ t \in Txs
  BY PoolFields
<1> HIDE DEF K
<1>3. R \in Relations /\ Q \in Relations
  BY <1>2, PoolFields, SMT DEF Relations
<1> HIDE DEF R, Q
<1>4. /\ p0.children = R /\ p0.parents = Q
      /\ p0.mapTx = p.mapTx /\ p0.mapDeltas = p.mapDeltas
      /\ p0.mapNextTx = p.mapNextTx /\ p0.feeDelta = p.feeDelta
      /\ p0.nCountWithAncestors = p.nCountWithAncestors
      /\ p0.nModFeesWithAncestors = p.nModFeesWithAncestors
      /\ p0.nCountWithDescendants = p.nCountWithDescendants
      /\ p0.nModFeesWithDescendants = p.nModFeesWithDescendants
  BY SMT DEF Pools
<1>5. p0 = [f \in DOMAIN p |-> p0[f]]
  OBVIOUS
<1>6. p0 = [f \in Names |-> p0[f]]
  BY <1>5, PoolNames
<1> HIDE DEF p0, fee, q
<1>7. p0 \in Pools
  BY <1>3, <1>4, <1>6, PoolIntro, PoolFields
<1>8. all0 = all
  BY <1>4
<1>9. all \in SUBSET Txs
  <2>1. {t} \in SUBSET Txs
    BY <1>2
  <2> QED
    BY <1>3, <2>1, ClosureIs
<1> HIDE DEF all, all0
<1> DEFINE a7 == Plus(p.nCountWithAncestors, all, 1)
           a8 == Plus(p.nModFeesWithAncestors, all, FeesOf(p)[t])
           b9 == p.nCountWithDescendants[t] + SumFunctionOnSet(Ones, all)
           b10 == p.nModFeesWithDescendants[t] + SumFunctionOnSet(FeesOf(p), all)
           a9 == [p.nCountWithDescendants EXCEPT ![t] = b9]
           a10 == [p.nModFeesWithDescendants EXCEPT ![t] = b10]
<1>10. fee = FeesOf(p)[t]
  BY <1>2 DEF fee, FeesOf
<1>11. Cardinality(all) = SumFunctionOnSet(Ones, all)
  BY <1>9, CountIsSum
<1>12. q = [p0 EXCEPT !.nCountWithAncestors = a7, !.nModFeesWithAncestors = a8,
                      !.nCountWithDescendants[t] = b9, !.nModFeesWithDescendants[t] = b10]
  BY <1>1, <1>4, <1>8, <1>10, <1>11
<1>13. FeesOf(p)[t] \in Int /\ SumFunctionOnSet(Ones, all) \in Int /\ SumFunctionOnSet(FeesOf(p), all) \in Int
  <2>1. FeesOf(p)[t] \in Int
    BY <1>2, FeesType
  <2> QED
    BY <1>9, <2>1, SumType, OnesType, FeesType
<1>14. a7 \in [Txs -> Int] /\ a8 \in [Txs -> Int] /\ a9 \in [Txs -> Int] /\ a10 \in [Txs -> Int]
  BY SMT, <1>2, <1>13, PoolFields DEF Plus
<1> HIDE DEF a7, a8, b9, b10
<1>15. /\ q.children = R /\ q.parents = Q
       /\ q.mapTx = p.mapTx /\ q.mapDeltas = p.mapDeltas
       /\ q.mapNextTx = p.mapNextTx /\ q.feeDelta = p.feeDelta
       /\ q.nCountWithAncestors = a7 /\ q.nModFeesWithAncestors = a8
       /\ q.nCountWithDescendants = a9 /\ q.nModFeesWithDescendants = a10
  BY ONLY <1>4, <1>7, <1>12, SMT DEF Pools, a9, a10
<1> HIDE DEF a9, a10
<1>16. q = [f \in DOMAIN p0 |-> q[f]]
  BY <1>12
<1>17. q = [f \in Names |-> q[f]]
  BY <1>7, <1>16, PoolNames
<1>18. q \in Pools
  BY <1>3, <1>14, <1>15, <1>17, PoolIntro, PoolFields
<1> QED
  BY <1>15, <1>18 DEF TiedIs, q, K, R, Q, all, a7, a8, a9, a10, b9, b10

Grafts(R, Q, t, K) == Q[t] = R[t] \cup K /\ \A y \in Txs \ {t} : Q[y] = R[y]

\* R does not lead into S.
NotInto(R, S) == \A x \in Txs \ S : R[x] \subseteq Txs \ S

\* Where the links lead when those from t to K were added.
LEMMA GraftReach ==
    ASSUME NEW R \in Relations, NEW Q \in Relations, NEW V \in SUBSET Txs, NEW U \in SUBSET V,
           NEW t \in U, NEW K \in SUBSET (Txs \ V), Grafts(R, Q, t, K),
           NotInto(R, U), NotInto(R, V)
    PROVE  GraftedBelow(R, Q, Txs, U, V)
<1>1. t \in Txs /\ K \in SUBSET Txs
  OBVIOUS
<1>2. Closure(R, K) \cap V = {}
  <2>1. Closure(R, K) \subseteq Txs \ V
    <3>1. Txs \ V \in SUBSET Txs /\ K \subseteq Txs \ V
      OBVIOUS
    <3>2. \A x \in Txs \ V : R[x] \subseteq Txs \ V
      BY DEF NotInto
    <3> QED
      BY <3>1, <3>2, ClosureLeast
  <2> QED
    BY <2>1
<1>3. ASSUME NEW x \in Txs
      PROVE  /\ t \notin Closure(R, {x}) => Closure(Q, {x}) = Closure(R, {x})
             /\ t \in Closure(R, {x}) => Closure(Q, {x}) = Closure(R, {x}) \cup Closure(R, K)
  <2>1. Q[t] = R[t] \cup K /\ \A y \in Txs \ {t} : Q[y] = R[y]
    BY DEF Grafts
  <2> QED
    BY ONLY R \in Relations, Q \in Relations, <1>1, <2>1, x \in Txs, ClosureGraft
<1>4. ASSUME NEW x \in Txs
      PROVE  Closure(Q, {x}) \cap V = Closure(R, {x}) \cap V
  BY <1>2, <1>3
<1>5. ASSUME NEW x \in Txs \ U
      PROVE  Closure(Q, {x}) = Closure(R, {x})
  <2>1. Closure(R, {x}) \subseteq Txs \ U
    <3>1. Txs \ U \in SUBSET Txs /\ {x} \subseteq Txs \ U
      OBVIOUS
    <3>2. \A y \in Txs \ U : R[y] \subseteq Txs \ U
      BY DEF NotInto
    <3> QED
      BY <3>1, <3>2, ClosureLeast
  <2>2. t \notin Closure(R, {x})
    BY <2>1
  <2> QED
    BY <1>3, <2>2
<1> QED
  BY <1>4, <1>5 DEF GraftedBelow

\* And from where they lead, by the links the other way.
LEMMA GraftReachedFrom ==
    ASSUME NEW R \in Relations, NEW Q \in Relations, NEW S \in Relations, NEW P \in Relations,
           Inverses(S, R), Inverses(P, Q), NEW V \in SUBSET Txs, NEW U \in SUBSET V, NEW t \in U,
           GraftedBelow(R, Q, Txs, U, V)
    PROVE  GraftedAbove(S, P, Txs, U, V, t, Closure(Q, {t}) \ ({t} \cup V))
<1> DEFINE B == Closure(Q, {t}) \ ({t} \cup V)
<1>1. \A x \in Txs, y \in Txs : y \in Closure(S, {x}) <=> x \in Closure(R, {y})
  BY ClosureInverse
<1>2. \A x \in Txs, y \in Txs : y \in Closure(P, {x}) <=> x \in Closure(Q, {y})
  BY ClosureInverse
<1>3. /\ \A x \in Txs : Closure(Q, {x}) \cap V = Closure(R, {x}) \cap V
      /\ \A x \in Txs \ U : Closure(Q, {x}) = Closure(R, {x})
  BY DEF GraftedBelow
<1>4. \A x \in Txs : Closure(S, {x}) \in SUBSET Txs /\ Closure(P, {x}) \in SUBSET Txs
  <2> TAKE x \in Txs
  <2>1. {x} \in SUBSET Txs
    OBVIOUS
  <2> QED
    BY <2>1, ClosureIs
<1>5. ASSUME NEW x \in Txs \cap V
      PROVE  Closure(P, {x}) = Closure(S, {x})
  <2>1. ASSUME NEW y \in Txs
        PROVE  y \in Closure(P, {x}) <=> y \in Closure(S, {x})
    <3>1. Closure(Q, {y}) \cap V = Closure(R, {y}) \cap V
      BY <1>3
    <3>2. x \in Closure(Q, {y}) <=> x \in Closure(R, {y})
      BY <3>1
    <3> QED
      BY <1>1, <1>2, <3>2
  <2> QED
    BY <1>4, <2>1
<1>6. ASSUME NEW x \in Txs \ V
      PROVE  Closure(P, {x}) \ (U \ {t}) = (Closure(S, {x}) \ U) \cup {y \in {t} : x \in B}
  <2>1. ASSUME NEW y \in Txs \ U
        PROVE  y \in Closure(P, {x}) <=> y \in Closure(S, {x})
    BY <1>1, <1>2, <1>3
  <2>2. t \in Closure(P, {x}) <=> x \in B
    BY <1>2
  <2>3. Closure(S, {x}) \in SUBSET Txs /\ Closure(P, {x}) \in SUBSET Txs
    BY <1>4
  <2> HIDE DEF B
  <2> QED
    BY <2>1, <2>2, <2>3
<1> QED
  BY <1>5, <1>6 DEF GraftedAbove

-----------------------------------------------------------------------------

\* No input of a member of S is in the pool, unless in S.
Rooted(p, S) == S \subseteq p.mapTx /\ \A t \in S : Inputs(t) \cap p.mapTx \subseteq S

\* The links, but for those of the members of U to children outside V.
LinkedMid(p, V, U) ==
    \A t \in p.mapTx : p.parents[t] = (Inputs(t) \cap p.mapTx) \ (IF t \in V THEN {} ELSE U)

Counted(p, V, U) ==
    /\ CountsBelow(p.children, Ones, p.nCountWithDescendants, p.mapTx, U, V)
    /\ CountsBelow(p.children, FeesOf(p), p.nModFeesWithDescendants, p.mapTx, U, V)
    /\ CountsAbove(p.parents, Ones, p.nCountWithAncestors, p.mapTx, U, V)
    /\ CountsAbove(p.parents, FeesOf(p), p.nModFeesWithAncestors, p.mapTx, U, V)
    /\ \A t \in Txs \ p.mapTx : p.nCountWithDescendants[t] = 0 /\ p.nModFeesWithDescendants[t] = 0

\* Within UpdateTransactionsFromBlock, when U are still to be taken.
Midway(p, C, V, U) ==
    /\ p \in Pools /\ Linked(p) /\ NextTxExact(p) /\ DeltasOK(p)
    /\ p.mapTx \cap C = {} /\ Available(p, C, {})
    /\ Rooted(p, V)
    /\ LinkedMid(p, V, U) /\ Counted(p, V, U)

\* The transactions of the pool that spend an output of t are those with t among their inputs.
LEMMA SpendersAre ==
    ASSUME NEW p \in Pools, NextTxExact(p), NEW t \in Txs
    PROVE  Spenders(p, t) = {x \in p.mapTx : t \in Inputs(x)}
<1>1. p.mapNextTx \in [Outpoints -> Txs \cup {None}] /\ p.mapTx \in SUBSET Txs /\ None \notin Txs
  BY PoolFields, MempoolAssumption
<1>2. ASSUME NEW x \in Spenders(p, t)
      PROVE  x \in p.mapTx /\ t \in Inputs(x)
  <2>1. PICK o \in Outpoints : o[1] = t /\ x = p.mapNextTx[o] /\ x # None
    BY DEF Spenders
  <2>2. x \in Txs
    BY <1>1, <2>1
  <2>3. x \in p.mapTx /\ o \in Spends(x)
    BY <2>1, <2>2 DEF NextTxExact
  <2> QED
    BY <2>1, <2>3, InputOf
<1>3. ASSUME NEW x \in p.mapTx, t \in Inputs(x)
      PROVE  x \in Spenders(p, t)
  <2>1. PICK o \in Spends(x) : o[1] = t
    BY <1>3 DEF Inputs
  <2>2. x \in Txs /\ x # None
    BY <1>1
  <2>3. o \in Outpoints
    BY <2>2 DEF Outpoints
  <2>4. p.mapNextTx[o] = x
    BY <2>2, <2>3 DEF NextTxExact
  <2> QED
    BY <2>1, <2>2, <2>3, <2>4 DEF Spenders
<1> QED
  BY <1>2, <1>3

\* UpdateForDescendants takes one member of U, when the ones before it are still in U.
LEMMA TieStep ==
    ASSUME NEW p, NEW C, NEW V, NEW U \in SUBSET V, Midway(p, C, V, U), Rooted(p, U), NEW t \in U
    PROVE  /\ Midway(UpdateForDescendants(p, t, V), C, V, U \ {t})
           /\ UpdateForDescendants(p, t, V).mapTx = p.mapTx
<1> DEFINE q == UpdateForDescendants(p, t, V)
           K == Spenders(p, t) \ V
           R == p.children
           S == p.parents
           M == p.mapTx
           B == Closure(q.children, {t}) \ ({t} \cup V)
<1>1. /\ p \in Pools /\ Linked(p) /\ NextTxExact(p) /\ DeltasOK(p)
      /\ p.mapTx \cap C = {} /\ Available(p, C, {})
      /\ Rooted(p, V)
      /\ LinkedMid(p, V, U) /\ Counted(p, V, U)
  BY DEF Midway
<1>2. M \in SUBSET Txs /\ V \in SUBSET M /\ U \in SUBSET M /\ t \in Txs /\ t \in M
  BY <1>1, PoolFields DEF Rooted
<1>3. K = {x \in M \ V : t \in Inputs(x)}
  BY <1>1, <1>2, SpendersAre
<1>4. TiedIs(p, t, K, V, q)
  <2>1. Spenders(p, t) \subseteq Txs
    BY <1>1, <1>2, SpendersAre
  <2>2. V \in SUBSET Txs
    BY <1>2
  <2> QED
    BY <1>1, <1>2, <2>1, <2>2, TiedFields
<1> HIDE DEF q, K
<1>5. /\ q \in Pools
      /\ q.mapTx = p.mapTx /\ q.mapDeltas = p.mapDeltas
      /\ q.mapNextTx = p.mapNextTx /\ q.feeDelta = p.feeDelta
      /\ q.children = [R EXCEPT ![t] = R[t] \cup K]
      /\ q.parents = [x \in Txs |-> IF x \in K THEN S[x] \cup {t} ELSE S[x]]
  BY <1>4 DEF TiedIs
<1>6. /\ q.nCountWithAncestors = Plus(p.nCountWithAncestors, B, 1)
      /\ q.nModFeesWithAncestors = Plus(p.nModFeesWithAncestors, B, FeesOf(p)[t])
      /\ q.nCountWithDescendants =
           [p.nCountWithDescendants EXCEPT ![t] = p.nCountWithDescendants[t] + SumFunctionOnSet(Ones, B)]
      /\ q.nModFeesWithDescendants =
           [p.nModFeesWithDescendants EXCEPT
              ![t] = p.nModFeesWithDescendants[t] + SumFunctionOnSet(FeesOf(p), B)]
  BY <1>4, <1>5 DEF TiedIs
<1>7. FeesOf(q) = FeesOf(p)
  BY <1>5 DEF FeesOf, GetModifiedFee
<1>8. /\ R \in Relations /\ S \in Relations /\ Inverses(S, R)
      /\ \A x, y \in Txs : y \in S[x] <=> x \in R[y]
      /\ \A x \in Txs : S[x] \subseteq Inputs(x) /\ S[x] \subseteq M /\ R[x] \subseteq M
      /\ \A x \in Txs \ M : S[x] = {}
  BY <1>1, LinkFacts DEF Linked
<1>9. q.children \in Relations /\ q.parents \in Relations
  BY <1>5, PoolFields
<1> HIDE DEF R, S, M
<1>10. Linked(q)
  <2>1. ASSUME NEW x \in Txs, NEW y \in Txs
        PROVE  y \in q.parents[x] <=> x \in q.children[y]
    <3>1. q.parents[x] = IF x \in K THEN S[x] \cup {t} ELSE S[x]
      BY <1>5
    <3>2. q.children[y] = IF y = t THEN R[t] \cup K ELSE R[y]
      BY SMT, <1>5, <1>8 DEF Relations
    <3>3. y \in S[x] <=> x \in R[y]
      BY <1>8
    <3> QED
      BY <3>1, <3>2, <3>3
  <2>2. ASSUME NEW x \in Txs
        PROVE  /\ q.parents[x] \subseteq Inputs(x) \cap q.mapTx
               /\ x \notin M => q.parents[x] = {}
    <3>1. q.parents[x] = IF x \in K THEN S[x] \cup {t} ELSE S[x]
      BY <1>5
    <3>2. x \in K => t \in Inputs(x) /\ x \in M
      BY <1>3
    <3> QED
      BY SMT, <1>2, <1>5, <1>8, <3>1, <3>2 DEF M
  <2>3. Inverses(q.parents, q.children)
    BY <2>1 DEF Inverses
  <2> QED
    BY <1>5, <2>2, <2>3 DEF Linked, M
<1>11. NextTxExact(q) /\ DeltasOK(q) /\ q.mapTx \cap C = {} /\ Available(q, C, {}) /\ Rooted(q, V)
  <2>1. /\ q.mapTx = p.mapTx /\ q.mapDeltas = p.mapDeltas
        /\ q.mapNextTx = p.mapNextTx /\ q.feeDelta = p.feeDelta
    BY <1>5
  <2>2. NextTxExact(q)
    BY ONLY <1>1, <2>1, Zenon DEF NextTxExact
  <2>3. DeltasOK(q)
    BY ONLY <1>1, <2>1, Zenon DEF DeltasOK
  <2>4. q.mapTx \cap C = {} /\ Available(q, C, {})
    BY ONLY <1>1, <2>1, Zenon DEF Available
  <2>5. Rooted(q, V)
    BY ONLY <1>1, <2>1, Zenon DEF Rooted
  <2> QED
    BY <2>2, <2>3, <2>4, <2>5
<1>12. LinkedMid(q, V, U \ {t})
  <2> SUFFICES ASSUME NEW x \in M
               PROVE  q.parents[x] = (Inputs(x) \cap M) \ (IF x \in V THEN {} ELSE U \ {t})
    BY <1>5 DEF LinkedMid, M
  <2>1. S[x] = (Inputs(x) \cap M) \ (IF x \in V THEN {} ELSE U)
    BY <1>1 DEF LinkedMid, M, S
  <2>2. q.parents[x] = IF x \in K THEN S[x] \cup {t} ELSE S[x]
    BY <1>2, <1>5
  <2>3. x \in K <=> x \notin V /\ t \in Inputs(x)
    BY <1>3
  <2> QED
    BY <1>2, <2>1, <2>2, <2>3
<1>13. NotInto(R, U) /\ NotInto(R, V)
  <2>1. ASSUME NEW W \in SUBSET Txs, Rooted(p, W)
        PROVE  NotInto(R, W)
    <3> SUFFICES ASSUME NEW x \in Txs \ W, NEW y \in R[x]
                 PROVE  y \in Txs \ W
      BY DEF NotInto
    <3>1. y \in Txs
      BY <1>8, <1>2
    <3>2. x \in S[y]
      BY <1>8, <3>1
    <3>3. x \in Inputs(y) /\ x \in M
      BY <1>8, <3>1, <3>2
    <3>4. y \in W => Inputs(y) \cap M \subseteq W
      BY <2>1 DEF Rooted, M
    <3> QED
      BY <3>1, <3>3, <3>4
  <2>2. U \in SUBSET Txs /\ V \in SUBSET Txs
    BY <1>2
  <2> QED
    BY <1>1, <2>1, <2>2
<1>14. GraftedBelow(R, q.children, Txs, U, V)
  <2>1. Grafts(R, q.children, t, K)
    BY SMT, <1>2, <1>5, <1>8 DEF Grafts, Relations
  <2>2. K \in SUBSET (Txs \ V) /\ V \in SUBSET Txs
    BY <1>2, <1>3
  <2> QED
    BY ONLY <1>8, <1>9, <1>13, <2>1, <2>2, U \in SUBSET V, t \in U, GraftReach, Zenon
<1>15. GraftedAbove(S, q.parents, Txs, U, V, t, B)
  <2>1. Inverses(q.parents, q.children)
    BY <1>10 DEF Linked
  <2>2. V \in SUBSET Txs
    BY <1>2
  <2> QED
    BY ONLY <1>8, <1>9, <1>14, <2>1, <2>2, U \in SUBSET V, t \in U, GraftReachedFrom, Zenon DEF B
<1>16. GraftedBelow(R, q.children, M, U, V) /\ GraftedAbove(S, q.parents, M, U, V, t, B)
  BY <1>2, <1>14, <1>15 DEF GraftedBelow, GraftedAbove
<1>17. B = Closure(q.children, {t}) \ V
  BY <1>2 DEF B
<1> HIDE DEF B
<1>18. ASSUME NEW w \in [Txs -> Int], NEW f \in [Txs -> Int], NEW g,
              g = [f EXCEPT ![t] = f[t] + SumFunctionOnSet(w, B)], CountsBelow(R, w, f, M, U, V)
       PROVE  CountsBelow(q.children, w, g, M, U \ {t}, V)
  <2>1. GrownAt(q.children, w, f, g, M, V, t)
    <3>1. g[t] = f[t] + SumFunctionOnSet(w, B) /\ \A x \in M \ {t} : g[x] = f[x]
      BY <1>2, <1>18
    <3> QED
      BY <1>17, <3>1 DEF GrownAt
  <2> QED
    BY ONLY <1>2, <1>9, <1>16, <1>18, <2>1, t \in U, GraftBelow, Zenon
<1>19. ASSUME NEW w \in [Txs -> Int], NEW f \in [Txs -> Int], NEW g,
              g = Plus(f, B, w[t]), CountsAbove(S, w, f, M, U, V)
       PROVE  CountsAbove(q.parents, w, g, M, U \ {t}, V)
  <2>1. Raised(f, g, B, w[t], M)
    BY <1>2, <1>19 DEF Plus, Raised
  <2> QED
    BY ONLY <1>2, <1>8, <1>9, <1>16, <1>19, <2>1, t \in U, GraftAbove, Zenon
<1>20. Counted(q, V, U \ {t})
  <2>1. /\ CountsBelow(R, Ones, p.nCountWithDescendants, M, U, V)
        /\ CountsBelow(R, FeesOf(p), p.nModFeesWithDescendants, M, U, V)
        /\ CountsAbove(S, Ones, p.nCountWithAncestors, M, U, V)
        /\ CountsAbove(S, FeesOf(p), p.nModFeesWithAncestors, M, U, V)
        /\ \A x \in Txs \ M : p.nCountWithDescendants[x] = 0 /\ p.nModFeesWithDescendants[x] = 0
    BY <1>1 DEF Counted, R, S, M
  <2>2. /\ Ones \in [Txs -> Int] /\ FeesOf(p) \in [Txs -> Int] /\ Ones[t] = 1
        /\ p.nCountWithDescendants \in [Txs -> Int] /\ p.nModFeesWithDescendants \in [Txs -> Int]
        /\ p.nCountWithAncestors \in [Txs -> Int] /\ p.nModFeesWithAncestors \in [Txs -> Int]
    <3>1. Ones[t] = 1
      BY <1>2 DEF Ones
    <3> QED
      BY <1>1, <3>1, OnesType, FeesType, PoolFields
  <2>3. /\ CountsBelow(q.children, Ones, q.nCountWithDescendants, M, U \ {t}, V)
        /\ CountsBelow(q.children, FeesOf(p), q.nModFeesWithDescendants, M, U \ {t}, V)
    BY <1>6, <1>18, <2>1, <2>2
  <2>4. /\ CountsAbove(q.parents, Ones, q.nCountWithAncestors, M, U \ {t}, V)
        /\ CountsAbove(q.parents, FeesOf(p), q.nModFeesWithAncestors, M, U \ {t}, V)
    BY <1>6, <1>19, <2>1, <2>2
  <2>5. \A x \in Txs \ M : q.nCountWithDescendants[x] = 0 /\ q.nModFeesWithDescendants[x] = 0
    BY <1>2, <1>6, <2>1, <2>2
  <2> QED
    BY <1>5, <1>7, <2>3, <2>4, <2>5 DEF Counted, M
<1> QED
  BY <1>5, <1>10, <1>11, <1>12, <1>20 DEF Midway, q

\* No transaction of v spends from itself or from a later one.
InOrder(v) == \A i, j \in DOMAIN v : i <= j => v[j] \notin Inputs(v[i])

\* What DisconnectTip left is where UpdateTransactionsFromBlock starts.
LEMMA MidwayStarts ==
    ASSUME NEW p, NEW C, NEW V, PoolOK(p, C, V, {}), DeltasOK(p)
    PROVE  Midway(p, C, V, V)
<1>1. /\ Sound(p) /\ LinkedBut(p, V) /\ p.mapTx \cap C = {} /\ Available(p, C, {})
      /\ V \subseteq p.mapTx /\ \A v \in V : Inputs(v) \cap p.mapTx \subseteq V
  BY DEF PoolOK
<1>2. p \in Pools /\ Linked(p) /\ NextTxExact(p) /\ Totals(p)
  BY <1>1 DEF Sound
<1>3. LinkedMid(p, V, V) /\ Rooted(p, V)
  BY <1>1 DEF LinkedBut, LinkedMid, Rooted
<1> DEFINE R == p.children
           S == p.parents
           M == p.mapTx
<1>4. /\ R \in Relations /\ S \in Relations /\ M \in SUBSET Txs /\ V \in SUBSET Txs
      /\ \A x, y \in Txs : y \in S[x] <=> x \in R[y]
      /\ \A x \in Txs : S[x] \subseteq M /\ R[x] \subseteq M
  BY <1>1, <1>2, LinkFacts, PoolFields
<1>5. \A x \in M : S[x] = (Inputs(x) \cap M) \ (IF x \in V THEN {} ELSE V)
  BY <1>1 DEF LinkedBut
<1> HIDE DEF R, S, M
<1>6. ASSUME NEW x \in V
      PROVE  Closure(R, {x}) \cap V = Closure(R, {x})
  <2>1. ASSUME NEW a \in V, NEW b \in R[a]
        PROVE  b \in V
    <3>1. a \in Txs /\ b \in Txs /\ b \in M
      BY <1>4
    <3>2. a \in S[b]
      BY <1>4, <3>1
    <3> QED
      BY <1>5, <3>1, <3>2
  <2>2. {x} \subseteq V /\ \A a \in V : R[a] \subseteq V
    BY <2>1
  <2>3. Closure(R, {x}) \subseteq V
    BY <1>4, <2>2, ClosureLeast
  <2> QED
    BY <2>3
<1>7. ASSUME NEW x \in M \ V
      PROVE  Closure(S, {x}) \ V = Closure(S, {x})
  <2>1. M \ V \in SUBSET Txs /\ {x} \subseteq M \ V /\ \A a \in M \ V : S[a] \subseteq M \ V
    BY <1>4, <1>5
  <2>2. Closure(S, {x}) \subseteq M \ V
    BY <2>1, ClosureLeast
  <2> QED
    BY <2>2
<1>8. ASSUME NEW w, NEW f, Exact(R, w, f, M)
      PROVE  CountsBelow(R, w, f, M, V, V)
  <2> SUFFICES ASSUME NEW x \in M
               PROVE  f[x] = SumFunctionOnSet(w, IF x \in V THEN Closure(R, {x}) \cap V
                                                 ELSE Closure(R, {x}))
    BY DEF CountsBelow
  <2>1. f[x] = SumFunctionOnSet(w, Closure(R, {x}))
    BY <1>8 DEF Exact
  <2>2. (IF x \in V THEN Closure(R, {x}) \cap V ELSE Closure(R, {x})) = Closure(R, {x})
    BY <1>6
  <2> QED
    BY <2>1, <2>2
<1>9. ASSUME NEW w, NEW f, Exact(S, w, f, M)
      PROVE  CountsAbove(S, w, f, M, V, V)
  <2> SUFFICES ASSUME NEW x \in M
               PROVE  f[x] = SumFunctionOnSet(w, IF x \in V THEN Closure(S, {x})
                                                 ELSE Closure(S, {x}) \ V)
    BY DEF CountsAbove
  <2>1. f[x] = SumFunctionOnSet(w, Closure(S, {x}))
    BY <1>9 DEF Exact
  <2>2. (IF x \in V THEN Closure(S, {x}) ELSE Closure(S, {x}) \ V) = Closure(S, {x})
    BY <1>7
  <2> QED
    BY <2>1, <2>2
<1>10. Counted(p, V, V)
  <2>1. /\ Exact(R, Ones, p.nCountWithDescendants, M)
        /\ Exact(R, FeesOf(p), p.nModFeesWithDescendants, M)
        /\ Exact(S, Ones, p.nCountWithAncestors, M)
        /\ Exact(S, FeesOf(p), p.nModFeesWithAncestors, M)
        /\ \A t \in Txs \ M : p.nCountWithDescendants[t] = 0 /\ p.nModFeesWithDescendants[t] = 0
    BY <1>2 DEF Totals, R, S, M
  <2>2. /\ CountsBelow(R, Ones, p.nCountWithDescendants, M, V, V)
        /\ CountsBelow(R, FeesOf(p), p.nModFeesWithDescendants, M, V, V)
        /\ CountsAbove(S, Ones, p.nCountWithAncestors, M, V, V)
        /\ CountsAbove(S, FeesOf(p), p.nModFeesWithAncestors, M, V, V)
    BY <1>8, <1>9, <2>1
  <2> QED
    BY <2>1, <2>2 DEF Counted, R, S, M
<1> QED
  BY <1>1, <1>2, <1>3, <1>10 DEF Midway

\* When none is left to take, the pool is right.
LEMMA MidwayEnds ==
    ASSUME NEW p, NEW C, NEW V, Midway(p, C, V, {})
    PROVE  p \in Fine(C)
<1>1. /\ p \in Pools /\ Linked(p) /\ NextTxExact(p) /\ DeltasOK(p)
      /\ p.mapTx \cap C = {} /\ Available(p, C, {})
      /\ LinkedMid(p, V, {}) /\ Counted(p, V, {})
  BY DEF Midway
<1>2. LinkedBut(p, {})
  BY <1>1 DEF LinkedMid, LinkedBut
<1>3. ASSUME NEW R, NEW w, NEW f, NEW M, CountsBelow(R, w, f, M, {}, V)
      PROVE  Exact(R, w, f, M)
  BY <1>3 DEF CountsBelow, Exact
<1>4. ASSUME NEW R, NEW w, NEW f, NEW M, CountsAbove(R, w, f, M, {}, V)
      PROVE  Exact(R, w, f, M)
  <2> SUFFICES ASSUME NEW x \in M
               PROVE  f[x] = SumFunctionOnSet(w, Closure(R, {x}))
    BY DEF Exact
  <2>1. f[x] = SumFunctionOnSet(w, IF x \in V THEN Closure(R, {x}) ELSE Closure(R, {x}) \ {})
    BY <1>4 DEF CountsAbove
  <2>2. (IF x \in V THEN Closure(R, {x}) ELSE Closure(R, {x}) \ {}) = Closure(R, {x})
    OBVIOUS
  <2> QED
    BY <2>1, <2>2
<1>5. Totals(p)
  BY <1>1, <1>3, <1>4 DEF Counted, Totals
<1>6. Sound(p)
  BY <1>1, <1>5 DEF Sound
<1>7. PoolOK(p, C, {}, {})
  BY <1>1, <1>2, <1>6 DEF PoolOK
<1> QED
  BY <1>1, <1>7 DEF Fine

\* UpdateTransactionsFromBlock restores all links and totals.
LEMMA BlockTied ==
    ASSUME NEW p, NEW C, NEW v \in Seq(Txs), PoolOK(p, C, Range(v), {}), DeltasOK(p),
           IsInjective(v), InOrder(v)
    PROVE  UpdateTransactionsFromBlock(p, v) \in Fine(C)
<1> DEFINE n == Len(v)
           V == Range(v)
           U(i) == {v[j] : j \in 1..(n - i)}
           tie(i) == v[n + 1 - i]
           OK(i, q) == Midway(q, C, V, U(i))
           G == [i \in 0..n |-> {q \in Pools : OK(i, q)}]
           F == [i \in 1..n |-> [q \in Pools |-> UpdateForDescendants(q, tie(i), V)]]
           g == CHOOSE f : f = [i \in 0..n |-> IF i = 0 THEN p
                                               ELSE UpdateForDescendants(f[i - 1], tie(i), V)]
<1>1. n \in Nat /\ DOMAIN v = 1..n /\ V = {v[j] : j \in 1..n}
  BY SMT DEF Range
<1>2. UpdateTransactionsFromBlock(p, v) = g[n]
  BY DEF UpdateTransactionsFromBlock
<1> HIDE DEF n, V
<1>3. U(0) = V /\ U(n) = {}
  BY SMT, <1>1
<1>4. \A i \in 1..n : /\ U(i - 1) \in SUBSET V
                      /\ tie(i) \in U(i - 1) /\ U(i) = U(i - 1) \ {tie(i)}
  <2> TAKE i \in 1..n
  <2>1. n - (i - 1) = n + 1 - i /\ n - i \in Nat /\ n - i = (n + 1 - i) - 1
    BY SMT, <1>1
  <2>2. n + 1 - i \in 1..n
    BY SMT, <1>1
  <2> DEFINE k == n + 1 - i
  <2>3. U(i - 1) = {v[j] : j \in 1..k} /\ U(i) = {v[j] : j \in 1..(k - 1)} /\ tie(i) = v[k]
    BY <2>1
  <2>4. k \in 1..n
    BY <2>2
  <2> HIDE DEF k, U, tie
  <2>5. \A a, b \in 1..n : v[a] = v[b] => a = b
    BY <1>1 DEF IsInjective
  <2>6. 1..k = (1..(k - 1)) \cup {k} /\ k \notin 1..(k - 1) /\ 1..k \subseteq 1..n
    BY SMT, <1>1, <2>4
  <2> QED
    BY SMTT(20), <1>1, <2>3, <2>4, <2>5, <2>6
<1>5. \A i \in 1..n : \A q : Rooted(q, V) => Rooted(q, U(i - 1))
  <2> SUFFICES ASSUME NEW i \in 1..n, NEW q, Rooted(q, V), NEW j \in 1..(n - (i - 1)),
                      NEW z \in Inputs(v[j]) \cap q.mapTx
               PROVE  z \in U(i - 1)
    BY <1>4 DEF Rooted
  <2>1. j \in 1..n
    BY SMT, <1>1
  <2>2. v[j] \in V
    BY <1>1, <2>1
  <2>3. z \in V
    BY <2>2 DEF Rooted
  <2>4. PICK k \in 1..n : z = v[k]
    BY <1>1, <2>3
  <2>5. k < j
    <3>1. j <= k => v[k] \notin Inputs(v[j])
      BY <1>1, <2>1 DEF InOrder
    <3> QED
      BY SMTT(20), <1>1, <2>1, <2>4, <3>1
  <2>6. k \in 1..(n - (i - 1))
    BY SMT, <1>1, <2>5
  <2> QED
    BY <2>4, <2>6
<1> HIDE DEF U, tie
<1>6. \A q, i : OK(i, q) => q \in Pools
  BY DEF Midway
<1>7. p \in G[0]
  <2>1. OK(0, p)
    BY <1>3, MidwayStarts DEF V
  <2>2. 0 \in 0..n
    BY SMT, <1>1
  <2> HIDE DEF OK
  <2> QED
    BY <1>6, <2>1, <2>2
<1>8. \A i \in 1..n : \A q \in G[i - 1] : UpdateForDescendants(q, tie(i), V) \in G[i]
  <2> SUFFICES ASSUME NEW i \in 1..n, NEW q \in G[i - 1]
               PROVE  UpdateForDescendants(q, tie(i), V) \in G[i]
    OBVIOUS
  <2> DEFINE r == UpdateForDescendants(q, tie(i), V)
  <2>1. i \in 0..n /\ i - 1 \in 0..n
    BY SMT, <1>1
  <2>2. OK(i - 1, q)
    <3> HIDE DEF OK
    <3> QED
      BY <2>1
  <2>3. OK(i, r)
    <3>1. Midway(q, C, V, U(i - 1)) /\ Rooted(q, U(i - 1))
      BY <1>5, <2>2 DEF Midway
    <3>2. U(i - 1) \in SUBSET V /\ tie(i) \in U(i - 1) /\ U(i) = U(i - 1) \ {tie(i)}
      BY <1>4
    <3>3. Midway(r, C, V, U(i - 1) \ {tie(i)})
      BY ONLY <3>1, <3>2, TieStep, Zenon
    <3> QED
      BY <3>2, <3>3
  <2> HIDE DEF OK, r
  <2>4. r \in G[i]
    BY <1>6, <2>1, <2>3
  <2> QED
    BY <2>4 DEF r
<1>9. \A i \in 0..n : G[i] \subseteq Pools
  OBVIOUS
<1> HIDE DEF G
<1>10. \A i \in 1..n : \A q \in Pools : F[i][q] = UpdateForDescendants(q, tie(i), V)
  OBVIOUS
<1> HIDE DEF F
<1>11. 0 \in 0..n /\ \A i \in 1..n : i # 0 /\ i \in 0..n /\ i - 1 \in 0..n
  BY SMT, <1>1
<1>12. PICK h : Runs(p, F, n, h) /\ \A i \in 0..n : h[i] \in G[i]
  <2>1. \A i \in 1..n : \A q \in G[i - 1] : F[i][q] \in G[i]
    BY <1>8, <1>9, <1>10, <1>11
  <2> QED
    BY <1>1, <1>7, <2>1, LoopEnds
<1>13. h = [i \in 0..n |-> IF i = 0 THEN p ELSE UpdateForDescendants(h[i - 1], tie(i), V)]
  <2>1. \A i \in 0..n : h[i] = IF i = 0 THEN p ELSE F[i][h[i - 1]]
    BY <1>12 DEF Runs
  <2>2. \A i \in 0..n : i # 0 => i \in 1..n /\ i - 1 \in 0..n
    BY SMT, <1>1
  <2>3. \A i \in 0..n : h[i] = IF i = 0 THEN p ELSE UpdateForDescendants(h[i - 1], tie(i), V)
    BY <1>9, <1>10, <1>12, <2>1, <2>2
  <2>4. h = [i \in 0..n |-> h[i]]
    BY <1>12 DEF Runs
  <2> QED
    BY <2>3, <2>4
<1>14. g = [i \in 0..n |-> IF i = 0 THEN p ELSE UpdateForDescendants(g[i - 1], tie(i), V)]
  BY <1>13
<1> HIDE DEF g
<1>15. \A i \in 0..n : g[i] = IF i = 0 THEN p ELSE UpdateForDescendants(g[i - 1], tie(i), V)
  BY <1>14
<1>16. \A i \in 0..n : g[i] \in G[i]
  <2>1. g[0] \in G[0]
    BY <1>7, <1>11, <1>15
  <2>2. \A i \in 1..n : g[i - 1] \in G[i - 1] => g[i] \in G[i]
    BY <1>8, <1>11, <1>15
  <2> QED
    BY <1>1, <2>1, <2>2, LoopKeeps
<1>17. OK(n, g[n])
  <2>1. n \in 0..n /\ g[n] \in G[n]
    BY SMTT(20), <1>1, <1>16
  <2> HIDE DEF OK
  <2> QED
    BY <2>1 DEF G
<1>18. Midway(g[n], C, V, {})
  BY <1>3, <1>17
<1> QED
  BY <1>2, <1>18, MidwayEnds

-----------------------------------------------------------------------------
(* The chain and the disconnected block                                    *)

\* What the blocks of c before the i-th confirm.
Below(c, i) == UNION {Range(c[j]) : j \in 1..(i - 1)}

Whole(c) == Below(c, Len(c) + 1)

ChainIs(c) ==
    /\ c \in Seq(Seq(Txs))
    /\ \A i \in DOMAIN c : ValidOn(Below(c, i), c[i])
    /\ \A i \in 1..(Len(c) + 1) : Closed(Below(c, i))

\* The confirmed transactions are those of all blocks.
LEMMA WholeIs ==
    ASSUME NEW c \in Seq(Seq(Txs))
    PROVE  Whole(c) = UNION {Range(c[i]) : i \in DOMAIN c}
<1>1. DOMAIN c = 1..Len(c) /\ Len(c) \in Nat
  BY SMT
<1>2. (Len(c) + 1) - 1 = Len(c)
  BY SMT, <1>1
<1> QED
  BY <1>1, <1>2 DEF Whole, Below

\* Below reads only the first blocks.
LEMMA BelowSame ==
    ASSUME NEW c, NEW d, NEW i \in Nat, \A j \in 1..(i - 1) : c[j] = d[j]
    PROVE  Below(c, i) = Below(d, i)
<1> DEFINE I == 1..(i - 1)
<1>1. \A j \in I : Range(c[j]) = Range(d[j])
  OBVIOUS
<1> HIDE DEF I
<1>2. UNION {Range(c[j]) : j \in I} = UNION {Range(d[j]) : j \in I}
  BY <1>1
<1> QED
  BY <1>2 DEF Below, I

\* One more block confirms its transactions.
LEMMA BelowNext ==
    ASSUME NEW c, NEW i \in Nat, i > 0
    PROVE  Below(c, i + 1) = Below(c, i) \cup Range(c[i])
<1> DEFINE I == 1..(i - 1)
           J == 1..((i + 1) - 1)
<1>1. J = I \cup {i}
  BY SMT
<1> HIDE DEF I, J
<1>2. UNION {Range(c[j]) : j \in J} = (UNION {Range(c[j]) : j \in I}) \cup Range(c[i])
  <2> DEFINE X == UNION {Range(c[j]) : j \in J}
             Y == UNION {Range(c[j]) : j \in I}
  <2>1. ASSUME NEW y
        PROVE  y \in X <=> y \in Y \/ y \in Range(c[i])
    <3>1. y \in X <=> \E j \in J : y \in Range(c[j])
      OBVIOUS
    <3>2. y \in Y <=> \E j \in I : y \in Range(c[j])
      OBVIOUS
    <3> QED
      BY <1>1, <3>1, <3>2
  <2> HIDE DEF X, Y
  <2>2. X = Y \cup Range(c[i])
    BY <2>1
  <2> QED
    BY <2>2 DEF X, Y
<1> QED
  BY <1>2 DEF Below, I, J

\* ConnectTip.
LEMMA ChainGrows ==
    ASSUME NEW c, ChainIs(c), NEW v \in Seq(Txs), ValidOn(Whole(c), v), Closed(Whole(c) \cup Range(v))
    PROVE  ChainIs(Append(c, v)) /\ Whole(Append(c, v)) = Whole(c) \cup Range(v)
<1> DEFINE d == Append(c, v)
           n == Len(c)
<1>1. c \in Seq(Seq(Txs)) /\ n \in Nat /\ DOMAIN c = 1..n
  BY SMT DEF ChainIs
<1>2. /\ d \in Seq(Seq(Txs)) /\ Len(d) = n + 1 /\ DOMAIN d = 1..(n + 1)
      /\ d[n + 1] = v /\ \A j \in 1..n : d[j] = c[j]
  BY SMT, <1>1
<1> HIDE DEF d, n
<1>3. \A i \in 1..(n + 1) : Below(d, i) = Below(c, i)
  <2> SUFFICES ASSUME NEW i \in 1..(n + 1)
               PROVE  Below(d, i) = Below(c, i)
    OBVIOUS
  <2>1. i \in Nat /\ \A j \in 1..(i - 1) : j \in 1..n
    BY SMT, <1>1
  <2>2. \A j \in 1..(i - 1) : d[j] = c[j]
    BY <1>2, <2>1
  <2> QED
    BY <2>1, <2>2, BelowSame
<1>4. Below(d, (n + 1) + 1) = Whole(c) \cup Range(v)
  <2>1. n + 1 \in Nat /\ n + 1 > 0 /\ n + 1 \in 1..(n + 1)
    BY SMT, <1>1
  <2>2. Below(d, (n + 1) + 1) = Below(d, n + 1) \cup Range(d[n + 1])
    BY <2>1, BelowNext
  <2> QED
    BY <1>2, <1>3, <2>1, <2>2 DEF Whole, n
<1>5. Whole(d) = Whole(c) \cup Range(v)
  BY <1>2, <1>4 DEF Whole
<1>6. \A i \in DOMAIN d : ValidOn(Below(d, i), d[i])
  <2> SUFFICES ASSUME NEW i \in 1..(n + 1)
               PROVE  ValidOn(Below(d, i), d[i])
    BY <1>2
  <2>1. CASE i \in 1..n
    BY <1>1, <1>2, <1>3, <2>1 DEF ChainIs
  <2>2. CASE i = n + 1
    <3>1. Below(d, i) = Whole(c) /\ d[i] = v
      BY <1>2, <1>3, <2>2 DEF Whole, n
    <3> QED
      BY <3>1
  <2> QED
    BY SMT, <1>1, <2>1, <2>2
<1>7. \A i \in 1..(Len(d) + 1) : Closed(Below(d, i))
  <2> SUFFICES ASSUME NEW i \in 1..((n + 1) + 1)
               PROVE  Closed(Below(d, i))
    BY <1>2
  <2>1. CASE i \in 1..(n + 1)
    BY <1>3, <2>1 DEF ChainIs, n
  <2>2. CASE i = (n + 1) + 1
    BY <1>4, <2>2
  <2> QED
    BY SMTT(20), <1>1, <2>1, <2>2
<1> QED
  BY <1>2, <1>5, <1>6, <1>7 DEF ChainIs, d

\* DisconnectTip.
LEMMA ChainShrinks ==
    ASSUME NEW c, ChainIs(c), c # <<>>
    PROVE  /\ ChainIs(SubSeq(c, 1, Len(c) - 1)) /\ c[Len(c)] \in Seq(Txs)
           /\ ValidOn(Whole(SubSeq(c, 1, Len(c) - 1)), c[Len(c)])
           /\ Closed(Whole(SubSeq(c, 1, Len(c) - 1)))
           /\ Whole(c) = Whole(SubSeq(c, 1, Len(c) - 1)) \cup Range(c[Len(c)])
<1> DEFINE d == SubSeq(c, 1, Len(c) - 1)
           n == Len(c)
<1>1. c \in Seq(Seq(Txs)) /\ n \in Nat /\ n > 0 /\ DOMAIN c = 1..n
  BY SMT DEF ChainIs
<1>2. /\ d \in Seq(Seq(Txs)) /\ Len(d) = n - 1 /\ DOMAIN d = 1..(n - 1)
      /\ \A j \in 1..(n - 1) : d[j] = c[j]
  BY SMT, <1>1
<1>3. c[Len(c)] = c[n] /\ n \in DOMAIN c /\ c[n] \in Seq(Txs)
  BY SMT, <1>1
<1> HIDE DEF d, n
<1>4. \A i \in 1..n : Below(d, i) = Below(c, i)
  <2> SUFFICES ASSUME NEW i \in 1..n
               PROVE  Below(d, i) = Below(c, i)
    OBVIOUS
  <2>1. i \in Nat /\ \A j \in 1..(i - 1) : j \in 1..(n - 1)
    BY SMT, <1>1
  <2>2. \A j \in 1..(i - 1) : d[j] = c[j]
    BY <1>2, <2>1
  <2> QED
    BY <2>1, <2>2, BelowSame
<1>5. Whole(d) = Below(c, n)
  <2>1. Len(d) + 1 = n /\ n \in 1..n
    BY SMT, <1>1, <1>2
  <2> QED
    BY <1>4, <2>1 DEF Whole
<1>6. Whole(c) = Whole(d) \cup Range(c[Len(c)])
  BY <1>1, <1>3, <1>5, BelowNext DEF Whole, n
<1>7. ValidOn(Whole(d), c[Len(c)]) /\ Closed(Whole(d))
  <2>1. n \in 1..(n + 1)
    BY SMT, <1>1
  <2> QED
    BY <1>3, <1>5, <2>1 DEF ChainIs, n
<1>8. \A i \in DOMAIN d : ValidOn(Below(d, i), d[i])
  <2>1. \A i \in DOMAIN d : i \in 1..n /\ i \in DOMAIN c
    BY SMT, <1>1, <1>2
  <2> QED
    BY <1>2, <1>4, <2>1 DEF ChainIs
<1>9. \A i \in 1..(Len(d) + 1) : Closed(Below(d, i))
  <2>1. \A i \in 1..(Len(d) + 1) : i \in 1..n /\ i \in 1..(n + 1)
    BY SMTT(20), <1>1, <1>2
  <2> QED
    BY <1>4, <2>1 DEF ChainIs, n
<1> QED
  BY <1>2, <1>3, <1>6, <1>7, <1>8, <1>9 DEF ChainIs, d

\* No transaction of T conflicts with another of V or T, and none of V spends from T.
Apart(V, T) ==
    /\ \A a \in V, b \in T : Spends(a) \cap Spends(b) = {} /\ b \notin Inputs(a)
    /\ \A a, b \in T : a # b => Spends(a) \cap Spends(b) = {}

\* s are the transactions of the disconnected block still to be tried, v those that were
\* put back, C the confirmed ones, and M those in the pool.
BlockIs(s, v, C, M) ==
    /\ s \in Seq(Txs) /\ v \in Seq(Txs)
    /\ IsInjective(s) /\ IsInjective(v) /\ InOrder(s) /\ InOrder(v)
    /\ Range(s) \cap C = {}
    /\ Apart(Range(v), Range(s))
    /\ \A t \in Range(s) : Inputs(t) \cap M \subseteq Range(v)

\* When no block is being put back.
LEMMA NoBlock == ASSUME NEW C, NEW M PROVE BlockIs(<<>>, <<>>, C, M) /\ Range(<<>>) = {}
<1>1. <<>> \in Seq(Txs) /\ DOMAIN <<>> = {} /\ Range(<<>>) = {}
  BY SMT DEF Range
<1>2. IsInjective(<<>>) /\ InOrder(<<>>)
  BY <1>1 DEF IsInjective, InOrder
<1> HIDE DEF Range
<1> QED
  BY <1>1, <1>2 DEF BlockIs, Apart

\* The members of a sequence of transactions.
LEMMA RangeIs ==
    ASSUME NEW s \in Seq(Txs)
    PROVE  /\ Len(s) \in Nat /\ DOMAIN s = 1..Len(s) /\ Range(s) = {s[i] : i \in 1..Len(s)}
           /\ Range(s) \in SUBSET Txs
  BY SMT DEF Range

\* The transactions of a block spend what is confirmed or comes before them.
LEMMA BlockInputs ==
    ASSUME NEW C, NEW v \in Seq(Txs), ValidOn(C, v), NEW i \in 1..Len(v)
    PROVE  /\ v[i] \in Txs /\ v[i] \notin C
           /\ Inputs(v[i]) \subseteq Before(C, v, i) \cup {Base}
           /\ \A j \in 1..Len(v) : j < i => Spends(v[i]) \cap Spends(v[j]) = {}
<1>1. i \in DOMAIN v /\ v[i] \in Txs /\ Len(v) \in Nat
  BY SMT
<1>2. v[i] \notin Before(C, v, i) /\ Spends(v[i]) \subseteq Unspent(Before(C, v, i))
  BY <1>1 DEF ValidOn
<1>3. v[i] \notin C
  BY <1>2 DEF Before
<1>4. Inputs(v[i]) \subseteq Before(C, v, i) \cup {Base}
  <2> SUFFICES ASSUME NEW o \in Spends(v[i])
               PROVE  o[1] \in Before(C, v, i) \cup {Base}
    BY DEF Inputs
  <2> QED
    BY <1>2 DEF Unspent
<1>5. ASSUME NEW j \in 1..Len(v), j < i
      PROVE  Spends(v[i]) \cap Spends(v[j]) = {}
  <2>1. j \in 1..(i - 1)
    BY SMT, <1>1, <1>5
  <2>2. v[j] \in Before(C, v, i)
    BY <2>1 DEF Before
  <2> HIDE DEF Before
  <2> QED
    BY <1>2, <2>2 DEF Unspent
<1> QED
  BY <1>1, <1>3, <1>4, <1>5

\* DisconnectTip: the transactions of the block do not conflict, and come in order.
LEMMA BlockUndone ==
    ASSUME NEW C, NEW v \in Seq(Txs), ValidOn(C, v), C \in SUBSET Txs,
           NEW M \in SUBSET Txs, M \cap (C \cup Range(v)) = {}
    PROVE  BlockIs(v, <<>>, C, M)
<1>1. Len(v) \in Nat /\ DOMAIN v = 1..Len(v) /\ Range(v) = {v[i] : i \in 1..Len(v)}
  BY RangeIs
<1>2. \A i, j \in 1..Len(v) : v[i] = v[j] => i = j
  BY <1>1 DEF ValidOn, IsInjective
<1>3. \A i \in 1..Len(v) :
         /\ v[i] \in Txs /\ v[i] \notin C
         /\ Inputs(v[i]) \subseteq Before(C, v, i) \cup {Base}
         /\ \A j \in 1..Len(v) : j < i => Spends(v[i]) \cap Spends(v[j]) = {}
  BY BlockInputs
<1>4. InOrder(v)
  <2> SUFFICES ASSUME NEW i \in 1..Len(v), NEW j \in 1..Len(v), i <= j
               PROVE  v[j] \notin Before(C, v, i) \cup {Base}
    BY <1>1, <1>3 DEF InOrder
  <2>1. \A k \in 1..(i - 1) : k \in 1..Len(v) /\ k # j
    BY SMT, <1>1
  <2>2. \A k \in 1..(i - 1) : v[k] # v[j]
    BY <1>2, <2>1
  <2>3. v[j] # Base
    BY <1>3, MempoolAssumption
  <2> QED
    BY <1>3, <2>2, <2>3 DEF Before
<1>5. Range(v) \cap C = {}
  BY <1>1, <1>3
<1>6. Apart({}, Range(v))
  <2> SUFFICES ASSUME NEW i \in 1..Len(v), NEW j \in 1..Len(v), v[i] # v[j]
               PROVE  Spends(v[i]) \cap Spends(v[j]) = {}
    BY <1>1 DEF Apart
  <2>1. i < j \/ j < i
    BY SMT, <1>1
  <2> QED
    BY <1>3, <2>1
<1>7. \A t \in Range(v) : Inputs(t) \cap M \subseteq {}
  <2> SUFFICES ASSUME NEW i \in 1..Len(v), NEW z \in Inputs(v[i]), z \in M
               PROVE  FALSE
    BY <1>1
  <2>1. z \in Before(C, v, i) \/ z = Base
    BY <1>3
  <2>2. \A k \in 1..(i - 1) : v[k] \in Range(v)
    <3>1. \A k \in 1..(i - 1) : k \in 1..Len(v)
      BY SMT, <1>1
    <3> QED
      BY <1>1, <3>1
  <2>3. z \in C \cup Range(v) \/ z = Base
    BY <2>1, <2>2 DEF Before
  <2> QED
    BY <2>3, MempoolAssumption
<1>8. <<>> \in Seq(Txs) /\ IsInjective(<<>>) /\ InOrder(<<>>) /\ Range(<<>>) = {}
  BY NoBlock DEF BlockIs
<1>9. IsInjective(v)
  BY DEF ValidOn
<1> QED
  BY <1>4, <1>5, <1>6, <1>7, <1>8, <1>9 DEF BlockIs

\* DisconnectTip: what the pool spends of the block is yet to be tried.
LEMMA PoolUndone ==
    ASSUME NEW p, NEW C, NEW T \in SUBSET Txs, PoolOK(p, C \cup T, {}, {})
    PROVE  PoolOK(p, C, {}, T)
<1>1. /\ Sound(p) /\ LinkedBut(p, {}) /\ p.mapTx \cap (C \cup T) = {} /\ Available(p, C \cup T, {})
  BY DEF PoolOK
<1>2. Available(p, C, T)
  <2> SUFFICES ASSUME NEW t \in p.mapTx, NEW o \in Spends(t), o \in Unspent(C \cup T), o[1] \notin T
               PROVE  o \in Unspent(C)
    BY <1>1 DEF Available
  <2> QED
    BY DEF Unspent
<1> QED
  BY <1>1, <1>2 DEF PoolOK

\* The first of the transactions still to be tried.
LEMMA HeadFacts ==
    ASSUME NEW s \in Seq(Txs), s # <<>>, IsInjective(s), InOrder(s)
    PROVE  /\ Head(s) \in Txs /\ Head(s) \in Range(s)
           /\ Tail(s) \in Seq(Txs) /\ IsInjective(Tail(s)) /\ InOrder(Tail(s))
           /\ Range(Tail(s)) = Range(s) \ {Head(s)}
           /\ \A t \in Range(s) : t \notin Inputs(Head(s))
<1> DEFINE n == Len(s)
           h == Head(s)
           r == Tail(s)
<1>1. /\ n \in Nat /\ n > 0 /\ DOMAIN s = 1..n /\ Range(s) = {s[i] : i \in 1..n}
  BY SMT, RangeIs
<1>2. /\ h = s[1] /\ r \in Seq(Txs) /\ Len(r) = n - 1 /\ h \in Txs
      /\ \A i \in 1..(n - 1) : r[i] = s[i + 1]
  BY SMT
<1>3. DOMAIN r = 1..(n - 1) /\ Range(r) = {r[i] : i \in 1..(n - 1)}
  BY <1>2, RangeIs
<1> HIDE DEF n, h, r
<1>4. \A i, j \in 1..n : s[i] = s[j] => i = j
  BY <1>1 DEF IsInjective
<1>5. \A i, j \in 1..n : i <= j => s[j] \notin Inputs(s[i])
  BY <1>1 DEF InOrder
<1>6. \A i \in 1..(n - 1) : i + 1 \in 1..n /\ i + 1 # 1
  BY SMT, <1>1
<1>7. IsInjective(r)
  <2> SUFFICES ASSUME NEW i \in 1..(n - 1), NEW j \in 1..(n - 1), r[i] = r[j]
               PROVE  i = j
    BY <1>3 DEF IsInjective
  <2>1. i + 1 = j + 1
    BY <1>2, <1>4, <1>6
  <2> QED
    BY SMT, <1>1, <2>1
<1>8. InOrder(r)
  <2> SUFFICES ASSUME NEW i \in 1..(n - 1), NEW j \in 1..(n - 1), i <= j
               PROVE  r[j] \notin Inputs(r[i])
    BY <1>3 DEF InOrder
  <2>1. i + 1 <= j + 1
    BY SMT, <1>1
  <2> QED
    BY <1>2, <1>5, <1>6, <2>1
<1>9. 1 \in 1..n /\ \A i \in 1..n : 1 <= i
  BY SMT, <1>1
<1>10. Range(r) = Range(s) \ {h}
  <2>1. ASSUME NEW y \in Range(r)
        PROVE  y \in Range(s) /\ y # h
    <3>1. PICK i \in 1..(n - 1) : y = r[i]
      BY <1>3
    <3>2. y = s[i + 1] /\ i + 1 \in 1..n /\ i + 1 # 1
      BY <1>2, <1>6, <3>1
    <3> QED
      BY <1>1, <1>2, <1>4, <1>9, <3>2
  <2>2. ASSUME NEW y \in Range(s), y # h
        PROVE  y \in Range(r)
    <3>1. PICK i \in 1..n : y = s[i]
      BY <1>1
    <3>2. i # 1
      BY <1>2, <2>2, <3>1
    <3>3. i - 1 \in 1..(n - 1) /\ (i - 1) + 1 = i
      BY SMT, <1>1, <3>2
    <3>4. r[i - 1] = y
      BY <1>2, <3>1, <3>3
    <3> QED
      BY <1>3, <3>3, <3>4
  <2> QED
    BY <2>1, <2>2
<1>11. \A t \in Range(s) : t \notin Inputs(h)
  BY <1>1, <1>2, <1>5, <1>9
<1>12. h \in Range(s)
  BY <1>1, <1>2, <1>9
<1> QED
  BY <1>2, <1>7, <1>8, <1>10, <1>11, <1>12 DEF h, r

\* A transaction put back comes last.
LEMMA AppendFacts ==
    ASSUME NEW v \in Seq(Txs), IsInjective(v), InOrder(v), NEW t \in Txs, t \notin Range(v),
           \A x \in Range(v) \cup {t} : t \notin Inputs(x)
    PROVE  /\ Append(v, t) \in Seq(Txs) /\ IsInjective(Append(v, t)) /\ InOrder(Append(v, t))
           /\ Range(Append(v, t)) = Range(v) \cup {t}
<1> DEFINE n == Len(v)
           r == Append(v, t)
<1>1. n \in Nat /\ DOMAIN v = 1..n /\ Range(v) = {v[i] : i \in 1..n}
  BY RangeIs
<1>2. /\ r \in Seq(Txs) /\ Len(r) = n + 1 /\ r[n + 1] = t
      /\ \A i \in 1..n : r[i] = v[i]
  BY SMT
<1>3. DOMAIN r = 1..(n + 1) /\ Range(r) = {r[i] : i \in 1..(n + 1)}
  BY <1>2, RangeIs
<1> HIDE DEF n, r
<1>4. 1..(n + 1) = (1..n) \cup {n + 1} /\ n + 1 \notin 1..n /\ \A i \in 1..n : ~(n + 1 <= i)
  BY SMT, <1>1
<1>5. Range(r) = Range(v) \cup {t}
  BY SMTT(20), <1>1, <1>2, <1>3, <1>4
<1>6. \A i \in 1..n : v[i] # t /\ t \notin Inputs(v[i])
  BY <1>1
<1>7. IsInjective(r)
  <2>1. \A i, j \in 1..n : v[i] = v[j] => i = j
    BY <1>1 DEF IsInjective
  <2> QED
    BY SMTT(20), <1>2, <1>3, <1>4, <1>6, <2>1 DEF IsInjective
<1>8. InOrder(r)
  <2>1. \A i, j \in 1..n : i <= j => v[j] \notin Inputs(v[i])
    BY <1>1 DEF InOrder
  <2> SUFFICES ASSUME NEW i \in 1..(n + 1), NEW j \in 1..(n + 1), i <= j
               PROVE  r[j] \notin Inputs(r[i])
    BY <1>3 DEF InOrder
  <2>2. CASE j \in 1..n
    <3>1. i \in 1..n
      BY SMTT(20), <1>1, <2>2
    <3> QED
      BY <1>2, <2>1, <2>2, <3>1
  <2>3. CASE j = n + 1
    <3>1. i \in 1..n \/ i = n + 1
      BY SMT, <1>1
    <3> QED
      BY <1>2, <1>6, <2>3, <3>1
  <2> QED
    BY <1>4, <2>2, <2>3
<1> QED
  BY <1>2, <1>5, <1>7, <1>8 DEF r

\* Resurrect puts the first one back.
LEMMA BlockPutBack ==
    ASSUME NEW s, NEW v, NEW C, NEW M, NEW N, BlockIs(s, v, C, M), s # <<>>,
           Range(v) \cap Range(s) = {}, N \subseteq M \cup {Head(s)}
    PROVE  /\ BlockIs(Tail(s), Append(v, Head(s)), C, N)
           /\ Range(Append(v, Head(s))) = Range(v) \cup {Head(s)}
           /\ Range(Tail(s)) = Range(s) \ {Head(s)}
<1> DEFINE h == Head(s)
<1>1. /\ s \in Seq(Txs) /\ v \in Seq(Txs)
      /\ IsInjective(s) /\ IsInjective(v) /\ InOrder(s) /\ InOrder(v)
      /\ Range(s) \cap C = {}
      /\ Apart(Range(v), Range(s))
      /\ \A t \in Range(s) : Inputs(t) \cap M \subseteq Range(v)
  BY DEF BlockIs
<1>2. /\ h \in Txs /\ h \in Range(s)
      /\ Tail(s) \in Seq(Txs) /\ IsInjective(Tail(s)) /\ InOrder(Tail(s))
      /\ Range(Tail(s)) = Range(s) \ {h}
      /\ \A t \in Range(s) : t \notin Inputs(h)
  BY <1>1, HeadFacts
<1> HIDE DEF h
<1>3. h \notin Range(v) /\ \A x \in Range(v) \cup {h} : h \notin Inputs(x)
  BY <1>1, <1>2 DEF Apart
<1>4. /\ Append(v, h) \in Seq(Txs) /\ IsInjective(Append(v, h)) /\ InOrder(Append(v, h))
      /\ Range(Append(v, h)) = Range(v) \cup {h}
  BY <1>1, <1>2, <1>3, AppendFacts
<1>5. Apart(Range(v) \cup {h}, Range(s) \ {h})
  BY <1>1, <1>2 DEF Apart
<1>6. \A t \in Range(s) \ {h} : Inputs(t) \cap N \subseteq Range(v) \cup {h}
  BY <1>1 DEF h
<1>7. (Range(s) \ {h}) \cap C = {}
  BY <1>1
<1>8. BlockIs(Tail(s), Append(v, h), C, N)
  BY <1>2, <1>4, <1>5, <1>6, <1>7 DEF BlockIs
<1> QED
  BY <1>2, <1>4, <1>8 DEF h

\* Or gives it up.
LEMMA BlockNotPutBack ==
    ASSUME NEW s, NEW v, NEW C, NEW M, NEW N, BlockIs(s, v, C, M), s # <<>>, N \subseteq M
    PROVE  BlockIs(Tail(s), v, C, N) /\ Range(Tail(s)) = Range(s) \ {Head(s)}
<1> DEFINE h == Head(s)
<1>1. /\ s \in Seq(Txs) /\ v \in Seq(Txs)
      /\ IsInjective(s) /\ IsInjective(v) /\ InOrder(s) /\ InOrder(v)
      /\ Range(s) \cap C = {}
      /\ Apart(Range(v), Range(s))
      /\ \A t \in Range(s) : Inputs(t) \cap M \subseteq Range(v)
  BY DEF BlockIs
<1>2. /\ Tail(s) \in Seq(Txs) /\ IsInjective(Tail(s)) /\ InOrder(Tail(s))
      /\ Range(Tail(s)) = Range(s) \ {h}
  BY <1>1, HeadFacts
<1> HIDE DEF h
<1>3. Apart(Range(v), Range(s) \ {h})
  BY <1>1 DEF Apart
<1>4. (Range(s) \ {h}) \cap C = {} /\ \A t \in Range(s) \ {h} : Inputs(t) \cap N \subseteq Range(v)
  BY <1>1
<1> QED
  BY <1>1, <1>2, <1>3, <1>4 DEF BlockIs, h

\* The pool after PrioritiseTransaction.
AfterPrioritise(p, t, d) ==
    LET total == p.mapDeltas[t] + d
        r == WithDelta(p, t, total)
    IN IF t \notin p.mapTx THEN r ELSE Prioritised(r, t, total, total - p.feeDelta[t], d)

\* PrioritiseTransaction keeps all that is true of the pool, in every phase.
LEMMA PrioritisedOK ==
    ASSUME NEW p, NEW C, NEW V, NEW T, PoolOK(p, C, V, T), DeltasOK(p), NEW t \in Txs, NEW d \in Int
    PROVE  /\ PoolOK(AfterPrioritise(p, t, d), C, V, T) /\ DeltasOK(AfterPrioritise(p, t, d))
           /\ AfterPrioritise(p, t, d).mapTx = p.mapTx
<1> DEFINE total == p.mapDeltas[t] + d
           own == total - p.feeDelta[t]
           r == WithDelta(p, t, total)
           q == AfterPrioritise(p, t, d)
<1>0. q = IF t \notin p.mapTx THEN r ELSE Prioritised(r, t, total, own, d)
  BY DEF AfterPrioritise
<1>9. total = p.mapDeltas[t] + d /\ own = total - p.feeDelta[t]
  OBVIOUS
<1> HIDE DEF total, own, q
<1>1. p \in Pools
  BY DEF PoolOK, Sound
<1>2. /\ p.mapDeltas \in [Txs -> Int] /\ p.feeDelta \in [Txs -> Int]
      /\ total \in Int /\ own \in Int
  BY SMTT(20), <1>1, <1>9, PoolFields
<1>3. PoolOK(r, C, V, T) /\ DeltaIs(p, t, total, r)
  BY <1>2, OnlyDeltaOK
<1> HIDE DEF r
<1>5. /\ Sound(r) /\ r.mapTx = p.mapTx /\ r.parents = p.parents /\ r.feeDelta = p.feeDelta
      /\ r.mapDeltas = [p.mapDeltas EXCEPT ![t] = total]
  BY <1>3 DEF DeltaIs
<1>6. CASE t \notin p.mapTx
  <2>1. q = r
    BY <1>0, <1>6
  <2>2. \A x \in p.mapTx : r.mapDeltas[x] = p.mapDeltas[x]
    BY <1>1, <1>2, <1>5, <1>6, PoolFields
  <2>3. DeltasOK(r)
    BY <1>5, <2>2 DEF DeltasOK
  <2> QED
    BY <1>3, <1>5, <2>1, <2>3 DEF q
<1>7. CASE t \in p.mapTx
  <2>1. q = Prioritised(r, t, total, own, d)
    BY <1>0, <1>7
  <2>2. p.feeDelta[t] = p.mapDeltas[t]
    BY <1>7 DEF DeltasOK
  <2>3. own = d /\ total = r.feeDelta[t] + d
    BY SMTT(20), <1>2, <1>5, <1>9, <2>2
  <2>4. EntryShifted(r, t, total, q)
    <3>1. t \in r.mapTx
      BY <1>5, <1>7
    <3> QED
      BY ONLY <1>2, <1>5, <2>1, <2>3, <3>1, t \in Txs, d \in Int, PrioritisedSound, Zenon
  <2>5. /\ Sound(q) /\ q.mapTx = r.mapTx /\ q.parents = r.parents /\ q.mapDeltas = r.mapDeltas
        /\ q.feeDelta = [r.feeDelta EXCEPT ![t] = total]
    BY <2>4 DEF EntryShifted
  <2>6. PoolOK(q, C, V, T)
    BY ONLY <1>3, <2>5, Zenon DEF PoolOK, LinkedBut, Available
  <2>7. DeltasOK(q)
    <3>1. ASSUME NEW x \in p.mapTx
          PROVE  q.feeDelta[x] = q.mapDeltas[x]
      <4>1. x \in Txs /\ p.feeDelta[x] = p.mapDeltas[x]
        BY <1>1, PoolFields DEF DeltasOK
      <4> QED
        BY <1>2, <1>5, <2>5, <4>1
    <3> QED
      BY ONLY <1>5, <2>5, <3>1, Zenon DEF DeltasOK
  <2> QED
    BY <1>5, <2>5, <2>6, <2>7 DEF q
<1> QED
  BY <1>6, <1>7 DEF q

-----------------------------------------------------------------------------
(* The inductive invariant                                                 *)

\* p is the pool, c the chain, f the phase, s is todo and v is vHashUpdate.
StateOK(p, c, f, s, v) ==
    /\ f \in {"idle", "resurrect", "reorg"}
    /\ f # "resurrect" => s = <<>> /\ v = <<>>
    /\ ChainIs(c)
    /\ BlockIs(s, v, Whole(c), p.mapTx)
    /\ PoolOK(p, Whole(c), Range(v), Range(s)) /\ DeltasOK(p)

IInv == StateOK(pool, chain, phase, todo, vHashUpdate)

\* When no block is being put back.
LEMMA QuietIn ==
    ASSUME NEW p, NEW c, NEW f \in {"idle", "reorg"}, ChainIs(c), p \in Fine(Whole(c))
    PROVE  StateOK(p, c, f, <<>>, <<>>)
<1>1. BlockIs(<<>>, <<>>, Whole(c), p.mapTx) /\ Range(<<>>) = {}
  BY NoBlock
<1>2. PoolOK(p, Whole(c), {}, {}) /\ DeltasOK(p)
  BY DEF Fine
<1> HIDE DEF Range
<1> QED
  BY <1>1, <1>2 DEF StateOK

\* Outside of a reorganization the pool is right.
LEMMA QuietOut ==
    ASSUME NEW p, NEW c, NEW f, NEW s, NEW v, StateOK(p, c, f, s, v), f # "resurrect"
    PROVE  p \in Fine(Whole(c)) /\ ChainIs(c) /\ s = <<>> /\ v = <<>> /\ f \in {"idle", "reorg"}
<1>1. s = <<>> /\ v = <<>> /\ Range(<<>>) = {}
  BY NoBlock DEF StateOK
<1>2. PoolOK(p, Whole(c), {}, {}) /\ DeltasOK(p) /\ p \in Pools
  BY <1>1 DEF StateOK, PoolOK, Sound
<1> QED
  BY <1>1, <1>2 DEF StateOK, Fine

\* What the chain confirms spends only what it confirms.
LEMMA ChainClosed ==
    ASSUME NEW c, ChainIs(c)
    PROVE  Closed(Whole(c)) /\ Whole(c) \in SUBSET Txs
<1>1. Len(c) \in Nat
  BY SMT DEF ChainIs
<1>2. Len(c) + 1 \in 1..(Len(c) + 1)
  BY SMT, <1>1
<1>3. Closed(Whole(c))
  BY <1>2 DEF ChainIs, Whole
<1> QED
  BY <1>3 DEF Closed

\* What MayAccept asks that the pool relies on.
LEMMA MayAcceptFacts ==
    ASSUME NEW p, NEW t, MayAccept(p, t)
    PROVE  /\ t \notin p.mapTx /\ t \notin Confirmed
           /\ \A o \in Spends(t) : o[1] \in p.mapTx \/ o \in Unspent(Confirmed)
           /\ ConflictsOf(p, t) \cap NewAncestors(p, t) = {}
<1>1. /\ t \notin p.mapTx /\ t \notin Confirmed /\ HaveInputs(p, t)
      /\ ConflictsOf(p, t) # {} => MayReplace(p, t, ConflictsOf(p, t))
  BY DEF MayAccept, ConflictsOf
<1>2. ConflictsOf(p, t) \cap NewAncestors(p, t) = {}
  <2>1. MayReplace(p, t, ConflictsOf(p, t)) => ConflictsOf(p, t) \cap NewAncestors(p, t) = {}
    BY DEF MayReplace
  <2> QED
    BY <1>1, <2>1
<1> QED
  BY <1>1, <1>2 DEF HaveInputs

\* The empty pool.
LEMMA InitHolds == Init => IInv
<1> SUFFICES ASSUME Init PROVE StateOK(Empty, <<>>, "idle", <<>>, <<>>)
  BY DEF Init, IInv
<1>1. Whole(<<>>) = {}
  BY SMT DEF Whole, Below
<1>2. ChainIs(<<>>)
  <2>1. \A i \in 1..(Len(<<>>) + 1) : Below(<<>>, i) = {}
    BY SMT DEF Below
  <2>2. Closed({})
    BY DEF Closed
  <2> QED
    BY SMT, <2>1, <2>2 DEF ChainIs
<1> DEFINE p == Empty
<1>3. /\ p.mapTx = {} /\ p.mapNextTx = [o \in Outpoints |-> None] /\ p.mapDeltas = [t \in Txs |-> 0]
      /\ p.feeDelta = [t \in Txs |-> 0] /\ p.parents = [t \in Txs |-> {}]
      /\ p.children = [t \in Txs |-> {}] /\ p.nCountWithDescendants = [t \in Txs |-> 0]
      /\ p.nModFeesWithDescendants = [t \in Txs |-> 0] /\ p.nCountWithAncestors = [t \in Txs |-> 0]
      /\ p.nModFeesWithAncestors = [t \in Txs |-> 0]
  BY DEF Empty
<1>4. p \in Pools
  BY SMT DEF Empty, Pools, Relations
<1> HIDE DEF p
<1>5. Linked(p)
  BY <1>3 DEF Linked, Inverses
<1>6. NextTxExact(p)
  BY <1>3, MempoolAssumption DEF NextTxExact
<1>7. Totals(p)
  BY <1>3 DEF Totals, Exact
<1>8. PoolOK(p, {}, {}, {}) /\ DeltasOK(p)
  BY <1>3, <1>4, <1>5, <1>6, <1>7 DEF PoolOK, Sound, LinkedBut, Available, DeltasOK
<1>9. p \in Fine(Whole(<<>>))
  BY <1>1, <1>4, <1>8 DEF Fine
<1> QED
  BY <1>2, <1>9, QuietIn DEF p

\* AcceptToMemoryPool keeps the invariant: the conflicts are removed, then the sizes limited.
LEMMA AcceptStep ==
    ASSUME IInv, NEW t \in Txs, AcceptToMemoryPool(t)
    PROVE  IInv'
<1> SUFFICES StateOK(pool', chain', phase', todo', vHashUpdate')
  BY DEF IInv
<1>1. /\ phase = "idle" /\ MayAccept(pool, t) /\ pool' \in LimitMempoolSize(Accepted(pool, t))
      /\ chain' = chain /\ phase' = phase /\ todo' = todo /\ vHashUpdate' = vHashUpdate
  BY DEF AcceptToMemoryPool
<1>2. pool \in Fine(Whole(chain)) /\ ChainIs(chain) /\ todo = <<>> /\ vHashUpdate = <<>>
  BY SMT, <1>1, QuietOut DEF IInv
<1>3. Confirmed = Whole(chain)
  BY <1>2, WholeIs DEF ChainIs, Confirmed
<1>4. /\ t \notin pool.mapTx /\ t \notin Whole(chain)
      /\ \A o \in Spends(t) : o[1] \in pool.mapTx \/ o \in Unspent(Whole(chain))
      /\ ConflictsOf(pool, t) \cap NewAncestors(pool, t) = {}
  BY <1>1, <1>3, MayAcceptFacts
<1>5. Accepted(pool, t) \in Fine(Whole(chain))
  <2>1. Whole(chain) \in SUBSET Txs
    BY <1>2, ChainClosed
  <2> QED
    BY <1>2, <1>4, <2>1, AcceptedFine
<1>6. pool' \in Fine(Whole(chain))
  BY <1>1, <1>5, LimitFine
<1>7. StateOK(pool', chain, "idle", <<>>, <<>>)
  BY <1>2, <1>6, QuietIn
<1> QED
  BY <1>1, <1>2, <1>7

\* PrioritiseTransaction keeps it, in every phase.
LEMMA PrioritiseStep ==
    ASSUME IInv, NEW t \in Txs, NEW d \in {-1, 1}, PrioritiseTransaction(t, d)
    PROVE  IInv'
<1> SUFFICES StateOK(pool', chain', phase', todo', vHashUpdate')
  BY DEF IInv
<1> DEFINE total == pool.mapDeltas[t] + d
           own == total - pool.feeDelta[t]
           p == WithDelta(pool, t, total)
<1>1. /\ pool' = IF t \notin pool.mapTx THEN p
                 ELSE [p EXCEPT !.feeDelta[t] = total,
                                !.nModFeesWithDescendants =
                                   Plus(Plus(@, {t}, own), Closure(pool.parents, pool.parents[t]), d),
                                !.nModFeesWithAncestors =
                                   Plus(Plus(@, {t}, own), Closure(pool.children, {t}) \ {t}, d)]
      /\ chain' = chain /\ phase' = phase /\ todo' = todo /\ vHashUpdate' = vHashUpdate
  BY DEF PrioritiseTransaction, CalculateMemPoolAncestors, CalculateDescendants, WithDelta
<1>2. /\ ChainIs(chain) /\ BlockIs(todo, vHashUpdate, Whole(chain), pool.mapTx)
      /\ PoolOK(pool, Whole(chain), Range(vHashUpdate), Range(todo)) /\ DeltasOK(pool)
      /\ phase \in {"idle", "resurrect", "reorg"}
      /\ phase # "resurrect" => todo = <<>> /\ vHashUpdate = <<>>
  BY DEF IInv, StateOK
<1>3. Sound(pool) /\ pool \in Pools /\ d \in Int
  BY SMT, <1>2 DEF PoolOK, Sound
<1>4. total \in Int
  BY SMT, <1>3, PoolFields
<1> HIDE DEF total, own, p
<1>5. p.parents = pool.parents /\ p.children = pool.children
  <2>1. DeltaIs(pool, t, total, p)
    BY <1>3, <1>4, OnlyDelta DEF p
  <2> QED
    BY <2>1 DEF DeltaIs
<1>6. pool' = AfterPrioritise(pool, t, d)
  <2>1. pool' = IF t \notin pool.mapTx THEN p ELSE Prioritised(p, t, total, own, d)
    BY <1>1, <1>5 DEF Prioritised
  <2> QED
    BY <2>1 DEF AfterPrioritise, p, own, total
<1>7. /\ PoolOK(pool', Whole(chain), Range(vHashUpdate), Range(todo))
      /\ DeltasOK(pool') /\ pool'.mapTx = pool.mapTx
  BY ONLY <1>2, <1>3, <1>6, t \in Txs, PrioritisedOK, Zenon
<1>8. StateOK(pool', chain, phase, todo, vHashUpdate)
  BY <1>2, <1>7 DEF StateOK
<1> QED
  BY <1>1, <1>8

\* ConnectTip keeps it: removeForBlock follows the chain.
LEMMA ConnectStep ==
    ASSUME IInv, NEW n \in 0..MaxBlockTx, NEW vtx \in [1..n -> Txs], ConnectTip(vtx)
    PROVE  IInv'
<1> SUFFICES StateOK(pool', chain', phase', todo', vHashUpdate')
  BY DEF IInv
<1>1. /\ phase \in {"idle", "reorg"} /\ ValidBlock(vtx)
      /\ chain' = Append(chain, vtx) /\ pool' = removeForBlock(pool, vtx)
      /\ phase' = phase /\ todo' = todo /\ vHashUpdate' = vHashUpdate
  BY DEF ConnectTip
<1>2. /\ pool \in Fine(Whole(chain)) /\ ChainIs(chain) /\ todo = <<>> /\ vHashUpdate = <<>>
  BY SMT, <1>1, QuietOut DEF IInv
<1>3. Confirmed = Whole(chain)
  BY <1>2, WholeIs DEF ChainIs, Confirmed
<1>4. vtx \in Seq(Txs)
  <2>1. n \in Nat
    BY SMT, MempoolAssumption
  <2> QED
    BY SMT, <2>1
<1>5. ValidOn(Whole(chain), vtx)
  <2>1. ValidOn(Confirmed, vtx)
    BY <1>1 DEF ValidBlock, ValidOn, Before
  <2> QED
    BY <1>3, <2>1
<1>6. Closed(Whole(chain))
  BY <1>2, ChainClosed
<1>7. PoolOK(pool, Whole(chain), {}, {}) /\ DeltasOK(pool)
  BY <1>2 DEF Fine
<1>8. /\ PoolOK(pool', Whole(chain) \cup Range(vtx), {}, {}) /\ DeltasOK(pool')
      /\ Closed(Whole(chain) \cup Range(vtx))
  BY ONLY <1>1, <1>4, <1>5, <1>6, <1>7, BlockGoes, Zenon
<1>9. ChainIs(chain') /\ Whole(chain') = Whole(chain) \cup Range(vtx)
  BY ONLY <1>1, <1>2, <1>4, <1>5, <1>8, ChainGrows, Zenon
<1>10. pool' \in Fine(Whole(chain'))
  BY <1>8, <1>9 DEF Fine, PoolOK, Sound
<1>11. StateOK(pool', chain', phase, <<>>, <<>>)
  BY <1>1, <1>9, <1>10, QuietIn
<1> QED
  BY <1>1, <1>2, <1>11

\* DisconnectTip keeps it: what the pool spent of the block is now to be tried.
LEMMA DisconnectStep ==
    ASSUME IInv, DisconnectTip
    PROVE  IInv'
<1> SUFFICES StateOK(pool', chain', phase', todo', vHashUpdate')
  BY DEF IInv
<1>1. /\ phase \in {"idle", "reorg"} /\ chain # <<>> /\ chain' = SubSeq(chain, 1, Len(chain) - 1)
      /\ phase' = "resurrect" /\ todo' = chain[Len(chain)] /\ vHashUpdate' = <<>> /\ pool' = pool
  BY DEF DisconnectTip
<1>2. pool \in Fine(Whole(chain)) /\ ChainIs(chain)
  BY <1>1, QuietOut DEF IInv
<1>3. /\ ChainIs(chain') /\ todo' \in Seq(Txs)
      /\ ValidOn(Whole(chain'), todo') /\ Closed(Whole(chain'))
      /\ Whole(chain) = Whole(chain') \cup Range(todo')
  BY ONLY <1>1, <1>2, ChainShrinks, Zenon
<1>4. PoolOK(pool, Whole(chain') \cup Range(todo'), {}, {}) /\ DeltasOK(pool) /\ pool \in Pools
  BY <1>2, <1>3 DEF Fine
<1>5. PoolOK(pool, Whole(chain'), {}, Range(todo'))
  BY <1>3, <1>4, RangeIs, PoolUndone
<1>6. BlockIs(todo', <<>>, Whole(chain'), pool.mapTx)
  <2>1. pool.mapTx \cap (Whole(chain') \cup Range(todo')) = {} /\ pool.mapTx \in SUBSET Txs
    BY <1>4, PoolFields DEF PoolOK
  <2>2. Whole(chain') \in SUBSET Txs
    BY <1>3 DEF Closed
  <2> QED
    BY <1>3, <2>1, <2>2, BlockUndone
<1>7. Range(<<>>) = {}
  BY NoBlock
<1>8. StateOK(pool, chain', "resurrect", todo', <<>>)
  BY <1>3, <1>4, <1>5, <1>6, <1>7 DEF StateOK
<1> QED
  BY <1>1, <1>8

\* Resurrect keeps it: a transaction is put back, or all that spends from it goes.
LEMMA ResurrectStep ==
    ASSUME IInv, Resurrect
    PROVE  IInv'
<1> SUFFICES StateOK(pool', chain', phase', todo', vHashUpdate')
  BY DEF IInv
<1> DEFINE h == Head(todo)
           C == Whole(chain)
           V == Range(vHashUpdate)
           T == Range(todo)
<1>1. /\ phase = "resurrect" /\ todo # <<>> /\ todo' = Tail(todo)
      /\ chain' = chain /\ phase' = phase
  BY DEF Resurrect
<1>2. /\ ChainIs(chain) /\ BlockIs(todo, vHashUpdate, C, pool.mapTx)
      /\ PoolOK(pool, C, V, T) /\ DeltasOK(pool)
  BY DEF IInv, StateOK
<1>3. Confirmed = C
  BY <1>2, WholeIs DEF ChainIs, Confirmed
<1>4. V \cap T = {}
  BY <1>2 DEF PoolOK
<1> HIDE DEF C, V, T
<1>5. /\ h \in Txs /\ h \in T /\ h \notin C /\ h \notin Inputs(h)
      /\ \A v \in V : Spends(v) \cap Spends(h) = {} /\ h \notin Inputs(v)
      /\ Inputs(h) \cap pool.mapTx \subseteq V
  <2>1. /\ todo \in Seq(Txs) /\ IsInjective(todo) /\ InOrder(todo)
        /\ T \cap C = {} /\ Apart(V, T)
        /\ \A t \in T : Inputs(t) \cap pool.mapTx \subseteq V
    BY <1>2 DEF BlockIs, V, T
  <2>2. h \in Txs /\ h \in T /\ \A t \in T : t \notin Inputs(h)
    BY <1>1, <2>1, HeadFacts DEF T
  <2> HIDE DEF h
  <2> QED
    BY <2>1, <2>2 DEF Apart
<1>6. CASE /\ MayAccept(pool, h) /\ pool' = Accepted(pool, h) /\ vHashUpdate' = Append(vHashUpdate, h)
  <2>1. /\ \A o \in Spends(h) : o[1] \in pool.mapTx \/ o \in Unspent(C)
        /\ ConflictsOf(pool, h) \cap NewAncestors(pool, h) = {}
    BY <1>3, <1>6, MayAcceptFacts
  <2> HIDE DEF h
  <2>2. /\ PoolOK(pool', C, V \cup {h}, T \ {h}) /\ DeltasOK(pool')
        /\ pool'.mapTx \subseteq pool.mapTx \cup {h}
    BY ONLY Zenon, <1>2, <1>5, <1>6, <2>1, PutBack
  <2>3. /\ BlockIs(todo', vHashUpdate', C, pool'.mapTx)
        /\ Range(vHashUpdate') = V \cup {h} /\ Range(todo') = T \ {h}
    BY <1>1, <1>2, <1>4, <1>6, <2>2, BlockPutBack DEF h, V, T
  <2>4. StateOK(pool', chain, phase, todo', vHashUpdate')
    BY <1>1, <1>2, <2>2, <2>3 DEF StateOK, C
  <2> QED
    BY <1>1, <2>4
<1>7. CASE pool' = removeRecursive(pool, h) /\ vHashUpdate' = vHashUpdate
  <2> HIDE DEF h
  <2>1. /\ PoolOK(pool', C, V, T \ {h}) /\ DeltasOK(pool') /\ pool'.mapTx \subseteq pool.mapTx
    BY ONLY Zenon, <1>2, <1>5, <1>7, NotPutBack
  <2>2. BlockIs(todo', vHashUpdate', C, pool'.mapTx) /\ Range(todo') = T \ {h}
    BY <1>1, <1>2, <1>7, <2>1, BlockNotPutBack DEF h, T
  <2>3. StateOK(pool', chain, phase, todo', vHashUpdate')
    BY <1>1, <1>2, <1>7, <2>1, <2>2 DEF StateOK, C, V
  <2> QED
    BY <1>1, <2>3
<1> QED
  BY <1>6, <1>7 DEF Resurrect

\* UpdateFromBlock keeps it, and makes the pool right again.
LEMMA UpdateStep ==
    ASSUME IInv, UpdateFromBlock
    PROVE  IInv'
<1> SUFFICES StateOK(pool', chain', phase', todo', vHashUpdate')
  BY DEF IInv
<1>1. /\ todo = <<>> /\ pool' = UpdateTransactionsFromBlock(pool, vHashUpdate)
      /\ phase' = "reorg" /\ vHashUpdate' = <<>> /\ chain' = chain /\ todo' = todo
  BY DEF UpdateFromBlock
<1>2. /\ ChainIs(chain) /\ BlockIs(todo, vHashUpdate, Whole(chain), pool.mapTx)
      /\ PoolOK(pool, Whole(chain), Range(vHashUpdate), {}) /\ DeltasOK(pool)
  BY <1>1, NoBlock DEF IInv, StateOK
<1>3. pool' \in Fine(Whole(chain))
  BY <1>1, <1>2, BlockTied DEF BlockIs
<1>4. StateOK(pool', chain, "reorg", <<>>, <<>>)
  BY <1>2, <1>3, QuietIn
<1> QED
  BY <1>1, <1>4

\* The ends of ActivateBestChainStep and InvalidateBlock keep it.
LEMMA FinishStep ==
    ASSUME IInv, FinishReorg \/ FinishInvalidate
    PROVE  IInv'
<1> SUFFICES StateOK(pool', chain', phase', todo', vHashUpdate')
  BY DEF IInv
<1>1. /\ phase = "reorg" /\ phase' = "idle"
      /\ chain' = chain /\ todo' = todo /\ vHashUpdate' = vHashUpdate
  BY DEF FinishReorg, FinishInvalidate
<1>2. pool \in Fine(Whole(chain)) /\ ChainIs(chain) /\ todo = <<>> /\ vHashUpdate = <<>>
  BY SMT, <1>1, QuietOut DEF IInv
<1>3. pool' \in Fine(Whole(chain))
  <2>1. CASE FinishReorg
    <3>1. PICK p \in removeForReorg(pool) : pool' \in LimitMempoolSize(p)
      BY <2>1 DEF FinishReorg
    <3> QED
      BY <1>2, <3>1, ReorgFine, LimitFine
  <2>2. CASE FinishInvalidate
    <3>1. PICK p \in LimitMempoolSize(pool) : pool' \in removeForReorg(p)
      BY <2>2 DEF FinishInvalidate
    <3> QED
      BY <1>2, <3>1, ReorgFine, LimitFine
  <2> QED
    BY <2>1, <2>2
<1>4. StateOK(pool', chain, "idle", <<>>, <<>>)
  BY <1>2, <1>3, QuietIn
<1> QED
  BY <1>1, <1>2, <1>4

\* Every step keeps the invariant.
LEMMA StepHolds == IInv /\ [Next]_vars => IInv'
<1> SUFFICES ASSUME IInv, [Next]_vars
             PROVE  IInv'
  OBVIOUS
<1>1. ASSUME NEW t \in Txs, AcceptToMemoryPool(t) PROVE IInv'
  BY <1>1, AcceptStep
<1>2. ASSUME NEW t \in Txs, NEW d \in {-1, 1}, PrioritiseTransaction(t, d) PROVE IInv'
  BY <1>2, PrioritiseStep
<1>3. ASSUME NEW n \in 0..MaxBlockTx, NEW vtx \in [1..n -> Txs], ConnectTip(vtx) PROVE IInv'
  BY <1>3, ConnectStep
<1>4. CASE DisconnectTip
  BY <1>4, DisconnectStep
<1>5. CASE Resurrect
  BY <1>5, ResurrectStep
<1>6. CASE UpdateFromBlock
  BY <1>6, UpdateStep
<1>7. CASE FinishReorg \/ FinishInvalidate
  BY <1>7, FinishStep
<1>8. CASE UNCHANGED vars
  BY <1>8 DEF vars, IInv
<1> QED
  BY <1>1, <1>2, <1>3, <1>4, <1>5, <1>6, <1>7, <1>8 DEF Next

\* The invariant always holds.
LEMMA Always == Spec => []IInv
  BY InitHolds, StepHolds, PTL DEF Spec

\* Exact totals are those that TotalsOf asks for.
LEMMA ExactTotals ==
    ASSUME NEW p \in Pools, NEW R \in Relations, NEW M \in SUBSET Txs, NEW count, NEW fees,
           Exact(R, Ones, count, M), Exact(R, FeesOf(p), fees, M), NEW t \in M
    PROVE  TotalsOf(p, R, t, count, fees)
<1> DEFINE D == Closure(R, {t})
<1>1. D \in SUBSET Txs
  <2>1. {t} \in SUBSET Txs
    OBVIOUS
  <2> QED
    BY <2>1, ClosureIs
<1>2. count[t] = SumFunctionOnSet(Ones, D) /\ fees[t] = SumFunctionOnSet(FeesOf(p), D)
  BY DEF Exact
<1> HIDE DEF D
<1>3. Cardinality(D) = SumFunctionOnSet(Ones, D)
  BY <1>1, CountIsSum
<1>4. count[t] = Cardinality(D) /\ fees[t] = SumFees(p, D)
  BY <1>2, <1>3 DEF SumFees, FeesOf
<1> QED
  BY <1>4 DEF TotalsOf, D

\* For any transactions that do not spend from each other in a circle, any fees, limits
\* and chain, the totals that the pool keeps by increments are those of the entries its
\* links lead to, in the middle of a reorganization too, and wherever
\* PrioritiseTransaction comes in.
THEOREM TotalsAreRight == Spec => []LinksMatchPackages
<1>1. IInv => LinksMatchPackages
  <2> SUFFICES ASSUME IInv, NEW t \in pool.mapTx
               PROVE  /\ TotalsOf(pool, pool.children, t, pool.nCountWithDescendants, pool.nModFeesWithDescendants)
                      /\ TotalsOf(pool, pool.parents, t, pool.nCountWithAncestors, pool.nModFeesWithAncestors)
                      /\ \A x \in Txs : x \in pool.parents[t] <=> x \in pool.mapTx /\ t \in pool.children[x]
    BY DEF LinksMatchPackages
  <2>1. pool \in Pools /\ Linked(pool) /\ Totals(pool)
    BY DEF IInv, StateOK, PoolOK, Sound
  <2>2. /\ pool.children \in Relations /\ pool.parents \in Relations /\ pool.mapTx \in SUBSET Txs
        /\ \A y, x \in Txs : x \in pool.parents[y] <=> y \in pool.children[x]
        /\ \A y \in Txs : pool.parents[y] \subseteq pool.mapTx
    BY <2>1, LinkFacts, PoolFields
  <2>3. TotalsOf(pool, pool.children, t, pool.nCountWithDescendants, pool.nModFeesWithDescendants)
    BY <2>1, <2>2, ExactTotals DEF Totals
  <2>4. TotalsOf(pool, pool.parents, t, pool.nCountWithAncestors, pool.nModFeesWithAncestors)
    BY <2>1, <2>2, ExactTotals DEF Totals
  <2>5. \A x \in Txs : x \in pool.parents[t] <=> x \in pool.mapTx /\ t \in pool.children[x]
    BY <2>2
  <2> QED
    BY <2>3, <2>4, <2>5
<1> QED
  BY <1>1, Always, PTL

\* What CTxMemPool::check asserts of links and of mapNextTx holds whenever no block is
\* being put back.
THEOREM CheckAlwaysPasses == Spec => []CheckPasses
<1>1. IInv => CheckPasses
  <2> SUFFICES ASSUME IInv, phase # "resurrect"
               PROVE  /\ \A t \in pool.mapTx : pool.parents[t] = Inputs(t) \cap pool.mapTx
                      /\ \A t \in pool.mapTx : pool.children[t] = {c \in pool.mapTx : t \in Inputs(c)}
                      /\ \A o \in Outpoints : {t \in pool.mapTx : o \in Spends(t)} = {pool.mapNextTx[o]} \ {None}
    BY DEF CheckPasses
  <2>1. pool \in Fine(Whole(chain))
    BY QuietOut DEF IInv
  <2>2. pool \in Pools /\ Linked(pool) /\ NextTxExact(pool) /\ LinkedBut(pool, {})
    BY <2>1 DEF Fine, PoolOK, Sound
  <2>3. \A t \in pool.mapTx : pool.parents[t] = Inputs(t) \cap pool.mapTx
    BY <2>2 DEF LinkedBut
  <2>4. /\ pool.mapTx \in SUBSET Txs /\ pool.mapNextTx \in [Outpoints -> Txs \cup {None}]
        /\ \A y, x \in Txs : x \in pool.parents[y] <=> y \in pool.children[x]
        /\ \A y \in Txs : pool.children[y] \subseteq pool.mapTx
    BY <2>2, LinkFacts, PoolFields
  <2>5. \A t \in pool.mapTx : pool.children[t] = {c \in pool.mapTx : t \in Inputs(c)}
    BY SMTT(20), <2>3, <2>4
  <2>6. ASSUME NEW o \in Outpoints
        PROVE  {t \in pool.mapTx : o \in Spends(t)} = {pool.mapNextTx[o]} \ {None}
    <3>1. pool.mapNextTx[o] \in Txs \cup {None} /\ None \notin Txs
      BY <2>4, MempoolAssumption
    <3>2. \A t \in Txs : pool.mapNextTx[o] = t <=> t \in pool.mapTx /\ o \in Spends(t)
      BY <2>2 DEF NextTxExact
    <3> QED
      BY SMTT(20), <2>4, <3>1, <3>2
  <2> QED
    BY <2>3, <2>5, <2>6
<1> QED
  BY <1>1, Always, PTL

\* Whenever no block is being put back, nothing in the pool is confirmed, and all that it
\* spends is in the pool or an unspent coin of the chain.
THEOREM InputsAlwaysAvailable == Spec => []InputsAvailable
<1>1. IInv => InputsAvailable
  <2> SUFFICES ASSUME IInv, phase # "resurrect"
               PROVE  pool.mapTx \cap Confirmed = {} /\ \A t \in pool.mapTx : HaveInputs(pool, t)
    BY DEF InputsAvailable
  <2>1. pool \in Fine(Whole(chain)) /\ ChainIs(chain)
    BY QuietOut DEF IInv
  <2>2. Whole(chain) = Confirmed
    BY <2>1, WholeIs DEF ChainIs, Confirmed
  <2>3. pool.mapTx \cap Whole(chain) = {} /\ Available(pool, Whole(chain), {})
    BY <2>1 DEF Fine, PoolOK
  <2> QED
    BY <2>2, <2>3 DEF Available, HaveInputs
<1> QED
  BY <1>1, Always, PTL

=============================================================================
