------------------------------- MODULE Merkle -------------------------------
(***************************************************************************)
(* Merkle trees: the root, the mutation flag and the branches of a block   *)
(* (consensus/merkle.cpp), the steps that the stratum server sends to its  *)
(* miners (stratum.cpp), and the partial trees of merkleblock.cpp.         *)
(*                                                                         *)
(* A block grows by one transaction per step.  A hash is the term that was *)
(* hashed: different terms have different hashes.                          *)
(***************************************************************************)
EXTENDS Integers, Sequences

CONSTANTS Txids,       \* the transactions; one may occur several times in a block
          MaxLeaves    \* bound of a run

ASSUME MerkleAssumption == Txids \subseteq Nat /\ MaxLeaves \in Nat

VARIABLES leaves,      \* the transaction ids of the block
          vMatch       \* which of them the filter matches
vars == <<leaves, vMatch>>

Leaf(x) == [tx |-> x]
Hash(a, b) == [left |-> a, right |-> b]
Null == [null |-> 0]

Bit(n, k) == (n \div 2^k) % 2 = 1

-----------------------------------------------------------------------------
(* consensus/merkle.cpp                                                    *)

\* A computation under way is a record: the hash h at a level, whether it covers the
\* position of the branch, the eager inner hashes, and what was found so far.

\* Mutant of Combine: the flag is set by the first level only
RECURSIVE CombineMutant(_, _)
CombineMutant(s, flag) ==
    IF Bit(s.count, s.level) THEN s
    ELSE LET left == s.inner[s.level]
         IN  CombineMutant([s EXCEPT !.h = Hash(left, s.h),
                               !.level = s.level + 1,
                               !.match = s.match \/ s.matchlevel = s.level,
                               !.branch = IF s.match THEN Append(@, left)
                                          ELSE IF s.matchlevel = s.level THEN Append(@, s.h)
                                          ELSE @,
                               !.mutated = @ \/ (flag /\ s.level = 0 /\ left = s.h)], flag)

\* While the bit of count at this level is 0 there is an inner hash to the left of h.
\* Two equal hashes are noticed while the leaves are read (flag).
RECURSIVE Combine(_, _)
Combine(s, flag) ==
    IF Bit(s.count, s.level) THEN s
    ELSE LET left == s.inner[s.level]
         IN  Combine([s EXCEPT !.h = Hash(left, s.h),
                               !.level = s.level + 1,
                               !.match = s.match \/ s.matchlevel = s.level,
                               !.branch = IF s.match THEN Append(@, left)
                                          ELSE IF s.matchlevel = s.level THEN Append(@, s.h)
                                          ELSE @,
                               !.mutated = @ \/ (flag /\ left = s.h)], flag)

\* Mutant of AddLeaf: the level of the match is not followed
AddLeafMutant(s, leaf, pos) ==
    LET t == Combine([s EXCEPT !.h = leaf, !.level = 0, !.match = (s.count = pos),
                               !.count = s.count + 1], TRUE)
    IN  [t EXCEPT !.inner[t.level] = t.h,
                  !.matchlevel = IF s.count = pos THEN t.level ELSE @]

\* The first loop: every leaf is combined with what is to its left and stored.
AddLeaf(s, leaf, pos) ==
    LET t == Combine([s EXCEPT !.h = leaf, !.level = 0, !.match = (s.count = pos),
                               !.count = s.count + 1], TRUE)
    IN  [t EXCEPT !.inner[t.level] = t.h,
                  !.matchlevel = IF t.match THEN t.level ELSE @]

RECURSIVE AddLeaves(_, _, _)
AddLeaves(s, L, pos) ==
    IF s.count = Len(L) THEN s ELSE AddLeaves(AddLeaf(s, L[s.count + 1], pos), L, pos)

\* Mutant of Sweep: a hash without a right neighbour goes up as it is
RECURSIVE SweepMutant(_)
SweepMutant(s) ==
    IF s.count = 2^s.level THEN s
    ELSE SweepMutant(Combine([s EXCEPT !.count = s.count + 2^s.level,
                                       !.level = s.level + 1], FALSE))

\* The final sweep: a hash without a right neighbour is combined with itself, and count
\* becomes what it would be with that neighbour.
RECURSIVE Sweep(_)
Sweep(s) ==
    IF s.count = 2^s.level THEN s
    ELSE Sweep(Combine([s EXCEPT !.h = Hash(s.h, s.h),
                                 !.count = s.count + 2^s.level,
                                 !.level = s.level + 1,
                                 !.branch = IF s.match THEN Append(@, s.h) ELSE @], FALSE))

LowestBit(n) == CHOOSE k \in 0..n : Bit(n, k) /\ \A j \in 0..(k - 1) : ~Bit(n, j)

\* MerkleComputation, with position -1 for no branch
MerkleComputation(L, pos) ==
    IF L = <<>> THEN [h |-> Null, mutated |-> FALSE, branch |-> <<>>]
    ELSE LET start == [count |-> 0, inner |-> [k \in 0..Len(L) |-> Null], matchlevel |-> -1,
                       h |-> Null, level |-> 0, match |-> FALSE,
                       mutated |-> FALSE, branch |-> <<>>]
             s == AddLeaves(start, L, pos)
             low == LowestBit(s.count)
         IN  Sweep([s EXCEPT !.h = s.inner[low], !.level = low,
                             !.match = (s.matchlevel = low)])

ComputeMerkleRoot(L) == MerkleComputation(L, -1).h
Mutated(L) == MerkleComputation(L, -1).mutated
ComputeMerkleBranch(L, pos) == MerkleComputation(L, pos).branch

RECURSIVE ComputeMerkleRootFromBranch(_, _, _)
ComputeMerkleRootFromBranch(hash, branch, nIndex) ==
    IF branch = <<>> THEN hash
    ELSE ComputeMerkleRootFromBranch(
            IF nIndex % 2 = 1 THEN Hash(Head(branch), hash) ELSE Hash(hash, Head(branch)),
            Tail(branch), nIndex \div 2)

-----------------------------------------------------------------------------
(* stratum.cpp                                                             *)

\* Mutant of Padded: the last hash of a level is never repeated
PaddedMutant(V) == V

\* A level without its first entry, which the coinbase stands for, made to end in a pair
Padded(V) == IF Len(V) % 2 = 0 THEN Append(V, V[Len(V)]) ELSE V

RECURSIVE MerkleSteps(_)
MerkleSteps(V) ==
    IF V = <<>> THEN <<>>
    ELSE LET P == Padded(V)
         IN  <<P[1]>> \o MerkleSteps([i \in 1..((Len(P) - 1) \div 2) |->
                                          Hash(P[2 * i], P[2 * i + 1])])

ComputeMerkleSteps(L) == MerkleSteps(Tail(L))

RECURSIVE MerkleRootFromSteps(_, _)
MerkleRootFromSteps(hash, steps) ==
    IF steps = <<>> THEN hash
    ELSE MerkleRootFromSteps(Hash(hash, Head(steps)), Tail(steps))

-----------------------------------------------------------------------------
(* merkleblock.cpp                                                         *)

\* Mutant of CalcTreeWidth: rounded down
CalcTreeWidthMutant(n, height) == n \div 2^height

\* The number of nodes at a height
CalcTreeWidth(n, height) == (n + 2^height - 1) \div 2^height
TreeHeight(n) ==
    CHOOSE k \in 0..n : CalcTreeWidth(n, k) <= 1 /\ \A j \in 0..(k - 1) : CalcTreeWidth(n, j) > 1

RECURSIVE CalcHash(_, _, _)
CalcHash(L, height, pos) ==
    IF height = 0 THEN L[pos + 1]
    ELSE LET left == CalcHash(L, height - 1, 2 * pos)
         IN  Hash(left, IF 2 * pos + 1 < CalcTreeWidth(Len(L), height - 1)
                        THEN CalcHash(L, height - 1, 2 * pos + 1)
                        ELSE left)

\* The transactions below a node, from 0
Below(n, height, pos) == {p \in (pos * 2^height)..((pos + 1) * 2^height - 1) : p < n}

RECURSIVE TraverseAndBuild(_, _, _, _)
TraverseAndBuild(L, M, height, pos) ==
    LET parent == \E p \in Below(Len(L), height, pos) : M[p + 1]
        below(q) == TraverseAndBuild(L, M, height - 1, q)
    IN  IF height = 0 \/ ~parent
        THEN [vBits |-> <<parent>>, vHash |-> <<CalcHash(L, height, pos)>>]
        ELSE LET left == below(2 * pos)
                 right == IF 2 * pos + 1 < CalcTreeWidth(Len(L), height - 1)
                          THEN below(2 * pos + 1) ELSE [vBits |-> <<>>, vHash |-> <<>>]
             IN  [vBits |-> <<parent>> \o left.vBits \o right.vBits,
                  vHash |-> left.vHash \o right.vHash]

CPartialMerkleTree(L, M) == TraverseAndBuild(L, M, TreeHeight(Len(L)), 0)

Bytes(n) == (n + 7) \div 8

\* The bits travel in bytes, and the reader takes all bits of every byte.
SerializationOp(t) ==
    [t EXCEPT !.vBits = [i \in 1..(8 * Bytes(Len(@))) |-> i <= Len(@) /\ @[i]]]

\* A traversal under way: the bits and hashes used, the matches, and the hash of the node
Failed(s) == [s EXCEPT !.fBad = TRUE, !.hash = Null]

RECURSIVE TraverseAndExtract(_, _, _, _, _)
TraverseAndExtract(t, n, s, height, pos) ==
    IF s.bits >= Len(t.vBits) THEN Failed(s)
    ELSE LET parent == t.vBits[s.bits + 1]
             u == [s EXCEPT !.bits = s.bits + 1]
         IN  IF height = 0 \/ ~parent
             THEN IF u.hashes >= Len(t.vHash) THEN Failed(u)
                  ELSE [u EXCEPT !.hashes = u.hashes + 1,
                                 !.hash = t.vHash[u.hashes + 1],
                                 !.match = IF height > 0 \/ ~parent THEN @
                                           ELSE Append(@, [txid |-> t.vHash[u.hashes + 1],
                                                           index |-> pos])]
             ELSE LET left == TraverseAndExtract(t, n, u, height - 1, 2 * pos)
                  IN  IF 2 * pos + 1 < CalcTreeWidth(n, height - 1)
                      THEN LET right == TraverseAndExtract(t, n, left, height - 1, 2 * pos + 1)
                           IN  [right EXCEPT !.fBad = @ \/ left.hash = right.hash,
                                             !.hash = Hash(left.hash, right.hash)]
                      ELSE [left EXCEPT !.hash = Hash(left.hash, left.hash)]

\* The root, Null when the tree is refused, and the matched transactions; n is below the
\* number of transactions that fit into a block.
ExtractMatches(t, n) ==
    LET s == TraverseAndExtract(t, n, [bits |-> 0, hashes |-> 0, match |-> <<>>, hash |-> Null,
                                       fBad |-> FALSE], TreeHeight(n), 0)
        refused == [root |-> Null, match |-> <<>>]
    IN  IF n = 0 \/ Len(t.vHash) > n \/ Len(t.vBits) < Len(t.vHash) THEN refused
        ELSE IF s.fBad \/ Bytes(s.bits) # Bytes(Len(t.vBits)) \/ s.hashes # Len(t.vHash)
        THEN refused
        ELSE [root |-> s.hash, match |-> s.match]

-----------------------------------------------------------------------------
\* A transaction is added to the block.
AddTransaction(x, m) ==
    /\ Len(leaves) < MaxLeaves
    /\ leaves' = Append(leaves, Leaf(x))
    /\ vMatch' = Append(vMatch, m)

Init == leaves = <<>> /\ vMatch = <<>>
Next == \E x \in Txids, m \in BOOLEAN : AddTransaction(x, m)
Spec == Init /\ [][Next]_vars

-----------------------------------------------------------------------------
(* Properties                                                              *)

\* The reference: the levels of the tree are made one after the other, from pairs of
\* neighbours, the last one of an odd level being its own neighbour.
RECURSIVE TreeRoot(_)
TreeRoot(L) ==
    IF L = <<>> THEN Null
    ELSE IF Len(L) = 1 THEN L[1]
    ELSE TreeRoot([i \in 1..((Len(L) + 1) \div 2) |->
                      Hash(L[2 * i - 1], L[IF 2 * i <= Len(L) THEN 2 * i ELSE Len(L)])])

\* The constant-space algorithm of MerkleComputation finds the root of the tree.
RootIsTreeRoot == ComputeMerkleRoot(leaves) = TreeRoot(leaves)

\* The lists of transactions that a list can be taken for, with what is computed of each
Lists == UNION {[1..n -> {Leaf(x) : x \in Txids}] : n \in 0..MaxLeaves}
Roots == [L \in {K \in Lists : ~Mutated(K)} |-> ComputeMerkleRoot(L)]

\* "this will detect all known ways of changing the transactions without affecting the
\* merkle root": of the lists with one root, at most one is not flagged as mutated.
MutationsDetected ==
    leaves \in DOMAIN Roots =>
        \A L \in DOMAIN Roots : Roots[L] = Roots[leaves] => L = leaves

\* The branch that ComputeMerkleBranch collects for a position, on the way to the root
\* and without storing the tree, leads from the leaf to the root.
BranchLeadsToRoot ==
    \A pos \in 0..(Len(leaves) - 1) :
        ComputeMerkleRootFromBranch(leaves[pos + 1], ComputeMerkleBranch(leaves, pos), pos)
            = ComputeMerkleRoot(leaves)

\* The steps that the stratum server computes without the coinbase lead from any coinbase
\* to the root that BlockMerkleRoot gives for the block with that coinbase.
StepsLeadToRoot ==
    leaves # <<>> =>
        MerkleRootFromSteps(leaves[1], ComputeMerkleSteps(leaves)) = ComputeMerkleRoot(leaves)

Selected == SelectSeq([i \in 1..Len(leaves) |-> [txid |-> leaves[i], index |-> i - 1]],
                      LAMBDA e : vMatch[e.index + 1])

\* What CPartialMerkleTree writes, ExtractMatches reads back: the root of the block and
\* exactly the matched transactions, with their positions.  A block that repeats
\* transactions so that two branches are equal is read back or refused.
PartialTreeRoundTrip ==
    leaves # <<>> =>
        LET r == ExtractMatches(SerializationOp(CPartialMerkleTree(leaves, vMatch)), Len(leaves))
        IN  \/ r = [root |-> ComputeMerkleRoot(leaves), match |-> Selected]
            \/ r.root = Null /\ Mutated(leaves)

-----------------------------------------------------------------------------
(* A statement of the source that does not hold                            *)

\* "flag bits, packed per 8 in a byte, least significant bit first (<= 2*N-1 bits)"
FlagBitsBounded ==
    leaves # <<>> =>
        LET t == CPartialMerkleTree(leaves, vMatch)
        IN  Len(t.vBits) <= 2 * Len(t.vHash) - 1

=============================================================================
