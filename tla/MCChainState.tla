---------------------------- MODULE MCChainState -----------------------------
(* Small block trees.  A block is its number, 0 is the genesis block, and    *)
(* every block has the same work.                                            *)
EXTENDS ChainState, Sequences

CONSTANT Tree   \* Tree[b]: the parent of block b

Line     == <<0, 1, 2>>
Fork     == <<0, 1, 0, 3, 4>>
LateFork == <<0, 1, 1>>
SideGap  == <<0, 1, 2, 0, 4>>
Twins    == <<0, 1, 0, 3>>
Deep     == <<0, 1, 2, 3>>
Vee      == <<0, 0, 2>>

MCBlocks == 0..Len(Tree)
MCChain ==
    LET chain[b \in MCBlocks] == IF b = 0 THEN {0} ELSE {b} \cup chain[Tree[b]]
    IN  [b \in MCBlocks |-> chain[b]]
MCHeight == [b \in MCBlocks |-> Cardinality(MCChain[b]) - 1]
MCWork == [b \in MCBlocks |-> Cardinality(MCChain[b])]
MCParent == [b \in MCBlocks \ {0} |-> Tree[b]]
MCAddr == [b \in MCBlocks |-> b]
==============================================================================
