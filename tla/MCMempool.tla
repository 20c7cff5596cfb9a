------------------------------ MODULE MCMempool ------------------------------
(***************************************************************************)
(* Five transactions for TLC: t1 spends an older coin, t2 an output of t1, *)
(* t3 an output of t1 and one of t2, t4 the same output of t1 as t2, and   *)
(* t5 an older coin and an output of t3.                                   *)
(***************************************************************************)
EXTENDS Mempool

CONSTANTS t1, t2, t3, t4, t5

Diamond ==
    [t \in Txs |-> CASE t = t1 -> <<<<Base, 0>>>>
                     [] t = t2 -> <<<<t1, 0>>>>
                     [] t = t3 -> <<<<t1, 1>>, <<t2, 0>>>>
                     [] t = t4 -> <<<<t1, 0>>>>
                     [] t = t5 -> <<<<Base, 1>>, <<t3, 0>>>>]

Fees == [t \in Txs |-> CASE t = t3 -> 2 [] t = t4 -> 5 [] OTHER -> 1]
=============================================================================
