------------------------------ MODULE CoinsView ------------------------------
(***************************************************************************)
(* What a stack of coin views promises (class CCoinsView, coins.h): every  *)
(* level shows a complete map from transaction ids to their unspent        *)
(* outputs and the block whose state that map is.  There is no cache here: *)
(* level 0 is the database, level 1 pcoinsTip, and the levels above it the *)
(* temporary views opened by the functions that connect, disconnect or     *)
(* test a block.  A level that is not open shows what the level below it   *)
(* shows.  CoinsCache implements this module.                              *)
(***************************************************************************)
EXTENDS Naturals

CONSTANTS Txids,     \* transaction ids
          Coins,     \* what a view may hold for a transaction id
          Hashes,    \* block hashes
          NullHash,  \* uint256(): no best block
          N          \* the greatest number of caches stacked on the database

VARIABLES view,      \* view[l][t]: the coins of t seen from level l
          best,      \* best[l]: the best block seen from level l
          open       \* the number of caches that exist

vars == <<view, best, open>>

Init ==
    /\ open = 1
    /\ \E m \in [Txids -> Coins], h \in Hashes \cup {NullHash} :
          /\ view = [l \in 0..N |-> m]
          /\ best = [l \in 0..N |-> h]

\* A change made through the top view is seen there and nowhere below it.
Write(t, v) ==
    /\ view' = [l \in 0..N |-> IF l < open THEN view[l]
                                           ELSE [view[l] EXCEPT ![t] = v]]
    /\ UNCHANGED <<best, open>>

SetBestBlock(h) ==
    /\ best' = [l \in 0..N |-> IF l < open THEN best[l] ELSE h]
    /\ UNCHANGED <<view, open>>

\* Flushing gives the level below exactly what the top level shows.
Flush ==
    /\ view' = [view EXCEPT ![open - 1] = view[open]]
    /\ best' = [best EXCEPT ![open - 1] = best[open]]
    /\ UNCHANGED open

Push ==
    /\ open < N
    /\ open' = open + 1
    /\ UNCHANGED <<view, best>>

\* Whatever the top view did not flush is forgotten with it.
Pop ==
    /\ open > 1
    /\ open' = open - 1
    /\ view' = [l \in 0..N |-> IF l < open THEN view[l] ELSE view[open - 1]]
    /\ best' = [l \in 0..N |-> IF l < open THEN best[l] ELSE best[open - 1]]

\* Only the database survives a crash.
Crash ==
    /\ open' = 1
    /\ view' = [l \in 0..N |-> view[0]]
    /\ best' = [l \in 0..N |-> best[0]]

Next ==
    \/ \E t \in Txids, v \in Coins : Write(t, v)
    \/ \E h \in Hashes : SetBestBlock(h)
    \/ Flush
    \/ Push
    \/ Pop
    \/ Crash

Spec == Init /\ [][Next]_vars
==============================================================================
