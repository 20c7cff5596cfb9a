----------------------------- MODULE MCCoinsCache ----------------------------
(* Two spendable values, so that a spend of one output and an overwrite are *)
(* told apart, of different sizes.                                          *)
EXTENDS CoinsCache

CONSTANTS one, both

MCUnspent == {one, both}
MCCoinUsage == [c \in MCUnspent |-> IF c = one THEN 1 ELSE 2]
==============================================================================
