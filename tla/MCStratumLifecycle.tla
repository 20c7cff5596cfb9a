-------------------------- MODULE MCStratumLifecycle --------------------------
(***************************************************************************)
(* Instances of StratumLifecycle.                                          *)
(***************************************************************************)
EXTENDS StratumLifecycle

CONSTANTS c1, c2

=============================================================================
