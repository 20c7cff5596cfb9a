--------------------------- MODULE MCBlockDownload ---------------------------
(* Instances of BlockDownload for TLC.                                       *)
EXTENDS BlockDownload

\* A chain of two blocks and a fork: 0 - 1 - 2 and 0 - 3.
Forked == <<0, 1, 0>>

\* Chains of two and of three blocks.
Short == <<0, 1>>
Straight == <<0, 1, 2>>

=============================================================================
