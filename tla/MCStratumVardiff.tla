--------------------------- MODULE MCStratumVardiff ---------------------------
(***************************************************************************)
(* Instances of StratumVardiff: limits of 2 and 8 units, connections that  *)
(* start below, between and above them, and suggestions in and out of      *)
(* range.                                                                  *)
(***************************************************************************)
EXTENDS StratumVardiff

MCStarts == {MinDiff - 1, 4, MaxDiff + 4}
MCSuggestions == {MinDiff + 1, MaxDiff, MaxDiff + 1}

=============================================================================
