----------------------------- MODULE MCCheckQueue -----------------------------
(* Instances of CheckQueue for TLC.                                          *)
EXTENDS CheckQueue

==============================================================================
