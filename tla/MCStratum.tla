------------------------------ MODULE MCStratum ------------------------------
(***************************************************************************)
(* Instances of Stratum.                                                   *)
(***************************************************************************)
EXTENDS Stratum

CONSTANTS c1, c2, t1, t2, upper, lower

\* t2 extends t1
Heights == [t \in {t1, t2} |-> IF t = t1 THEN 1 ELSE 2]

\* Two spellings of one share, and a work that is too short
Work(text, ok) == [text |-> text, share |-> 1, time |-> 1, wellFormed |-> ok]
\* c1 submits, up to three times
Submissions == [c \in {c1, c2} |-> IF c = c1 THEN 3 ELSE 0]
Symmetry == Permutations({upper, lower})
NoWork == {}
Spellings == {Work(upper, TRUE), Work(lower, TRUE), Work("short", FALSE)}

=============================================================================
