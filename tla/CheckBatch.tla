------------------------------ MODULE CheckBatch ------------------------------
(***************************************************************************)
(* What a CCheckQueueControl promises to the thread that holds it: between *)
(* its construction and its destruction no other thread uses the queue,    *)
(* Wait answers whether every check that was added succeeds, and neither   *)
(* Wait nor the destructor ends while a check is outstanding.  There are   *)
(* no workers, counters or condition variables here.  CheckQueue           *)
(* implements this module.                                                 *)
(***************************************************************************)
EXTENDS Naturals

CONSTANTS Masters,  \* the threads that connect blocks
          NoMaster,
          Checks,   \* the script checks
          Bad       \* those that fail

VARIABLES control,  \* the thread whose control object exists
          added,    \* the checks it added
          pending,  \* those that are not finished
          verdict   \* what Wait answered, "none" before that

vars == <<control, added, pending, verdict>>

Init ==
    /\ control = NoMaster
    /\ added = {}
    /\ pending = {}
    /\ verdict = "none"

Begin(m) ==
    /\ control = NoMaster
    /\ control' = m
    /\ added' = {}
    /\ verdict' = "none"
    /\ UNCHANGED pending

Add(S) ==
    /\ control # NoMaster /\ verdict = "none"
    /\ S \cap added = {}
    /\ added' = added \cup S
    /\ pending' = pending \cup S
    /\ UNCHANGED <<control, verdict>>

\* Checks finish in any order; after a failure the others may be skipped.
Finish(S) ==
    /\ pending' = pending \ S
    /\ UNCHANGED <<control, added, verdict>>

\* Wait returns.
Answer(S) ==
    /\ control # NoMaster /\ verdict = "none"
    /\ pending \subseteq S
    /\ pending' = {}
    /\ verdict' = IF added \cap Bad = {} THEN "ok" ELSE "bad"
    /\ UNCHANGED <<control, added>>

\* The control object is destroyed.
End ==
    /\ control # NoMaster
    /\ pending = {}
    /\ control' = NoMaster
    /\ UNCHANGED <<added, pending, verdict>>

Next ==
    \/ \E m \in Masters : Begin(m)
    \/ \E S \in SUBSET Checks : Add(S) \/ Finish(S) \/ Answer(S)
    \/ End

Spec == Init /\ [][Next]_vars

==============================================================================
