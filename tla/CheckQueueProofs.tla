--------------------------- MODULE CheckQueueProofs ---------------------------
(***************************************************************************)
(* For any number of workers, masters, checks and any batch size, the      *)
(* counters of the queue of script checks are exact, and the queue keeps   *)
(* the promise of module CheckBatch.                                       *)
(***************************************************************************)
EXTENDS CheckQueue, FiniteSetTheorems, TLAPS

\* Most leaves are first-order; the ones with arithmetic cite SMT.
USE Zenon

Pcs == {"out", "top", "work", "wait", "woken", "dead"}
Asleep == {"wait", "woken"}
Idle == {"none", "done"}      \* no check may be outstanding

\* What thread t leaves outstanding when it is done with its batch.
Rest(t) == queue \cup UNION {batch[u] : u \in Threads \ {t}}

\* The other threads that wait, and that are in Loop.
WaitingBut(t) == {u \in Threads \ {t} : pc[u] \in Asleep}
LoopingBut(t) == {u \in Threads \ {t} : InLoop(u)}
Waiting == {t \in Threads : pc[t] \in Asleep}
Looping == {t \in Threads : InLoop(t)}

-----------------------------------------------------------------------------
(* The inductive invariant                                                 *)

TypesOK ==
    /\ queue \in SUBSET Checks /\ batch \in [Threads -> SUBSET Checks]
    /\ fOk \in [Threads -> BOOLEAN] /\ fAllOk \in BOOLEAN /\ stop \in BOOLEAN
    /\ pc \in [Threads -> Pcs]
    /\ nIdle \in Int /\ nTotal \in Int
    /\ control \in Masters \cup {NoMaster}
    /\ call \in {"none", "open", "wait", "destroy", "done", "terminate"}
    /\ interrupted # {} => stop

\* A thread has checks only while it runs them, and no two threads have the same one.
BatchesOK ==
    /\ \A t \in Threads : pc[t] \in {"out", "wait", "woken", "dead"} => batch[t] = {}
    /\ \A t \in Threads : pc[t] = "work" => batch[t] # {}
    /\ \A t \in Threads : batch[t] \cap Rest(t) = {}
    /\ nTodo = Cardinality(Outstanding)

\* A master is in Loop while it waits, and only then; without a control object, and after
\* Wait, nothing is outstanding.
ControlOK ==
    /\ \A m \in Masters : pc[m] # "out" <=> (control = m /\ call \in {"wait", "destroy"})
    /\ control = NoMaster <=> call = "none"
    /\ call \in Idle => Outstanding = {} /\ fAllOk
    /\ call \in {"open", "wait"} => verdict = "none"
    /\ Outstanding \subseteq added

\* A failed check is outstanding, or known to its thread, or to all.
VerdictOK ==
    /\ call \notin Idle => /\ \A x \in added \cap Bad : x \in Outstanding \/ ~fAllOk
                           /\ ~fAllOk => added \cap Bad # {}
    /\ \A t \in Threads : batch[t] # {} /\ ~fOk[t] => added \cap Bad # {}
    /\ \A t \in Threads : pc[t] = "top" /\ batch[t] \cap Bad # {} => ~fOk[t]

CountsOK ==
    /\ nIdle >= Cardinality(Waiting)
    /\ nIdle - Cardinality(Waiting) = nTotal - Cardinality(Looping)
    /\ ~stop => nIdle = Cardinality(Waiting)

IInv == TypesOK /\ BatchesOK /\ ControlOK /\ VerdictOK /\ CountsOK

-----------------------------------------------------------------------------
(* Sets of checks and of threads                                           *)

\* They are finite, and their sizes are numbers.
LEMMA Finite ==
    /\ \A S \in SUBSET Checks : IsFiniteSet(S) /\ Cardinality(S) \in Nat
    /\ \A S \in SUBSET Threads : IsFiniteSet(S) /\ Cardinality(S) \in Nat
<1>1. IsFiniteSet(Checks) /\ IsFiniteSet(Threads)
  BY CheckQueueAssumption, FS_Union DEF Threads
<1> QED
  BY <1>1, FS_Subset, FS_CardinalityType

\* One thread is counted once.
LEMMA CountThread ==
    ASSUME NEW S \in SUBSET Threads, NEW t \in Threads, t \notin S
    PROVE  Cardinality(S \cup {t}) = Cardinality(S) + 1
  BY Finite, FS_AddElement

\* What is outstanding is what t has and what it leaves.
LEMMA Split ==
    ASSUME TypesOK, NEW t \in Threads
    PROVE  /\ Outstanding = Rest(t) \cup batch[t]
           /\ Rest(t) \in SUBSET Checks /\ batch[t] \in SUBSET Checks
           /\ Outstanding \in SUBSET Checks
  BY SMT DEF TypesOK, Outstanding, Rest

\* The part of nTodo that is left when t has subtracted its batch.
LEMMA TodoLeft ==
    ASSUME TypesOK, BatchesOK, NEW t \in Threads
    PROVE  nTodo - Cardinality(batch[t]) = Cardinality(Rest(t))
<1>1. /\ IsFiniteSet(Rest(t)) /\ IsFiniteSet(batch[t])
      /\ Cardinality(Rest(t)) \in Nat /\ Cardinality(batch[t]) \in Nat
  BY Split, Finite
<1>2. Rest(t) \cap batch[t] = {}
  BY DEF BatchesOK
<1>3. Cardinality(Rest(t) \cup batch[t]) = Cardinality(Rest(t)) + Cardinality(batch[t])
  <2>1. Cardinality(Rest(t) \cap batch[t]) = 0
    BY <1>2, FS_EmptySet
  <2>2. Cardinality(Rest(t) \cup batch[t])
          = Cardinality(Rest(t)) + Cardinality(batch[t]) - Cardinality(Rest(t) \cap batch[t])
    BY <1>1, FS_Union
  <2> QED
    BY SMT, <1>1, <2>1, <2>2
<1>4. nTodo = Cardinality(Rest(t) \cup batch[t])
  BY Split DEF BatchesOK
<1> QED
  BY SMT, <1>1, <1>3, <1>4

\* The counters are exact.
LEMMA Implies == IInv => CountsExact
<1> SUFFICES ASSUME IInv PROVE CountsExact
  OBVIOUS
<1>1. Waiting = {t \in Threads : pc[t] \in {"wait", "woken"}} /\ Looping = {t \in Threads : InLoop(t)}
  BY DEF Waiting, Looping, Asleep
<1>2. /\ Cardinality(Waiting) \in Nat /\ Cardinality(Looping) \in Nat
  BY Finite DEF Waiting, Looping
<1>3. \A t, u \in Threads : t # u => batch[t] \cap batch[u] = {}
  BY DEF IInv, BatchesOK, Rest
<1>4. nIdle \in Int /\ nTotal \in Int
  BY DEF IInv, TypesOK
<1>5. nTotal >= Cardinality(Looping)
  BY SMT, <1>2, <1>4 DEF IInv, CountsOK
<1> QED
  BY <1>1, <1>3, <1>5 DEF IInv, CountsOK, BatchesOK, CountsExact

-----------------------------------------------------------------------------
(* A thread in Loop decides what to do next                                *)

\* What holds when t has the mutex and has added up its batch: p, todo, ok, idle and total
\* are the values of the variables at that point.
Locked(t, p, todo, ok, idle, total) ==
    /\ p \in [Threads -> Pcs]
    /\ \A u \in Threads \ {t} : p[u] = pc[u] \/ (pc[u] = "wait" /\ p[u] = "woken")
    /\ todo = Cardinality(Rest(t))
    /\ ok \in BOOLEAN
    /\ call \in Idle => ok
    /\ call \notin Idle => /\ \A x \in added \cap Bad : x \in Rest(t) \/ ~ok
                           /\ ~ok => added \cap Bad # {}
    /\ idle \in Int /\ total \in Int
    /\ idle >= Cardinality(WaitingBut(t))
    /\ idle - Cardinality(WaitingBut(t)) = total - 1 - Cardinality(LoopingBut(t))
    /\ ~stop => idle = Cardinality(WaitingBut(t))
    /\ t \in Masters => control = t /\ call \in {"wait", "destroy"}

\* The new batch of t comes from the queue, and the other batches stay.
LEMMA DecideBatches ==
    ASSUME IInv, NEW t \in Threads, NEW p, NEW todo, NEW ok, NEW idle, NEW total,
           Locked(t, p, todo, ok, idle, total), Decide(t, p, todo, ok, idle, total)
    PROVE  /\ batch' \in [Threads -> SUBSET Checks] /\ queue' \in SUBSET Checks
           /\ \A u \in Threads \ {t} : batch'[u] = batch[u]
           /\ Outstanding' = Rest(t)
           /\ BatchesOK'
<1>1. TypesOK /\ BatchesOK
  BY DEF IInv
<1>2. PICK S \in SUBSET queue :
         /\ batch' = [batch EXCEPT ![t] = S]
         /\ queue' = queue \ S
         /\ \/ S # {} /\ pc' = [p EXCEPT ![t] = "work"]
            \/ S = {} /\ pc' = [p EXCEPT ![t] = "wait"]
            \/ S = {} /\ pc' = [p EXCEPT ![t] = "out"]
  <2>1. CASE Take(t, p, ok, idle, total)
    <3>1. PICK S \in SUBSET queue :
             /\ Cardinality(S) = BatchSize(Cardinality(queue), total, idle)
             /\ batch' = [batch EXCEPT ![t] = S] /\ queue' = queue \ S
             /\ pc' = [p EXCEPT ![t] = "work"]
      BY <2>1 DEF Take
    <3>2. Cardinality(S) # 0
      BY SMT, <3>1 DEF BatchSize
    <3> QED
      BY <3>1, <3>2, FS_EmptySet
  <2>2. CASE Return(t, p, todo, ok, idle, total)
    BY <2>2 DEF Return
  <2>3. CASE Sleep(t, p, todo, ok, idle, total)
    BY <2>3 DEF Sleep
  <2> QED
    BY <2>1, <2>2, <2>3 DEF Decide
<1>3. batch' \in [Threads -> SUBSET Checks] /\ queue' \in SUBSET Checks
  BY <1>1, <1>2 DEF TypesOK
<1>4. batch'[t] = S /\ \A u \in Threads \ {t} : batch'[u] = batch[u]
  BY <1>1, <1>2 DEF TypesOK
<1>5. Outstanding' = Rest(t)
  BY SMT, <1>1, <1>2, <1>4 DEF Outstanding, Rest
<1>6. ASSUME NEW u \in Threads PROVE batch'[u] \cap Rest(u)' = {}
  <2>1. CASE u = t
    <3>1. S \cap UNION {batch[v] : v \in Threads \ {t}} = {}
      BY SMT, <1>1, <1>2 DEF BatchesOK, Rest
    <3> QED
      BY SMT, <1>2, <1>4, <2>1, <3>1 DEF Rest
  <2>2. CASE u # t
    <3>1. batch[u] \cap Rest(u) = {}
      BY <1>1 DEF BatchesOK
    <3>2. ASSUME NEW x \in Rest(u)' PROVE x \in Rest(u)
      <4>1. x \in queue' \/ \E v \in Threads \ {u} : x \in batch'[v]
        BY <3>2 DEF Rest
      <4>2. x \in queue \/ \E v \in Threads \ {u} : x \in batch[v]
        BY <1>2, <1>4, <4>1
      <4> QED
        BY <4>2 DEF Rest
    <3> QED
      BY <1>4, <2>2, <3>1, <3>2
  <2> QED
    BY <2>1, <2>2
<1>7. ASSUME NEW u \in Threads, pc'[u] \in {"out", "wait", "woken", "dead"} PROVE batch'[u] = {}
  <2>1. CASE u = t
    BY <1>2, <1>4, <1>7, <2>1 DEF Locked
  <2>2. CASE u # t
    <3>1. pc'[u] = p[u] /\ (p[u] = pc[u] \/ (pc[u] = "wait" /\ p[u] = "woken"))
      BY <1>2, <2>2 DEF Locked
    <3> QED
      BY <1>1, <1>4, <1>7, <2>2, <3>1 DEF BatchesOK
  <2> QED
    BY <2>1, <2>2
<1>8. nTodo' = Cardinality(Outstanding')
  BY <1>5 DEF Decide, Locked
<1>9. ASSUME NEW u \in Threads, pc'[u] = "work" PROVE batch'[u] # {}
  BY SMT, <1>1, <1>2, <1>4, <1>9 DEF BatchesOK, Locked
<1> QED
  BY <1>3, <1>4, <1>5, <1>6, <1>7, <1>8, <1>9 DEF BatchesOK

\* The other threads wait and are in Loop as before.
LEMMA DecideCounts ==
    ASSUME IInv, NEW t \in Threads, NEW p, NEW todo, NEW ok, NEW idle, NEW total,
           Locked(t, p, todo, ok, idle, total), Decide(t, p, todo, ok, idle, total)
    PROVE  CountsOK' /\ nIdle' \in Int /\ nTotal' \in Int /\ pc' \in [Threads -> Pcs]
<1>1. PICK n \in {"work", "wait", "out"} :
         /\ pc' = [p EXCEPT ![t] = n]
         /\ nIdle' = (IF n = "wait" THEN idle + 1 ELSE idle)
         /\ nTotal' = (IF n = "out" THEN total - 1 ELSE total)
  <2>1. CASE Take(t, p, ok, idle, total)
    BY <2>1 DEF Take
  <2>2. CASE Return(t, p, todo, ok, idle, total)
    BY <2>2 DEF Return
  <2>3. CASE Sleep(t, p, todo, ok, idle, total)
    BY <2>3 DEF Sleep
  <2> QED
    BY <2>1, <2>2, <2>3 DEF Decide
<1>2. pc' \in [Threads -> Pcs] /\ pc'[t] = n /\ \A u \in Threads \ {t} : pc'[u] = p[u]
  BY <1>1 DEF Locked, Pcs
<1>3. \A u \in Threads \ {t} : batch'[u] = batch[u]
  BY DecideBatches
<1>4. \A u \in Threads \ {t} : (pc'[u] \in Asleep <=> pc[u] \in Asleep) /\ (InLoop(u)' <=> InLoop(u))
  BY <1>2, <1>3 DEF Locked, Asleep, InLoop
<1>5. (t \in Waiting' <=> n = "wait") /\ (t \in Looping' <=> n # "out")
  BY <1>2 DEF Waiting, Looping, Asleep, InLoop
<1>6. Waiting' = IF n = "wait" THEN WaitingBut(t) \cup {t} ELSE WaitingBut(t)
  BY <1>4, <1>5 DEF Waiting, WaitingBut
<1>7. Looping' = IF n = "out" THEN LoopingBut(t) ELSE LoopingBut(t) \cup {t}
  BY <1>4, <1>5 DEF Looping, LoopingBut
<1>8. /\ WaitingBut(t) \in SUBSET Threads /\ LoopingBut(t) \in SUBSET Threads
      /\ t \notin WaitingBut(t) /\ t \notin LoopingBut(t)
  BY DEF WaitingBut, LoopingBut
<1>9. /\ Cardinality(Waiting') = Cardinality(WaitingBut(t)) + (IF n = "wait" THEN 1 ELSE 0)
      /\ Cardinality(Looping') = Cardinality(LoopingBut(t)) + (IF n = "out" THEN 0 ELSE 1)
      /\ Cardinality(WaitingBut(t)) \in Nat /\ Cardinality(LoopingBut(t)) \in Nat
  BY SMT, <1>6, <1>7, <1>8, CountThread, Finite
<1>10. stop' = stop
  BY DEF Decide, interruptVars
<1> QED
  BY SMT, <1>1, <1>2, <1>9, <1>10 DEF CountsOK, Locked

\* The master returns only when nothing is left, and then all is known.
LEMMA ReturnFacts ==
    ASSUME IInv, NEW t \in Threads, NEW p, NEW todo, NEW ok, NEW idle, NEW total,
           Locked(t, p, todo, ok, idle, total), Return(t, p, todo, ok, idle, total)
    PROVE  /\ Rest(t) = {} /\ t \in Masters /\ control = t /\ call \in {"wait", "destroy"}
           /\ ok <=> added \cap Bad = {}
<1>1. t \in Masters /\ Cardinality(Rest(t)) = 0 /\ control = t /\ call \in {"wait", "destroy"}
  BY DEF Return, Locked
<1>2. Rest(t) = {}
  BY <1>1, Split, Finite, FS_EmptySet DEF IInv
<1> QED
  BY <1>1, <1>2 DEF Locked, Idle

\* The masters, the control object and what is known of the checks.
LEMMA DecideControl ==
    ASSUME IInv, NEW t \in Threads, NEW p, NEW todo, NEW ok, NEW idle, NEW total,
           Locked(t, p, todo, ok, idle, total), Decide(t, p, todo, ok, idle, total)
    PROVE  ControlOK' /\ VerdictOK' /\ TypesOK'
<1>1. /\ TypesOK /\ ControlOK /\ VerdictOK
      /\ batch' \in [Threads -> SUBSET Checks] /\ queue' \in SUBSET Checks
      /\ \A u \in Threads \ {t} : batch'[u] = batch[u]
      /\ Outstanding' = Rest(t)
      /\ nIdle' \in Int /\ nTotal' \in Int /\ pc' \in [Threads -> Pcs]
      /\ UNCHANGED <<control, added, interrupted, stop>>
  BY DecideBatches, DecideCounts DEF IInv, Decide, interruptVars
<1>2. Rest(t) \subseteq Outstanding
  BY <1>1, Split
<1>3. \A u \in Threads \ {t} :
         /\ pc'[u] = p[u] /\ fOk'[u] = fOk[u]
         /\ p[u] = pc[u] \/ (pc[u] = "wait" /\ p[u] = "woken")
  BY <1>1 DEF Decide, Take, Return, Sleep, Locked, TypesOK
<1>4. CASE Return(t, p, todo, ok, idle, total)
  <2>1. /\ Rest(t) = {} /\ t \in Masters /\ control = t /\ call \in {"wait", "destroy"}
        /\ pc'[t] = "out" /\ call' = "done" /\ fAllOk' = TRUE /\ fOk' = fOk
        /\ batch'[t] = {}
    BY <1>1, <1>4, ReturnFacts DEF Return, Locked, TypesOK
  <2>2. ControlOK'
    <3>1. \A m \in Masters : pc'[m] = "out"
      BY <1>1, <1>3, <2>1 DEF ControlOK, Threads
    <3>2. control' # NoMaster
      BY <1>1, <2>1, CheckQueueAssumption
    <3> QED
      BY <1>1, <2>1, <3>1, <3>2 DEF ControlOK, Idle
  <2>3. VerdictOK'
    BY <1>1, <1>3, <2>1 DEF VerdictOK, Idle
  <2>4. TypesOK'
    BY <1>1, <2>1 DEF TypesOK
  <2> QED
    BY <2>2, <2>3, <2>4
<1>5. CASE Take(t, p, ok, idle, total) \/ Sleep(t, p, todo, ok, idle, total)
  <2>1. /\ pc'[t] \in {"work", "wait"} /\ call' = call /\ verdict' = verdict /\ fAllOk' = ok
        /\ fOk' \in [Threads -> BOOLEAN]
        /\ batch'[t] # {} => fOk'[t] = ok
    BY <1>1, <1>5 DEF Take, Sleep, Locked, TypesOK
  <2>2. ControlOK'
    <3>1. ASSUME NEW m \in Masters
          PROVE  pc'[m] # "out" <=> (control = m /\ call \in {"wait", "destroy"})
      <4>1. CASE m = t
        BY <2>1, <4>1 DEF Locked
      <4>2. CASE m # t
        BY <1>1, <1>3, <4>2 DEF ControlOK, Threads
      <4> QED
        BY <4>1, <4>2
    <3>2. call \in Idle => Rest(t) = {} /\ ok
      BY <1>1, <1>2 DEF ControlOK, Locked
    <3> QED
      BY <1>1, <1>2, <2>1, <3>1, <3>2 DEF ControlOK
  <2>3. VerdictOK'
    <3>1. ASSUME NEW u \in Threads, batch'[u] # {}, ~fOk'[u] PROVE added \cap Bad # {}
      <4>1. CASE u = t
        BY <2>1, <3>1, <4>1 DEF Locked
      <4>2. CASE u # t
        BY <1>1, <1>3, <3>1, <4>2 DEF VerdictOK
      <4> QED
        BY <4>1, <4>2
    <3>2. ASSUME NEW u \in Threads, pc'[u] = "top", batch'[u] \cap Bad # {} PROVE ~fOk'[u]
      BY <1>1, <1>3, <2>1, <3>2 DEF VerdictOK
    <3>3. call \notin Idle => /\ \A x \in added \cap Bad : x \in Rest(t) \/ ~ok
                              /\ ~ok => added \cap Bad # {}
      BY DEF Locked
    <3> QED
      BY <1>1, <2>1, <3>1, <3>2, <3>3 DEF VerdictOK
  <2>4. TypesOK'
    BY <1>1, <2>1 DEF TypesOK, Locked
  <2> QED
    BY <2>2, <2>3, <2>4
<1> QED
  BY <1>4, <1>5 DEF Decide

\* In the abstract module the checks of the batch finish, or Wait answers.
LEMMA DecideRefines ==
    ASSUME IInv, NEW t \in Threads, NEW p, NEW todo, NEW ok, NEW idle, NEW total,
           Locked(t, p, todo, ok, idle, total), Decide(t, p, todo, ok, idle, total)
    PROVE  CB!Next
<1>1. /\ batch[t] \in SUBSET Checks /\ Outstanding = Rest(t) \cup batch[t]
      /\ batch[t] \cap Rest(t) = {}
      /\ Outstanding' = Rest(t) /\ UNCHANGED <<control, added>>
  BY Split, DecideBatches DEF IInv, BatchesOK, Decide
<1>2. CASE verdict' = verdict
  <2>1. CB!Finish(batch[t])
    BY <1>1, <1>2 DEF CB!Finish
  <2> QED
    BY <1>1, <2>1 DEF CB!Next
<1>3. CASE Return(t, p, todo, ok, idle, total) /\ call = "wait"
  <2>1. Rest(t) = {} /\ t \in Masters /\ control = t /\ (ok <=> added \cap Bad = {})
    BY <1>3, ReturnFacts
  <2>2. verdict = "none" /\ control # NoMaster
    BY <1>3, <2>1, CheckQueueAssumption DEF IInv, ControlOK
  <2>3. verdict' = IF added \cap Bad = {} THEN "ok" ELSE "bad"
    BY <1>3, <2>1 DEF Return
  <2>4. CB!Answer(batch[t])
    BY <1>1, <2>1, <2>2, <2>3 DEF CB!Answer
  <2> QED
    BY <1>1, <2>4 DEF CB!Next
<1> QED
  BY <1>2, <1>3 DEF Decide, Take, Return, Sleep

-----------------------------------------------------------------------------
(* The three ways to get to the decision                                   *)

\* The counters with and without t.
LEMMA CountsBut ==
    ASSUME NEW t \in Threads
    PROVE  /\ Cardinality(WaitingBut(t)) \in Nat /\ Cardinality(LoopingBut(t)) \in Nat
           /\ Cardinality(Waiting) = Cardinality(WaitingBut(t)) + (IF pc[t] \in Asleep THEN 1 ELSE 0)
           /\ Cardinality(Looping) = Cardinality(LoopingBut(t)) + (IF InLoop(t) THEN 1 ELSE 0)
<1>1. /\ WaitingBut(t) \in SUBSET Threads /\ LoopingBut(t) \in SUBSET Threads
      /\ t \notin WaitingBut(t) /\ t \notin LoopingBut(t)
  BY DEF WaitingBut, LoopingBut
<1>2. /\ Cardinality(WaitingBut(t)) \in Nat /\ Cardinality(LoopingBut(t)) \in Nat
      /\ Cardinality(WaitingBut(t) \cup {t}) = Cardinality(WaitingBut(t)) + 1
      /\ Cardinality(LoopingBut(t) \cup {t}) = Cardinality(LoopingBut(t)) + 1
  BY <1>1, Finite, CountThread
<1>3. Waiting = IF pc[t] \in Asleep THEN WaitingBut(t) \cup {t} ELSE WaitingBut(t)
  BY DEF Waiting, WaitingBut
<1>4. Looping = IF InLoop(t) THEN LoopingBut(t) \cup {t} ELSE LoopingBut(t)
  BY DEF Looping, LoopingBut
<1> QED
  BY SMT, <1>2, <1>3, <1>4

\* A thread without a batch has nothing to add up.
LEMMA NoBatch ==
    ASSUME IInv, NEW t \in Threads, batch[t] = {}
    PROVE  Rest(t) = Outstanding /\ nTodo = Cardinality(Rest(t))
  BY Split DEF IInv, BatchesOK

\* The first iteration.
LEMMA EnterLocked ==
    ASSUME IInv, NEW t \in Threads, Enter(t)
    PROVE  Locked(t, pc, nTodo, fAllOk, nIdle, nTotal + 1)
<1>1. pc[t] = "top" /\ batch[t] = {}
  BY DEF Enter
<1>2. pc[t] \notin Asleep /\ ~InLoop(t)
  BY <1>1 DEF Asleep, InLoop
<1>3. /\ nIdle \in Int /\ nTotal + 1 \in Int
      /\ nIdle >= Cardinality(WaitingBut(t))
      /\ nIdle - Cardinality(WaitingBut(t)) = (nTotal + 1) - 1 - Cardinality(LoopingBut(t))
      /\ ~stop => nIdle = Cardinality(WaitingBut(t))
  BY SMT, <1>2, CountsBut DEF IInv, TypesOK, CountsOK
<1>4. t \in Masters => control = t /\ call \in {"wait", "destroy"}
  BY <1>1 DEF IInv, ControlOK
<1> QED
  BY <1>1, <1>3, <1>4, NoBatch DEF IInv, TypesOK, ControlOK, VerdictOK, Locked

\* After a wait.
LEMMA ResumeLocked ==
    ASSUME IInv, NEW t \in Threads, Resume(t)
    PROVE  Locked(t, pc, nTodo, fAllOk, nIdle - 1, nTotal)
<1>1. pc[t] = "woken" /\ batch[t] = {}
  BY DEF Resume, IInv, BatchesOK
<1>2. pc[t] \in Asleep /\ InLoop(t)
  BY <1>1 DEF Asleep, InLoop
<1>3. /\ nIdle - 1 \in Int /\ nTotal \in Int
      /\ nIdle - 1 >= Cardinality(WaitingBut(t))
      /\ (nIdle - 1) - Cardinality(WaitingBut(t)) = nTotal - 1 - Cardinality(LoopingBut(t))
      /\ ~stop => nIdle - 1 = Cardinality(WaitingBut(t))
  BY SMT, <1>2, CountsBut DEF IInv, TypesOK, CountsOK
<1>4. t \in Masters => control = t /\ call \in {"wait", "destroy"}
  BY <1>1 DEF IInv, ControlOK
<1> QED
  BY <1>1, <1>3, <1>4, NoBatch DEF IInv, TypesOK, ControlOK, VerdictOK, Locked

\* After a batch: the verdict of the batch is added, and the master may be woken.
LEMMA CleanUpLocked ==
    ASSUME IInv, NEW t \in Threads, pc[t] = "top", batch[t] # {},
           NEW W \in SUBSET {u \in Threads : pc[u] = "wait"}
    PROVE  Locked(t, [u \in Threads |-> IF u \in W THEN "woken" ELSE pc[u]],
                  nTodo - Cardinality(batch[t]), fAllOk /\ fOk[t], nIdle, nTotal)
<1> DEFINE p == [u \in Threads |-> IF u \in W THEN "woken" ELSE pc[u]]
           ok == fAllOk /\ fOk[t]
<1>1. /\ p \in [Threads -> Pcs]
      /\ \A u \in Threads \ {t} : p[u] = pc[u] \/ (pc[u] = "wait" /\ p[u] = "woken")
  BY DEF IInv, TypesOK, Pcs
<1>2. nTodo - Cardinality(batch[t]) = Cardinality(Rest(t))
  BY TodoLeft DEF IInv
<1>3. Outstanding = Rest(t) \cup batch[t]
  BY Split DEF IInv
<1>4. call \notin Idle
  BY <1>3 DEF IInv, ControlOK
<1>5. ok \in BOOLEAN
  OBVIOUS
<1>6. ASSUME NEW x \in added \cap Bad PROVE x \in Rest(t) \/ ~ok
  <2>1. x \in Rest(t) \/ x \in batch[t] \/ ~fAllOk
    BY <1>3, <1>4 DEF IInv, VerdictOK
  <2>2. x \in batch[t] => ~fOk[t]
    BY DEF IInv, VerdictOK
  <2> QED
    BY <2>1, <2>2
<1>7. ~ok => added \cap Bad # {}
  BY <1>4 DEF IInv, VerdictOK
<1>8. pc[t] \notin Asleep /\ InLoop(t)
  BY DEF Asleep, InLoop
<1>9. /\ nIdle \in Int /\ nTotal \in Int
      /\ nIdle >= Cardinality(WaitingBut(t))
      /\ nIdle - Cardinality(WaitingBut(t)) = nTotal - 1 - Cardinality(LoopingBut(t))
      /\ ~stop => nIdle = Cardinality(WaitingBut(t))
  BY SMT, <1>8, CountsBut DEF IInv, TypesOK, CountsOK
<1>10. t \in Masters => control = t /\ call \in {"wait", "destroy"}
  BY DEF IInv, ControlOK
<1> HIDE DEF p, ok
<1>11. Locked(t, p, nTodo - Cardinality(batch[t]), ok, nIdle, nTotal)
  BY <1>1, <1>2, <1>4, <1>5, <1>6, <1>7, <1>9, <1>10 DEF Locked
<1> QED
  BY <1>11 DEF p, ok

\* Every step of Loop under the mutex keeps IInv and is a step of the abstract module.
LEMMA LockedSteps ==
    ASSUME IInv, NEW t \in Threads, Enter(t) \/ CleanUp(t) \/ Resume(t)
    PROVE  IInv' /\ CB!Next
<1>1. PICK p, todo, ok, idle, total :
         Locked(t, p, todo, ok, idle, total) /\ Decide(t, p, todo, ok, idle, total)
  <2>1. CASE Enter(t)
    BY <2>1, EnterLocked DEF Enter
  <2>2. CASE Resume(t)
    BY <2>2, ResumeLocked DEF Resume
  <2>3. CASE CleanUp(t)
    <3>1. PICK W : /\ W \in SUBSET {u \in Threads : pc[u] = "wait"}
                   /\ Decide(t, [u \in Threads |-> IF u \in W THEN "woken" ELSE pc[u]],
                             nTodo - Cardinality(batch[t]), fAllOk /\ fOk[t], nIdle, nTotal)
      BY <2>3 DEF CleanUp, Notified, Threads
    <3>2. pc[t] = "top" /\ batch[t] # {}
      BY <2>3 DEF CleanUp
    <3> QED
      BY <3>1, <3>2, CleanUpLocked
  <2> QED
    BY <2>1, <2>2, <2>3
<1>2. BatchesOK'
  BY <1>1, DecideBatches
<1>3. CountsOK'
  BY <1>1, DecideCounts
<1>4. ControlOK' /\ VerdictOK' /\ TypesOK'
  BY <1>1, DecideControl
<1>5. CB!Next
  BY <1>1, DecideRefines
<1> QED
  BY <1>2, <1>3, <1>4, <1>5 DEF IInv

-----------------------------------------------------------------------------
(* The other steps                                                         *)

\* Neither the queue nor a batch changes, and no thread that waits or is in Loop.
LEMMA Undisturbed ==
    ASSUME IInv, UNCHANGED <<queueVars, batch>>, stop => stop',
           \A u \in Threads : /\ pc'[u] \in Asleep <=> pc[u] \in Asleep
                              /\ InLoop(u)' <=> InLoop(u)
    PROVE  CountsOK' /\ Outstanding' = Outstanding /\ \A t \in Threads : Rest(t)' = Rest(t)
<1>1. Waiting' = Waiting /\ Looping' = Looping
  BY DEF Waiting, Looping
<1> QED
  BY <1>1 DEF IInv, CountsOK, queueVars, Outstanding, Rest

\* A worker or the master runs its batch, or wakes up.
LEMMA ThreadSteps ==
    ASSUME IInv, NEW t \in Threads, Work(t) \/ Spurious(t)
    PROVE  IInv' /\ UNCHANGED CB!vars
<1> USE DEF queueVars, controlVars, interruptVars
<1>1. /\ UNCHANGED <<queueVars, batch, controlVars, interruptVars>>
      /\ \A u \in Threads \ {t} : pc'[u] = pc[u] /\ fOk'[u] = fOk[u]
      /\ pc' \in [Threads -> Pcs] /\ fOk' \in [Threads -> BOOLEAN]
  BY DEF Work, Spurious, IInv, TypesOK, Pcs
<1>2. \/ pc[t] = "work" /\ pc'[t] = "top" /\ (fOk'[t] <=> fOk[t] /\ batch[t] \cap Bad = {})
      \/ pc[t] = "wait" /\ pc'[t] = "woken" /\ fOk'[t] = fOk[t]
  BY DEF Work, Spurious, IInv, TypesOK
<1>3. batch[t] # {} \/ pc[t] # "work"
  BY DEF IInv, BatchesOK
<1>4. /\ CountsOK' /\ Outstanding' = Outstanding /\ \A u \in Threads : Rest(u)' = Rest(u)
  <2>1. \A u \in Threads : (pc'[u] \in Asleep <=> pc[u] \in Asleep) /\ (InLoop(u)' <=> InLoop(u))
    BY <1>1, <1>2, <1>3 DEF Asleep, InLoop
  <2> QED
    BY <1>1, <2>1, Undisturbed
<1>5. BatchesOK'
  BY <1>1, <1>2, <1>4 DEF IInv, BatchesOK
<1>6. ControlOK'
  BY <1>1, <1>2, <1>4, CheckQueueAssumption DEF IInv, ControlOK, Threads
<1>7. VerdictOK'
  <2>1. ASSUME NEW u \in Threads, batch[u] # {}, ~fOk'[u] PROVE added \cap Bad # {}
    <3>1. batch[u] \subseteq added
      BY DEF IInv, ControlOK, Outstanding
    <3> QED
      BY <1>1, <1>2, <2>1, <3>1 DEF IInv, VerdictOK
  <2>2. ASSUME NEW u \in Threads, pc'[u] = "top", batch[u] \cap Bad # {} PROVE ~fOk'[u]
    BY <1>1, <1>2, <2>2 DEF IInv, VerdictOK
  <2> QED
    BY <1>1, <1>4, <2>1, <2>2 DEF IInv, VerdictOK
<1>8. TypesOK'
  BY <1>1 DEF IInv, TypesOK
<1> QED
  BY <1>1, <1>4, <1>5, <1>6, <1>7, <1>8 DEF IInv, CB!vars

\* A wait throws: the thread leaves Loop, and nIdle and nTotal both count it for ever.
LEMMA ThrowStep ==
    ASSUME IInv, NEW t \in Threads, Throw(t)
    PROVE  IInv' /\ UNCHANGED CB!vars
<1> USE DEF queueVars
<1>1. /\ pc[t] \in Asleep /\ batch[t] = {} /\ stop
      /\ UNCHANGED <<queueVars, batch, fOk, control, added, verdict, stop>>
      /\ interrupted' = interrupted \ {t}
  BY DEF Throw, Asleep, IInv, BatchesOK, TypesOK
<1>2. /\ pc' \in [Threads -> Pcs] /\ pc'[t] \in {"dead", "top", "out"}
      /\ \A u \in Threads \ {t} : pc'[u] = pc[u]
  BY DEF Throw, IInv, TypesOK, Pcs
<1>3. \/ t \in Workers /\ call' = call
      \/ t \in Masters /\ pc'[t] = "top" /\ call' = "destroy"
      \/ t \in Masters /\ pc'[t] = "out" /\ call' = "terminate"
  BY DEF Throw, IInv, TypesOK
<1>4. Outstanding' = Outstanding /\ \A u \in Threads : Rest(u)' = Rest(u)
  BY <1>1 DEF Outstanding, Rest
<1>5. CountsOK'
  <2>1. pc'[t] \notin Asleep /\ ~InLoop(t)' /\ InLoop(t)
    BY <1>1, <1>2 DEF Asleep, InLoop
  <2>2. Waiting' = WaitingBut(t) /\ Looping' = LoopingBut(t)
    BY <1>1, <1>2, <2>1 DEF Waiting, WaitingBut, Looping, LoopingBut, InLoop
  <2>3. /\ Cardinality(Waiting) = Cardinality(WaitingBut(t)) + 1
        /\ Cardinality(Looping) = Cardinality(LoopingBut(t)) + 1
        /\ Cardinality(WaitingBut(t)) \in Nat /\ Cardinality(LoopingBut(t)) \in Nat
    BY <1>1, <2>1, CountsBut
  <2>4. nIdle \in Int /\ nTotal \in Int /\ nIdle' = nIdle /\ nTotal' = nTotal /\ stop'
    BY <1>1 DEF IInv, TypesOK
  <2> QED
    BY SMT, <2>2, <2>3, <2>4 DEF IInv, CountsOK
<1>6. BatchesOK'
  BY <1>1, <1>2, <1>4 DEF IInv, BatchesOK
<1>7. t \in Masters => control = t /\ call \in {"wait", "destroy"}
  BY <1>1 DEF IInv, ControlOK, Asleep
<1>8. ControlOK'
  <2>1. ASSUME NEW m \in Masters
        PROVE  pc'[m] # "out" <=> (control = m /\ call' \in {"wait", "destroy"})
    BY <1>2, <1>3, <1>7, CheckQueueAssumption DEF IInv, ControlOK, Threads
  <2>2. (call' \in Idle <=> call \in Idle) /\ (call' = "none" <=> call = "none")
        /\ (call' \in {"open", "wait"} => call \in {"open", "wait"})
    BY <1>3, <1>7 DEF Idle
  <2> QED
    BY <1>1, <1>4, <2>1, <2>2 DEF IInv, ControlOK
<1>9. VerdictOK'
  <2>1. call' \in Idle <=> call \in Idle
    BY <1>3, <1>7 DEF Idle
  <2> QED
    BY <1>1, <1>2, <1>4, <2>1 DEF IInv, VerdictOK
<1>10. TypesOK'
  BY <1>1, <1>2, <1>3 DEF IInv, TypesOK
<1> QED
  BY <1>1, <1>4, <1>5, <1>6, <1>8, <1>9, <1>10 DEF IInv, CB!vars

\* interrupt_all
LEMMA InterruptStep == ASSUME IInv, InterruptAll PROVE IInv' /\ UNCHANGED CB!vars
<1>1. UNCHANGED <<queueVars, threadVars, controlVars>> /\ stop'
  BY DEF InterruptAll
<1>2. /\ CountsOK' /\ Outstanding' = Outstanding /\ \A u \in Threads : Rest(u)' = Rest(u)
  BY <1>1, Undisturbed DEF threadVars, InLoop
<1>3. BatchesOK' /\ ControlOK' /\ VerdictOK' /\ TypesOK'
  BY SMT, <1>1, <1>2 DEF InterruptAll, IInv, BatchesOK, ControlOK, VerdictOK, TypesOK,
     queueVars, threadVars, controlVars
<1> QED
  BY <1>1, <1>2, <1>3 DEF IInv, CB!vars, controlVars

\* The control object is made, told to wait or destroyed.
LEMMA ControlSteps ==
    ASSUME IInv, NEW m \in Masters, Control(m) \/ Wait(m) \/ EarlyReturn(m) \/ Release(m)
    PROVE  IInv' /\ [CB!Next]_CB!vars
<1> USE DEF queueVars, threadVars, interruptVars
<1>0. m \in Threads /\ m # NoMaster
  BY CheckQueueAssumption DEF Threads
<1>1. CASE Control(m)
  <2>1. /\ control = NoMaster /\ call = "none" /\ Outstanding = {} /\ fAllOk
        /\ control' = m /\ call' = "open" /\ added' = {} /\ verdict' = "none"
        /\ UNCHANGED <<queueVars, threadVars, interruptVars>>
    BY <1>1 DEF Control, IInv, ControlOK, Idle
  <2>2. /\ CountsOK' /\ Outstanding' = Outstanding /\ \A u \in Threads : Rest(u)' = Rest(u)
    BY <2>1, Undisturbed DEF InLoop
  <2>3. \A t \in Threads : batch[t] = {}
    BY <2>1 DEF Outstanding
  <2>4. BatchesOK' /\ ControlOK' /\ VerdictOK' /\ TypesOK'
    BY <1>0, <2>1, <2>2, <2>3 DEF IInv, BatchesOK, ControlOK, VerdictOK, TypesOK, Idle
  <2>5. CB!Begin(m)
    BY <2>1, <2>2 DEF CB!Begin
  <2> QED
    BY <2>2, <2>4, <2>5 DEF IInv, CB!Next
<1>2. CASE Wait(m) \/ EarlyReturn(m)
  <2>1. /\ control = m /\ call = "open" /\ call' \in {"wait", "destroy"}
        /\ pc' = [pc EXCEPT ![m] = "top"]
        /\ UNCHANGED <<queueVars, batch, fOk, control, added, verdict, interruptVars>>
    BY <1>2 DEF Wait, EarlyReturn
  <2>2. pc[m] = "out" /\ batch[m] = {} /\ pc'[m] = "top" /\ \A u \in Threads \ {m} : pc'[u] = pc[u]
    BY <1>0, <2>1 DEF IInv, ControlOK, BatchesOK, TypesOK
  <2>3. /\ CountsOK' /\ Outstanding' = Outstanding /\ \A u \in Threads : Rest(u)' = Rest(u)
    <3>1. \A u \in Threads : (pc'[u] \in Asleep <=> pc[u] \in Asleep) /\ (InLoop(u)' <=> InLoop(u))
      BY <1>0, <2>1, <2>2 DEF Asleep, InLoop
    <3> QED
      BY <2>1, <3>1, Undisturbed
  <2>4. BatchesOK'
    BY <1>0, <2>1, <2>2, <2>3 DEF IInv, BatchesOK
  <2>5. ControlOK'
    BY <1>0, <2>1, <2>2, <2>3 DEF IInv, ControlOK, Threads, Idle
  <2>6. VerdictOK'
    BY <1>0, <2>1, <2>2, <2>3 DEF IInv, VerdictOK, Idle
  <2>7. TypesOK'
    BY <1>0, <2>1 DEF IInv, TypesOK, Pcs
  <2> QED
    BY <2>1, <2>3, <2>4, <2>5, <2>6, <2>7 DEF IInv, CB!vars
<1>3. CASE Release(m)
  <2>1. /\ control = m /\ call = "done" /\ Outstanding = {} /\ fAllOk
        /\ control' = NoMaster /\ call' = "none"
        /\ UNCHANGED <<queueVars, threadVars, interruptVars, added, verdict>>
    BY <1>3 DEF Release, IInv, ControlOK, Idle
  <2>2. /\ CountsOK' /\ Outstanding' = Outstanding /\ \A u \in Threads : Rest(u)' = Rest(u)
    BY <2>1, Undisturbed DEF InLoop
  <2>3. BatchesOK' /\ ControlOK' /\ VerdictOK' /\ TypesOK'
    BY <1>0, <2>1, <2>2 DEF IInv, BatchesOK, ControlOK, VerdictOK, TypesOK, Idle
  <2>4. CB!End
    BY <1>0, <2>1, <2>2 DEF CB!End
  <2> QED
    BY <2>2, <2>3, <2>4 DEF IInv, CB!Next
<1> QED
  BY <1>1, <1>2, <1>3

\* The checks of a transaction are added: they were not there before.
LEMMA AddStep ==
    ASSUME IInv, NEW m \in Masters, NEW S \in SUBSET Checks, Add(m, S)
    PROVE  IInv' /\ CB!Next
<1>1. /\ control = m /\ call = "open" /\ verdict = "none" /\ m # NoMaster
      /\ S \cap added = {} /\ queue' = queue \cup S /\ nTodo' = nTodo + Cardinality(S)
      /\ added' = added \cup S
      /\ UNCHANGED <<nIdle, nTotal, fAllOk, batch, fOk, control, call, verdict, interrupted, stop>>
  BY CheckQueueAssumption DEF Add, interruptVars, IInv, ControlOK
<1>2. /\ pc' \in [Threads -> Pcs]
      /\ \A u \in Threads : pc'[u] = pc[u] \/ (pc[u] = "wait" /\ pc'[u] = "woken" /\ u \in Workers)
  <2>1. PICK W \in SUBSET {u \in Workers : pc[u] = "wait"} :
           pc' = [u \in Threads |-> IF u \in W THEN "woken" ELSE pc[u]]
    BY SMT DEF Add, Notified
  <2> QED
    BY <2>1 DEF IInv, TypesOK, Pcs
<1>3. TypesOK /\ Outstanding \subseteq added /\ S \cap Outstanding = {}
  BY <1>1 DEF IInv, ControlOK
<1>4. Outstanding' = Outstanding \cup S /\ \A u \in Threads : Rest(u)' = Rest(u) \cup S
  BY <1>1 DEF Outstanding, Rest
<1>5. nTodo' = Cardinality(Outstanding')
  <2>1. Outstanding \in SUBSET Checks
    BY SMT, <1>3 DEF TypesOK, Outstanding
  <2>2. /\ IsFiniteSet(Outstanding) /\ IsFiniteSet(S)
        /\ Cardinality(Outstanding) \in Nat /\ Cardinality(S) \in Nat
    BY <2>1, Finite
  <2>3. Cardinality(Outstanding \cap S) = 0
    <3>1. Outstanding \cap S = {}
      BY <1>3
    <3> QED
      BY <3>1, FS_EmptySet
  <2>4. Cardinality(Outstanding \cup S)
          = Cardinality(Outstanding) + Cardinality(S) - Cardinality(Outstanding \cap S)
    BY <2>2, FS_Union
  <2>5. nTodo = Cardinality(Outstanding)
    BY DEF IInv, BatchesOK
  <2> QED
    BY SMT, <1>1, <1>4, <2>2, <2>3, <2>4, <2>5
<1>6. BatchesOK'
  <2>1. ASSUME NEW u \in Threads PROVE batch'[u] \cap Rest(u)' = {}
    <3>1. batch[u] \subseteq Outstanding /\ batch[u] \cap Rest(u) = {}
      BY <1>3, Split DEF IInv, BatchesOK
    <3> QED
      BY <1>1, <1>3, <1>4, <3>1
  <2> QED
    BY <1>1, <1>2, <1>5, <2>1 DEF IInv, BatchesOK
<1>7. CountsOK'
  <2>1. \A u \in Threads : (pc'[u] \in Asleep <=> pc[u] \in Asleep) /\ (InLoop(u)' <=> InLoop(u))
    BY <1>1, <1>2 DEF Asleep, InLoop
  <2>2. Waiting' = Waiting /\ Looping' = Looping
    BY <2>1 DEF Waiting, Looping
  <2> QED
    BY <1>1, <2>2 DEF IInv, CountsOK
<1>8. ControlOK'
  <2>1. \A u \in Masters : pc'[u] = pc[u]
    BY <1>2, CheckQueueAssumption DEF Threads
  <2> QED
    BY <1>1, <1>4, <2>1 DEF IInv, ControlOK, Idle
<1>9. VerdictOK'
  BY <1>1, <1>2, <1>4 DEF IInv, VerdictOK
<1>10. TypesOK'
  BY <1>1, <1>2 DEF IInv, TypesOK
<1>11. CB!Add(S)
  BY <1>1, <1>4 DEF CB!Add
<1> QED
  BY <1>6, <1>7, <1>8, <1>9, <1>10, <1>11 DEF IInv, CB!Next

-----------------------------------------------------------------------------
(* The theorems                                                            *)

\* Nothing is queued before the first block is connected.
LEMMA InitHolds == Init => IInv /\ CB!Init
<1> SUFFICES ASSUME Init PROVE IInv /\ CB!Init
  OBVIOUS
<1>1. Outstanding = {} /\ \A t \in Threads : batch[t] = {}
  BY DEF Init, Outstanding
<1>2. TypesOK
  <2>1. pc \in [Threads -> Pcs] /\ batch \in [Threads -> SUBSET Checks] /\ fOk \in [Threads -> BOOLEAN]
    BY DEF Init, Pcs
  <2>2. fAllOk \in BOOLEAN /\ stop \in BOOLEAN /\ interrupted = {}
    BY DEF Init
  <2>3. queue \in SUBSET Checks /\ nIdle \in Int /\ nTotal \in Int
    BY SMT DEF Init
  <2>4. /\ control \in Masters \cup {NoMaster}
        /\ call \in {"none", "open", "wait", "destroy", "done", "terminate"}
    BY DEF Init
  <2> QED
    BY <2>1, <2>2, <2>3, <2>4 DEF TypesOK
<1>3. BatchesOK
  BY <1>1, FS_EmptySet DEF Init, BatchesOK
<1>4. ControlOK
  BY <1>1, CheckQueueAssumption DEF Init, ControlOK, Idle, Threads
<1>5. VerdictOK
  BY <1>1 DEF Init, VerdictOK, Idle
<1>6. CountsOK
  <2>1. Waiting = {} /\ Looping = {}
    BY <1>1 DEF Init, Waiting, Looping, Asleep, InLoop
  <2> QED
    BY SMT, <2>1, FS_EmptySet DEF Init, CountsOK
<1>7. CB!Init
  BY <1>1 DEF Init, CB!Init
<1> QED
  BY <1>2, <1>3, <1>4, <1>5, <1>6, <1>7 DEF IInv

\* Every step keeps the invariant, and is a step of CheckBatch or a stutter.
LEMMA StepHolds == IInv /\ [Next]_vars => IInv' /\ [CB!Next]_CB!vars
<1> SUFFICES ASSUME IInv, [Next]_vars PROVE IInv' /\ [CB!Next]_CB!vars
  OBVIOUS
<1>1. CASE UNCHANGED vars
  <2>1. UNCHANGED <<queueVars, threadVars, controlVars, interruptVars>>
    BY <1>1 DEF vars
  <2>2. /\ CountsOK' /\ Outstanding' = Outstanding /\ \A u \in Threads : Rest(u)' = Rest(u)
    BY <2>1, Undisturbed DEF threadVars, interruptVars, InLoop
  <2>3. BatchesOK' /\ ControlOK' /\ VerdictOK' /\ TypesOK'
    <3> USE DEF IInv, queueVars, threadVars, controlVars, interruptVars
    <3>1. BatchesOK'
      BY <2>1, <2>2 DEF BatchesOK
    <3>2. ControlOK'
      BY <2>1, <2>2 DEF ControlOK
    <3>3. VerdictOK'
      BY <2>1, <2>2 DEF VerdictOK
    <3>4. TypesOK'
      BY <2>1, <2>2 DEF TypesOK
    <3> QED
      BY <3>1, <3>2, <3>3, <3>4
  <2> QED
    BY <2>1, <2>2, <2>3 DEF IInv, CB!vars, controlVars
<1>2. CASE Next
  BY <1>2, ControlSteps, AddStep, LockedSteps, ThreadSteps, ThrowStep, InterruptStep
     DEF Next, LoopStep
<1> QED
  BY <1>1, <1>2

\* nTodo, nIdle and nTotal of CCheckQueue are exact, whatever the threads and the batches.
THEOREM CountsAreExact == Spec => []CountsExact
<1>1. Init => IInv
  BY InitHolds
<1>2. IInv /\ [Next]_vars => IInv'
  BY StepHolds
<1> QED
  BY <1>1, <1>2, Implies, PTL DEF Spec

\* Wait answers for exactly the checks that were added, and a control object ends only
\* when all of them are finished: the workers, counters and condition variables of
\* CCheckQueue implement CheckBatch.
THEOREM Refinement == Spec => ImplementsCheckBatch
<1>1. Init => IInv /\ CB!Init
  BY InitHolds
<1>2. IInv /\ [Next]_vars => IInv' /\ [CB!Next]_CB!vars
  BY StepHolds
<1> QED
  BY <1>1, <1>2, PTL DEF Spec, ImplementsCheckBatch, CB!Spec

=============================================================================
