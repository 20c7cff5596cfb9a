------------------------------ MODULE CheckQueue ------------------------------
(***************************************************************************)
(* The queue of script checks (checkqueue.h) and how ConnectBlock uses it: *)
(* a master thread adds checks, the workers run them in batches, and the   *)
(* master joins them in Wait until all are done.                           *)
(*                                                                         *)
(* Everything Loop and Add do between locking and unlocking the mutex is   *)
(* one step.  The checks of a block are numbered in the order in which it  *)
(* adds them; the queue is a stack, so its back is its greatest element.   *)
(* fQuit is never set.  boost::condition_variable is external: a wait may  *)
(* end without a notification, and a thread of the group that was          *)
(* interrupted does not return from a wait but throws.  An exception that  *)
(* leaves a destructor ends the process (std::terminate).                  *)
(***************************************************************************)
EXTENDS Integers, FiniteSets

CONSTANTS Workers,    \* the threads of ThreadScriptCheck
          Masters,    \* the threads that connect blocks
          Group,      \* the masters of threadGroup: the import thread
          NoMaster,
          Checks,     \* the checks of a block
          Bad,        \* the checks that fail
          nBatchSize,
          MaxBlocks   \* bound of a run: blocks connected

ASSUME CheckQueueAssumption ==
    /\ Checks \subseteq Nat /\ IsFiniteSet(Checks) /\ Bad \subseteq Checks
    /\ IsFiniteSet(Workers) /\ IsFiniteSet(Masters)
    /\ Workers \cap Masters = {} /\ Group \subseteq Masters
    /\ NoMaster \notin Masters
    /\ nBatchSize \in Nat \ {0}
    /\ MaxBlocks \in Nat

VARIABLES queue, nIdle, nTotal, fAllOk, nTodo,
          pc,           \* where each thread is
          batch,        \* batch[t]: vChecks of t, of size nNow
          fOk,          \* fOk[t]
          control,      \* the holder of ControlMutex
          call,         \* what the holder is doing with its control object
          interrupted,  \* the threads that are to throw at their next wait
          stop,         \* interrupt_all was called
          txdata,       \* the vector the checks point to exists
          added,        \* history: the checks added through the control object
          verdict,      \* what its Wait returned
          blocks        \* how often a control object was made

queueVars == <<queue, nIdle, nTotal, fAllOk, nTodo>>
threadVars == <<pc, batch, fOk>>
controlVars == <<control, call, txdata, added, verdict, blocks>>
interruptVars == <<interrupted, stop>>
vars == <<queueVars, threadVars, controlVars, interruptVars>>

Threads == Workers \cup Masters

\* Checks that were added and not yet taken off nTodo.
Outstanding == queue \cup UNION {batch[t] : t \in Threads}

Init ==
    /\ queue = {} /\ nIdle = 0 /\ nTotal = 0 /\ fAllOk = TRUE /\ nTodo = 0
    /\ pc = [t \in Threads |-> IF t \in Workers THEN "top" ELSE "out"]
    /\ batch = [t \in Threads |-> {}]
    /\ fOk = [t \in Threads |-> TRUE]
    /\ control = NoMaster /\ call = "none"
    /\ interrupted = {} /\ stop = FALSE
    /\ txdata = FALSE /\ added = {} /\ verdict = "none" /\ blocks = 0

------------------------------------------------------------------------------
(* The control object of ConnectBlock                                      *)

\* CCheckQueueControl::CCheckQueueControl, and the declaration of txdata that follows.
Control(m) ==
    /\ control = NoMaster /\ blocks < MaxBlocks
    /\ control' = m /\ call' = "open" /\ txdata' = TRUE
    /\ added' = {} /\ verdict' = "none"
    /\ blocks' = blocks + 1
    /\ UNCHANGED <<queueVars, threadVars, interruptVars>>

\* The threads of W that a notification wakes: one that waits, or all.
Notified(W, all) ==
    LET waiting == {t \in W : pc[t] = "wait"}
    IN IF all \/ waiting = {} THEN {waiting} ELSE {{t} : t \in waiting}

Add(m, S) ==
    /\ control = m /\ call = "open"
    /\ S \cap added = {} /\ \A c \in S, d \in Checks \ (added \cup S) : c < d
    /\ queue' = queue \cup S
    /\ nTodo' = nTodo + Cardinality(S)
    /\ added' = added \cup S
    /\ \E W \in IF S = {} THEN {{}} ELSE Notified(Workers, Cardinality(S) > 1) :
          pc' = [t \in Threads |-> IF t \in W THEN "woken" ELSE pc[t]]
    /\ UNCHANGED <<nIdle, nTotal, fAllOk, batch, fOk, control, call, txdata, verdict,
                   blocks, interruptVars>>

\* CCheckQueueControl::Wait: Loop(true) is entered.
Wait(m) ==
    /\ control = m /\ call = "open"
    /\ call' = "wait"
    /\ pc' = [pc EXCEPT ![m] = "top"]
    /\ UNCHANGED <<queueVars, batch, fOk, control, txdata, added, verdict, blocks,
                   interruptVars>>

\* ConnectBlock returns before it waits.  txdata was declared after control, so it is
\* gone when ~CCheckQueueControl calls Wait.
EarlyReturn(m) ==
    /\ control = m /\ call = "open"
    /\ call' = "destroy" /\ txdata' = FALSE
    /\ pc' = [pc EXCEPT ![m] = "top"]
    /\ UNCHANGED <<queueVars, batch, fOk, control, added, verdict, blocks, interruptVars>>

\* ~CCheckQueueControl leaves ControlMutex.
Release(m) ==
    /\ control = m /\ call = "done"
    /\ control' = NoMaster /\ call' = "none" /\ txdata' = FALSE
    /\ UNCHANGED <<queueVars, threadVars, added, verdict, blocks, interruptVars>>

------------------------------------------------------------------------------
(* CCheckQueue::Loop                                                       *)

\* The size of the next batch, for a queue of n checks.
BatchSize(n, total, idle) ==
    LET share == n \div (total + idle + 1)
        most == IF share < nBatchSize THEN share ELSE nBatchSize
    IN IF most > 1 THEN most ELSE 1

\* Checks are taken from the queue: the mutex is left with a batch to run.
Take(t, p, ok, idle, total) ==
    /\ queue # {}
    /\ \E S \in SUBSET queue :
          /\ Cardinality(S) = BatchSize(Cardinality(queue), total, idle)
          /\ \A c \in S, d \in queue \ S : c > d
          /\ batch' = [batch EXCEPT ![t] = S]
          /\ queue' = queue \ S
    /\ fOk' = [fOk EXCEPT ![t] = ok]
    /\ pc' = [p EXCEPT ![t] = "work"]
    /\ fAllOk' = ok /\ nIdle' = idle /\ nTotal' = total
    /\ UNCHANGED <<call, verdict>>

\* Mutant of Return: without the reset of fAllOk.
ReturnMutant(t, p, todo, ok, idle, total) ==
    /\ queue = {} /\ t \in Masters /\ todo = 0
    /\ nTotal' = total - 1
    /\ fAllOk' = ok
    /\ verdict' = IF call = "wait" THEN (IF ok THEN "ok" ELSE "bad") ELSE verdict
    /\ call' = "done"
    /\ pc' = [p EXCEPT ![t] = "out"]
    /\ batch' = [batch EXCEPT ![t] = {}]
    /\ nIdle' = idle
    /\ UNCHANGED <<queue, fOk>>

\* The master leaves: everything that was added is done.
Return(t, p, todo, ok, idle, total) ==
    /\ queue = {} /\ t \in Masters /\ todo = 0
    /\ nTotal' = total - 1
    /\ fAllOk' = TRUE
    /\ verdict' = IF call = "wait" THEN (IF ok THEN "ok" ELSE "bad") ELSE verdict
    /\ call' = "done"
    /\ pc' = [p EXCEPT ![t] = "out"]
    /\ batch' = [batch EXCEPT ![t] = {}]
    /\ nIdle' = idle
    /\ UNCHANGED <<queue, fOk>>

Sleep(t, p, todo, ok, idle, total) ==
    /\ queue = {} /\ ~(t \in Masters /\ todo = 0)
    /\ nIdle' = idle + 1
    /\ pc' = [p EXCEPT ![t] = "wait"]
    /\ batch' = [batch EXCEPT ![t] = {}]
    /\ fAllOk' = ok /\ nTotal' = total
    /\ UNCHANGED <<queue, fOk, call, verdict>>

\* The while loop and what follows it, up to the unlock or the wait.
Decide(t, p, todo, ok, idle, total) ==
    /\ nTodo' = todo
    /\ \/ Take(t, p, ok, idle, total)
       \/ Return(t, p, todo, ok, idle, total)
       \/ Sleep(t, p, todo, ok, idle, total)
    /\ UNCHANGED <<control, txdata, added, blocks, interruptVars>>

\* The first iteration.
Enter(t) ==
    /\ pc[t] = "top" /\ batch[t] = {}
    /\ Decide(t, pc, nTodo, fAllOk, nIdle, nTotal + 1)

\* Mutant of CleanUp: it leaves the waiting master alone.
CleanUpMutant(t) ==
    /\ pc[t] = "top" /\ batch[t] # {}
    /\ Decide(t, pc, nTodo - Cardinality(batch[t]), fAllOk /\ fOk[t], nIdle, nTotal)

\* The clean-up after a batch; whoever finishes the last check tells the master.
CleanUp(t) ==
    /\ pc[t] = "top" /\ batch[t] # {}
    /\ LET todo == nTodo - Cardinality(batch[t])
       IN \E W \in IF todo = 0 /\ t \notin Masters THEN Notified(Masters, FALSE) ELSE {{}} :
             Decide(t, [u \in Threads |-> IF u \in W THEN "woken" ELSE pc[u]],
                    todo, fAllOk /\ fOk[t], nIdle, nTotal)

\* Mutant of Resume: without nIdle--
ResumeMutant(t) ==
    /\ pc[t] = "woken" /\ t \notin interrupted
    /\ Decide(t, pc, nTodo, fAllOk, nIdle, nTotal)

\* cond.wait returns with the mutex.
Resume(t) ==
    /\ pc[t] = "woken" /\ t \notin interrupted
    /\ Decide(t, pc, nTodo, fAllOk, nIdle - 1, nTotal)

\* The checks of the batch are run, outside of the mutex, until one fails.
Work(t) ==
    /\ pc[t] = "work"
    /\ fOk' = [fOk EXCEPT ![t] = @ /\ batch[t] \cap Bad = {}]
    /\ pc' = [pc EXCEPT ![t] = "top"]
    /\ UNCHANGED <<queueVars, batch, controlVars, interruptVars>>

\* A wait ends without a notification.
Alive == call # "terminate"
Spurious(t) ==
    /\ Alive /\ pc[t] = "wait"
    /\ pc' = [pc EXCEPT ![t] = "woken"]
    /\ UNCHANGED <<queueVars, batch, fOk, controlVars, interruptVars>>

\* threadGroup.interrupt_all in Interrupt.
InterruptAll ==
    /\ ~stop
    /\ stop' = TRUE
    /\ interrupted' = Workers \cup Group
    /\ UNCHANGED <<queueVars, threadVars, controlVars>>

\* cond.wait throws thread_interrupted: nIdle and nTotal stay as they are.  A worker
\* ends; a master unwinds ConnectBlock, and ~CCheckQueueControl waits once more.  When it
\* was already the destructor that waited, which is noexcept, the process is terminated.
Throw(t) ==
    /\ pc[t] \in {"wait", "woken"} /\ t \in interrupted
    /\ interrupted' = interrupted \ {t}
    /\ \/ /\ t \in Workers
          /\ pc' = [pc EXCEPT ![t] = "dead"]
          /\ UNCHANGED <<call, txdata>>
       \/ /\ t \in Masters /\ call = "wait"
          /\ pc' = [pc EXCEPT ![t] = "top"]
          /\ call' = "destroy" /\ txdata' = FALSE
       \/ /\ t \in Masters /\ call = "destroy"
          /\ pc' = [pc EXCEPT ![t] = "out"]
          /\ call' = "terminate"
          /\ UNCHANGED txdata
    /\ UNCHANGED <<queueVars, batch, fOk, control, added, verdict, blocks, stop>>

------------------------------------------------------------------------------

LoopStep(t) ==
    /\ Alive
    /\ Enter(t) \/ CleanUp(t) \/ Resume(t) \/ Work(t) \/ Throw(t)

Next ==
    \/ \E m \in Masters : Control(m) \/ Wait(m) \/ EarlyReturn(m) \/ Release(m)
    \/ \E m \in Masters, S \in SUBSET Checks : Add(m, S)
    \/ \E t \in Threads : LoopStep(t) \/ Spurious(t)
    \/ InterruptAll

Spec == Init /\ [][Next]_vars

\* A thread in the loop goes on: the mutex is held only for a moment and a script check
\* ends.  Nothing else is assumed, and no wait has to end without a notification.
FairSpec == Spec /\ \A t \in Threads : WF_vars(LoopStep(t))

------------------------------------------------------------------------------
(* Properties                                                              *)

TypeOK ==
    /\ queue \subseteq Checks
    /\ nIdle \in Nat /\ nTotal \in Nat /\ nTodo \in Nat
    /\ fAllOk \in BOOLEAN /\ stop \in BOOLEAN /\ txdata \in BOOLEAN
    /\ pc \in [Threads -> {"out", "top", "work", "wait", "woken", "dead"}]
    /\ batch \in [Threads -> SUBSET Checks]
    /\ fOk \in [Threads -> BOOLEAN]
    /\ control \in Masters \cup {NoMaster}
    /\ call \in {"none", "open", "wait", "destroy", "done", "terminate"}
    /\ interrupted \subseteq Threads
    /\ added \subseteq Checks
    /\ verdict \in {"none", "ok", "bad"}
    /\ blocks \in 0..MaxBlocks

InLoop(t) == pc[t] \in {"work", "wait", "woken"} \/ (pc[t] = "top" /\ batch[t] # {})

\* nTodo counts every check that is queued or in a batch, each once, so it reaches zero
\* exactly when the last one is finished and never wraps; nIdle and nTotal count the
\* threads that wait and that are in Loop, and the ones that were thrown out of a wait.
CountsExact ==
    LET waiting == Cardinality({t \in Threads : pc[t] \in {"wait", "woken"}})
        inLoop == Cardinality({t \in Threads : InLoop(t)})
    IN /\ nTodo = Cardinality(Outstanding)
       /\ nIdle >= waiting /\ nTotal >= inLoop
       /\ nIdle - waiting = nTotal - inLoop
       /\ ~stop => nIdle = waiting
       /\ \A t, u \in Threads : t # u => batch[t] \cap batch[u] = {}

\* Wait returns only when every check that was added is finished, with the conjunction
\* of exactly these checks, and the control object does not end before that, neither
\* on an early return of ConnectBlock nor when the wait is interrupted.
CB == INSTANCE CheckBatch WITH pending <- Outstanding
ImplementsCheckBatch == CB!Spec

\* Loop(true) returns: the notification of the master is not lost, and the checks are
\* finished even when every worker was interrupted.  Only a master that is interrupted
\* itself, on a shutdown that catches the import thread in ~CCheckQueueControl, takes the
\* process down instead.
WaitEnds ==
    \A m \in Masters :
        (control = m /\ call \in {"wait", "destroy"})
            ~> (call = "done" \/ (call = "terminate" /\ stop /\ m \in Group))

\* The comment at txdata.reserve in ConnectBlock, "Required so that pointers to
\* individual PrecomputedTransactionData don't get invalidated": a check runs only while
\* txdata exists.
PointersValid == \A t \in Threads : pc[t] = "work" => txdata

==============================================================================
