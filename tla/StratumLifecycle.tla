--------------------------- MODULE StratumLifecycle ---------------------------
(***************************************************************************)
(* Starting and stopping the stratum server (stratum.cpp): the caller, who *)
(* is the mining page or the shutdown of the node, the acceptor, the job   *)
(* thread and one thread per client, all in one boost::thread_group.       *)
(*                                                                         *)
(* The group is external: create_thread takes its lock exclusively and     *)
(* join_all holds it, shared, while it waits for the threads.  A send to a *)
(* peer that does not read blocks, and closing the socket in another       *)
(* thread does not wake it.                                                *)
(***************************************************************************)
EXTENDS Integers, FiniteSets

CONSTANTS Miners,
          MaxClients,  \* -stratummaxconn
          MayFreeze,   \* the peers that may stop reading
          MaxStarts    \* bound of a run

ASSUME LifecycleAssumption ==
    IsFiniteSet(Miners) /\ MayFreeze \subseteq Miners /\ MaxClients \in Nat

VARIABLES running,     \* g_fStratumRunning
          stop,        \* g_fStratumStop
          listening,   \* g_listenSocket is open
          locked,      \* join_all holds the lock of g_stratumThreads
          caller,      \* where Start or Stop is
          starts,      \* how often the server was started
          apc, fresh,  \* the acceptor, and the connection it accepted
          jpc, unsent, \* the job thread, the clients it has yet to send to
          to,          \* the client it is sending to
          clientPc,    \* clientPc[c]: the thread of client c
          open,        \* open[c]: client->sock is open
          frozen,      \* the peers that stopped reading
          g_vClients,
          hasJob       \* g_mapJobs holds a job

callVars == <<running, stop, listening, locked, caller, starts>>
pcVars == <<apc, fresh, jpc, unsent, to, clientPc>>
tableVars == <<open, frozen, g_vClients, hasJob>>
serverVars == <<callVars, pcVars, tableVars>>

Over == {"none", "done"}

-----------------------------------------------------------------------------
(* The caller                                                              *)

\* StartStratumServer: nothing when the server runs; the payout script or the socket
\* may not be had.
StartStratumServer ==
    /\ caller = "idle" /\ ~running /\ starts < MaxStarts
    /\ starts' = starts + 1
    /\ stop' = FALSE
    /\ \/ UNCHANGED <<running, listening, apc, jpc>>
       \/ running' = TRUE /\ listening' = TRUE /\ apc' = "loop" /\ jpc' = "loop"
    /\ UNCHANGED <<locked, caller, fresh, unsent, to, clientPc, tableVars>>

InterruptStratumServer ==
    /\ caller = "idle" /\ ~stop
    /\ stop' = TRUE
    /\ UNCHANGED <<running, listening, locked, caller, starts, pcVars, tableVars>>

\* StopStratumServer: the flag is set and the listening socket is closed,
StopStratumServer ==
    /\ caller = "idle" /\ running
    /\ stop' = TRUE
    /\ listening' = FALSE
    /\ caller' = "close"
    /\ UNCHANGED <<running, locked, starts, pcVars, tableVars>>

\* the sockets of the clients in the list are closed,
CloseClients ==
    /\ caller = "close"
    /\ open' = [c \in Miners |-> open[c] /\ c \notin g_vClients]
    /\ caller' = "join"
    /\ UNCHANGED <<running, stop, listening, locked, starts, pcVars, frozen, g_vClients, hasJob>>

\* join_all takes the lock of the group
JoinAll ==
    /\ caller = "join" /\ ~locked
    /\ locked' = TRUE
    /\ UNCHANGED <<running, stop, listening, caller, starts, pcVars, tableVars>>

\* Mutant of AllJoined: the threads of the clients are not in the group
AllJoinedMutant == {apc, jpc} \subseteq Over

\* and waits for every thread of it; the tables are emptied.
AllJoined == {apc, jpc} \cup {clientPc[c] : c \in Miners} \subseteq Over
CleanUp ==
    /\ caller = "join" /\ locked
    /\ AllJoined
    /\ locked' = FALSE
    /\ g_vClients' = {} /\ hasJob' = FALSE
    /\ running' = FALSE
    /\ caller' = "idle"
    /\ UNCHANGED <<stop, listening, starts, pcVars, open, frozen>>

-----------------------------------------------------------------------------
(* StratumAcceptThread                                                     *)

\* The head of the loop, and a select() that finds nothing
AcceptLoop ==
    /\ apc \in {"loop", "select"}
    /\ apc' = IF stop THEN "done" ELSE IF apc = "loop" THEN "select" ELSE "loop"
    /\ UNCHANGED <<callVars, fresh, jpc, unsent, to, clientPc, tableVars>>

\* accept(), with the test of the number of clients; a connection over the limit is
\* closed and the loop goes on.
AcceptConnection(c) ==
    /\ apc = "select" /\ ~stop /\ listening
    /\ clientPc[c] = "none" /\ Cardinality(g_vClients) < MaxClients
    /\ fresh' = {c}
    /\ open' = [open EXCEPT ![c] = TRUE]
    /\ apc' = "push"
    /\ UNCHANGED <<callVars, jpc, unsent, to, clientPc, frozen, g_vClients, hasJob>>

PushClient ==
    /\ apc = "push"
    /\ g_vClients' = g_vClients \cup fresh
    /\ apc' = "create"
    /\ UNCHANGED <<callVars, fresh, jpc, unsent, to, clientPc, open, frozen, hasJob>>

\* create_thread needs the lock of the group for itself.
CreateThread ==
    /\ apc = "create" /\ ~locked
    /\ clientPc' = [c \in Miners |-> IF c \in fresh THEN "loop" ELSE clientPc[c]]
    /\ fresh' = {}
    /\ apc' = "loop"
    /\ UNCHANGED <<callVars, jpc, unsent, to, tableVars>>

-----------------------------------------------------------------------------
(* StratumJobThread                                                        *)

JobLoop ==
    /\ jpc = "loop"
    /\ jpc' = IF stop THEN "done" ELSE "create"
    /\ UNCHANGED <<callVars, apc, fresh, unsent, to, clientPc, tableVars>>

\* CreateJob registers the job, BroadcastJob copies the list
CreateJob ==
    /\ jpc = "create"
    /\ hasJob' = TRUE
    /\ unsent' = g_vClients
    /\ jpc' = "broadcast"
    /\ UNCHANGED <<callVars, apc, fresh, to, clientPc, open, frozen, g_vClients>>

\* and sends to one client after the other.  SendJson gives up when the server is being
\* stopped, before it calls send().
BroadcastNext ==
    /\ jpc = "broadcast"
    /\ IF unsent = {} \/ stop
       THEN jpc' = "loop" /\ unsent' = {} /\ UNCHANGED to
       ELSE \E c \in unsent : jpc' = "send" /\ unsent' = unsent \ {c} /\ to' = {c}
    /\ UNCHANGED <<callVars, apc, fresh, clientPc, tableVars>>

\* send() returns, with an error when the socket is closed.
JobSent ==
    /\ jpc = "send" /\ to \cap frozen = {}
    /\ jpc' = "broadcast" /\ to' = {}
    /\ UNCHANGED <<callVars, apc, fresh, unsent, clientPc, tableVars>>

-----------------------------------------------------------------------------
(* StratumClientThread of client c                                         *)

\* Mutant of ClientLoop: the flag is not looked at
ClientLoopMutant(c) ==
    /\ clientPc[c] = "loop"
    /\ clientPc' = [clientPc EXCEPT ![c] = "select"]
    /\ UNCHANGED <<callVars, apc, fresh, jpc, unsent, to, tableVars>>

ClientLoop(c) ==
    /\ clientPc[c] = "loop"
    /\ clientPc' = [clientPc EXCEPT ![c] = IF stop THEN "close" ELSE "select"]
    /\ UNCHANGED <<callVars, apc, fresh, jpc, unsent, to, tableVars>>

\* select() times out, or the connection has ended, or a line is handled up to its
\* answer, which SendJson drops when the server is being stopped.
ClientSelect(c) ==
    /\ clientPc[c] = "select"
    /\ \/ clientPc' = [clientPc EXCEPT ![c] = "loop"]
       \/ clientPc' = [clientPc EXCEPT ![c] = "close"]
       \/ open[c] /\ ~stop /\ clientPc' = [clientPc EXCEPT ![c] = "send"]
    /\ UNCHANGED <<callVars, apc, fresh, jpc, unsent, to, tableVars>>

ClientSent(c) ==
    /\ clientPc[c] = "send" /\ c \notin frozen
    /\ clientPc' = [clientPc EXCEPT ![c] = "loop"]
    /\ UNCHANGED <<callVars, apc, fresh, jpc, unsent, to, tableVars>>

\* The socket is closed and the client leaves the list.
ClientExit(c) ==
    /\ clientPc[c] = "close"
    /\ open' = [open EXCEPT ![c] = FALSE]
    /\ g_vClients' = g_vClients \ {c}
    /\ clientPc' = [clientPc EXCEPT ![c] = "done"]
    /\ UNCHANGED <<callVars, apc, fresh, jpc, unsent, to, frozen, hasJob>>

\* The peer stops reading.
StopReading(c) ==
    /\ c \in MayFreeze \ frozen /\ open[c]
    /\ frozen' = frozen \cup {c}
    /\ UNCHANGED <<callVars, pcVars, open, g_vClients, hasJob>>

-----------------------------------------------------------------------------
ServerInit ==
    /\ running = FALSE /\ stop = FALSE /\ listening = FALSE /\ locked = FALSE
    /\ caller = "idle" /\ starts = 0
    /\ apc = "none" /\ fresh = {} /\ jpc = "none" /\ unsent = {} /\ to = {}
    /\ clientPc = [c \in Miners |-> "none"] /\ open = [c \in Miners |-> FALSE]
    /\ frozen = {} /\ g_vClients = {} /\ hasJob = FALSE

Caller == CloseClients \/ JoinAll \/ CleanUp
Acceptor == AcceptLoop \/ PushClient \/ CreateThread
StratumJobThread == JobLoop \/ CreateJob \/ BroadcastNext \/ JobSent
StratumClientThread(c) == ClientLoop(c) \/ ClientSelect(c) \/ ClientSent(c) \/ ClientExit(c)

ServerNext ==
    \/ StartStratumServer \/ InterruptStratumServer \/ StopStratumServer
    \/ Caller \/ Acceptor \/ StratumJobThread
    \/ \E c \in Miners : AcceptConnection(c) \/ StratumClientThread(c) \/ StopReading(c)

ServerSpec == ServerInit /\ [][ServerNext]_serverVars

\* Every thread that can run does.
FairServerSpec ==
    /\ ServerSpec
    /\ WF_serverVars(Caller) /\ WF_serverVars(Acceptor) /\ WF_serverVars(StratumJobThread)
    /\ \A c \in Miners : WF_serverVars(StratumClientThread(c))

-----------------------------------------------------------------------------
(* Properties                                                              *)

\* Every variable has its type.
ServerTypeOK ==
    /\ {running, stop, listening, locked, hasJob} \subseteq BOOLEAN
    /\ caller \in {"idle", "close", "join"} /\ starts \in Nat
    /\ apc \in Over \cup {"loop", "select", "push", "create"}
    /\ jpc \in Over \cup {"loop", "create", "broadcast", "send"}
    /\ clientPc \in [Miners -> Over \cup {"loop", "select", "send", "close"}]
    /\ open \in [Miners -> BOOLEAN]
    /\ {fresh, unsent, to, frozen, g_vClients} \subseteq SUBSET Miners

\* No thread of the server lives.
AllOver == {apc, jpc} \cup {clientPc[c] : c \in Miners} \subseteq Over

\* After StopStratumServer nothing is left of the server: no thread that would wake up
\* when StartStratumServer clears the flag, use the thread group that was deleted, or
\* put a job or a client of the old server into the tables of the next one.
NothingLeft ==
    ~running => AllOver /\ g_vClients = {} /\ ~hasJob

\* Where a thread may hang while the server stops
Stuck ==
    \/ apc = "create" /\ locked
    \/ jpc = "send" /\ to \cap frozen # {}
    \/ \E c \in frozen : clientPc[c] = "send"

\* StopStratumServer ends unless a thread is inside send() to a peer that does not read
\* or the acceptor waits for the lock that join_all holds: those are the only two ways.
StopEndsUnlessStuck == caller # "idle" ~> caller = "idle" \/ Stuck

\* "Join and clean up all stratum threads.": StopStratumServer returns.
StopEnds == caller # "idle" ~> caller = "idle"

=============================================================================
