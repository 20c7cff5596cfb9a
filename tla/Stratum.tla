------------------------------- MODULE Stratum -------------------------------
(***************************************************************************)
(* The built-in stratum server (stratum.cpp): the job thread turns the tip *)
(* of the chain into jobs and sends them to the miners, one thread per     *)
(* connection answers what the miner sends, and an acceptor adds the       *)
(* connections.  The threads share the table of jobs and the list of       *)
(* clients, under cs_stratum, and the fields of a client, under no lock.   *)
(*                                                                         *)
(* One action is what a thread does between two points where another one   *)
(* can come in: a locked section, a read of the chain, a message sent.     *)
(* A work stands for extranonce2, ntime and nonce as the miner spells them *)
(* in hexadecimal, and several spellings are read as one share.  The hash  *)
(* of the header rebuilt from the share is an input of the submission.     *)
(***************************************************************************)
EXTENDS Integers, FiniteSets, SequencesExt

CONSTANTS Clients,     \* connections
          Tips,        \* the blocks that may be the tip
          FirstTips,   \* the ones that may be it when the server starts
          Height,      \* Height[t]: the height of t
          Default,     \* g_defaultPayoutScript
          Torn,        \* a payout script read while it is being assigned
          None,
          Works,       \* a work has a text, and the time and the share that are read from it
          MaxConn,     \* -stratummaxconn
          MaxJobs,     \* 8, the jobs that CreateJob keeps
          MaxDupes,    \* 5000, the keys that setDupes holds
          Base,        \* 16, the base in which job ids are written
          Rate,        \* the jobs that the sleep of the job thread allows per second
          RateLimit,   \* 2 s between jobs for a changed mempool
          Refresh,     \* 45 s between jobs at the latest
          Future,      \* how far ahead of the clock a share may be dated
          Frozen,      \* the clients that may stop reading what they are sent
          Users,       \* the clients that give an address to be paid at
          MaxTips, MaxMempool, MaxTime, MaxBack, \* bounds of a run
          MaxShares,   \* MaxShares[c]: how often c submits
          Quiet        \* the second after which the chain and the miners do nothing new

ASSUME ClientsAssumption == IsFiniteSet(Clients) /\ Clients \cap {Default, Torn, None} = {}
ASSUME TipsAssumption == FirstTips \subseteq Tips
ASSUME LimitsAssumption ==
    /\ MaxConn \in Nat \ {0} /\ MaxJobs \in Nat \ {0} /\ MaxDupes \in Nat /\ Base \in Nat \ {0, 1}
    /\ Rate \in 1..(MaxJobs - 1)
ASSUME WorksAssumption == \A w \in Works : w.time \in Nat /\ w.wellFormed \in BOOLEAN

VARIABLES tip, tips,   \* chainActive.Tip(), and how often it changed
          mempool,     \* mempool.size()
          now, back,   \* GetTime(), and how often it was set back
          jobs,        \* g_mapJobs
          current,     \* g_strCurrentJob, 0 when it is empty
          nJob,        \* g_nJobCounter
          pc,          \* where the job thread is
          seen,        \* its locals hashTip, nMempool, nNow
          last,        \* its locals hashLastTip, nLastMempool, nLastJobTime
          job,         \* the job it makes and sends
          todo,        \* the clients it has yet to send it to
          accepting,   \* the connection that the acceptor is about to add
          vClients,    \* g_vClients
          client,      \* client[c]: the StratumClient; nExtraNonce1 is c itself
          cpc,         \* cpc[c]: where the thread of c is
          held,        \* held[c]: the job it is about to send
          told,        \* told[c]: the last mining.notify that c received
          credited     \* credited[c]: what was accepted from c, and after how many emptyings

chainVars == <<tip, tips, mempool, now, back>>
jobVars == <<jobs, current, nJob>>
threadVars == <<pc, seen, last, job, todo>>
listVars == <<accepting, vClients>>
clientVars == <<client, cpc, held, told, credited>>
vars == <<chainVars, jobVars, threadVars, listVars, clientVars>>

\* Where the thread of a client waits for the next line, or is over
Resting == {"none", "refused", "idle", "gone"}

-----------------------------------------------------------------------------
(* The chain and the clock                                                 *)

UpdatedBlockTip(t) ==
    /\ tips < MaxTips /\ now <= Quiet
    /\ tip' = t /\ t # tip
    /\ tips' = tips + 1
    /\ UNCHANGED <<mempool, now, back, jobVars, threadVars, listVars, clientVars>>

\* The job thread sees the size of the mempool only: it may grow and shrink back between
\* two looks, and a change that keeps the size is none for it.
MempoolChanges ==
    /\ now <= Quiet
    /\ mempool' \in 0..MaxMempool /\ mempool' # mempool
    /\ UNCHANGED <<tip, tips, now, back, jobVars, threadVars, listVars, clientVars>>

-----------------------------------------------------------------------------
(* The job thread                                                          *)

\* The id of a job as g_mapJobs orders it: strprintf("%x"), compared as a string
Digits(n) ==
    LET digits[m \in 0..n] ==
            IF m < Base THEN <<m>> ELSE Append(digits[m \div Base], m % Base)
    IN  digits[n]
StringLess(a, b) ==
    LET s == Digits(a)
        t == Digits(b)
    IN  \E i \in 1..Len(t) :
            /\ i <= Len(s) + 1
            /\ SubSeq(s, 1, i - 1) = SubSeq(t, 1, i - 1)
            /\ i <= Len(s) => s[i] < t[i]

\* The order in which CreateJob looks for the job to drop
Older(a, b) ==
    \/ a.nCreated < b.nCreated
    \/ a.nCreated = b.nCreated /\ StringLess(a.id, b.id)

\* Mutant of Kept: the new job may go too
KeptWithoutNew(S, new) == {j \in S : Cardinality({k \in S : ~Older(k, j)}) <= MaxJobs}

\* What CreateJob leaves in the table S after it added the job new: the oldest jobs
\* are dropped while there are too many, but never new itself.
Kept(S, new) ==
    {j \in S : \/ j = new \/ ~Older(j, new)
               \/ Cardinality({k \in S : ~Older(k, j)}) <= MaxJobs}

\* Mutant of RefreshDue: a job is made for a new tip or a changed mempool only
RefreshDueMutant == FALSE

\* One round of StratumJobThread begins: the tip, the mempool and the clock are read.
\* The thread sleeps between two rounds, which leaves time for Rate jobs per second.
NewTip == tip # last.tip
MempoolDue == mempool # last.mempool /\ now - last.time >= RateLimit
RefreshDue == now - last.time >= Refresh
JobDue ==
    /\ NewTip \/ MempoolDue \/ RefreshDue
    /\ Cardinality({j \in jobs : j.nCreated = now}) < Rate

\* The job thread hangs in a blocking send to a peer that does not read.
JobThreadStuck == pc = "send" /\ todo # <<>> /\ client[Head(todo)].frozen

\* The clock moves.  Once the world is quiet it waits for the threads, each of which
\* needs far less than a second for what it has to do.
Settled ==
    /\ (pc = "look" /\ ~JobDue) \/ JobThreadStuck
    /\ accepting = None
    /\ \A c \in Clients :
          \/ cpc[c] \in Resting
          \/ cpc[c] = "notify" /\ client[c].frozen
Tick ==
    /\ now < MaxTime
    /\ now > Quiet => Settled
    /\ now' = now + 1
    /\ UNCHANGED <<tip, tips, mempool, back, jobVars, threadVars, listVars, clientVars>>

\* GetTime() is the clock of the system, which may be set back.
SetBack ==
    /\ back < MaxBack /\ now <= Quiet
    /\ now' \in 0..(now - 1)
    /\ back' = back + 1
    /\ UNCHANGED <<tip, tips, mempool, jobVars, threadVars, listVars, clientVars>>

LookAtTip ==
    /\ pc = "look"
    /\ JobDue
    /\ seen' = [tip |-> tip, mempool |-> mempool, time |-> now]
    /\ pc' = "create"
    /\ UNCHANGED <<last, job, todo, chainVars, jobVars, listVars, clientVars>>

\* CreateJob: CreateNewBlock builds a template on the tip of the moment.
CreateNewBlock ==
    /\ pc = "create"
    /\ job' = [id |-> 0, hashPrevBlock |-> tip, nTime |-> now, nCreated |-> now, nHeight |-> 0]
    /\ pc' = "height"
    /\ UNCHANGED <<seen, last, todo, chainVars, jobVars, listVars, clientVars>>

\* CreateNewBlock returned no template: the thread sleeps and looks again.
CreateNewBlockFails ==
    /\ pc = "create"
    /\ now <= Quiet
    /\ pc' = "look" /\ seen' = None
    /\ UNCHANGED <<last, job, todo, chainVars, jobVars, listVars, clientVars>>

\* CreateJob: the height comes from a second look at the chain.
ReadHeight ==
    /\ pc = "height"
    /\ job' = [job EXCEPT !.nHeight = Height[tip] + 1]
    /\ pc' = "register"
    /\ UNCHANGED <<seen, last, todo, chainVars, jobVars, listVars, clientVars>>

\* CreateJob: the job gets its id and is registered, and the oldest go.
RegisterJob ==
    /\ pc = "register"
    /\ LET new == [job EXCEPT !.id = nJob + 1]
       IN  /\ nJob' = nJob + 1
           /\ jobs' = Kept(jobs \cup {new}, new)
           /\ current' = new.id
           /\ job' = new
    /\ last' = [tip |-> seen.tip, mempool |-> seen.mempool, time |-> seen.time]
    /\ pc' = "snapshot"
    /\ UNCHANGED <<seen, todo, chainVars, listVars, clientVars>>

\* BroadcastJob: the list of clients is copied.
CopyClients ==
    /\ pc = "snapshot"
    /\ todo' = vClients
    /\ pc' = "send"
    /\ UNCHANGED <<seen, last, job, chainVars, jobVars, listVars, clientVars>>

\* The payout scripts that SendNotify of another thread may read from client c:
\* HandleLine may be in the middle of assigning it.
PayoutSeen(c) == IF cpc[c] = "authorize" THEN {client[c].payout, c, Torn} ELSE {client[c].payout}

\* BroadcastJob: SendNotify to the next client.  A closed socket takes nothing.
BroadcastJob ==
    /\ pc = "send"
    /\ IF todo = <<>>
       THEN /\ pc' = "look"
            /\ job' = None /\ seen' = None
            /\ UNCHANGED <<todo, told>>
       ELSE LET c == Head(todo)
            IN  /\ ~client[c].frozen
                /\ todo' = Tail(todo)
                /\ pc' = "send"
                /\ \E s \in PayoutSeen(c) :
                      told' = [told EXCEPT ![c] =
                                  IF client[c].open /\ client[c].fSubscribed
                                  THEN [id |-> job.id, tip |-> job.hashPrevBlock, payout |-> s]
                                  ELSE @]
                /\ UNCHANGED <<job, seen>>
    /\ UNCHANGED <<last, chainVars, jobVars, listVars, client, cpc, held, credited>>

-----------------------------------------------------------------------------
(* The acceptor                                                            *)

\* Mutant of Full: off by one
FullMutant == Len(vClients) > MaxConn

\* StratumAcceptThread: accept() returned connection c; it is closed when the list is
\* full.
Full == Len(vClients) >= MaxConn
Accept(c) ==
    /\ accepting = None /\ cpc[c] = "none" /\ now <= Quiet
    /\ IF Full
       THEN /\ cpc' = [cpc EXCEPT ![c] = "refused"]
            /\ UNCHANGED accepting
       ELSE /\ accepting' = c
            /\ UNCHANGED cpc
    /\ UNCHANGED <<vClients, client, held, told, credited, chainVars, jobVars, threadVars>>

\* A new connection pays the default script; its thread is started.  The field emptied
\* is history: how often setDupes was emptied.
NewClient == [open |-> TRUE, fSubscribed |-> FALSE, payout |-> Default, frozen |-> FALSE,
              setDupes |-> {}, emptied |-> 0, nSharesAccepted |-> 0, nSharesRejected |-> 0]
AddClient ==
    /\ accepting # None
    /\ client' = [client EXCEPT ![accepting] = NewClient]
    /\ vClients' = Append(vClients, accepting)
    /\ cpc' = [cpc EXCEPT ![accepting] = "idle"]
    /\ accepting' = None
    /\ UNCHANGED <<held, told, credited, chainVars, jobVars, threadVars>>

-----------------------------------------------------------------------------
(* The thread of client c: HandleLine and HandleSubmit                     *)

\* mining.subscribe, up to the answer
Subscribe(c) ==
    /\ cpc[c] = "idle" /\ now <= Quiet
    /\ client' = [client EXCEPT ![c].fSubscribed = TRUE]
    /\ cpc' = [cpc EXCEPT ![c] = "fetch"]
    /\ UNCHANGED <<held, told, credited, chainVars, jobVars, threadVars, listVars>>

\* mining.subscribe: the current job is taken from the table
Fetch(c) ==
    /\ cpc[c] = "fetch"
    /\ IF current = 0
       THEN /\ cpc' = [cpc EXCEPT ![c] = "idle"]
            /\ UNCHANGED held
       ELSE \E j \in jobs :
                /\ j.id = current
                /\ held' = [held EXCEPT ![c] = j]
                /\ cpc' = [cpc EXCEPT ![c] = "notify"]
    /\ UNCHANGED <<client, told, credited, chainVars, jobVars, threadVars, listVars>>

\* mining.subscribe: SendNotify of the job that was taken
Notify(c) ==
    /\ cpc[c] = "notify" /\ ~client[c].frozen
    /\ told' = [told EXCEPT ![c] = [id |-> held[c].id, tip |-> held[c].hashPrevBlock,
                                    payout |-> client[c].payout]]
    /\ held' = [held EXCEPT ![c] = None]
    /\ cpc' = [cpc EXCEPT ![c] = "idle"]
    /\ UNCHANGED <<client, credited, chainVars, jobVars, threadVars, listVars>>

\* mining.authorize with a user name that is an address begins to assign payoutScript.
\* With any other name it changes nothing that the properties speak of.  A miner gives
\* one address.
Authorize(c) ==
    /\ cpc[c] = "idle" /\ now <= Quiet
    /\ c \in Users /\ client[c].payout = Default
    /\ cpc' = [cpc EXCEPT ![c] = "authorize"]
    /\ UNCHANGED <<client, held, told, credited, chainVars, jobVars, threadVars, listVars>>

\* mining.authorize: payoutScript is assigned
Authorized(c) ==
    /\ cpc[c] = "authorize"
    /\ client' = [client EXCEPT ![c].payout = c]
    /\ cpc' = [cpc EXCEPT ![c] = "idle"]
    /\ UNCHANGED <<held, told, credited, chainVars, jobVars, threadVars, listVars>>

\* A submission with too few parameters is answered and changes nothing; of the others,
\* what HandleSubmit answers to work w for job i, 0 for an accepted share.  Looking for a
\* duplicate compares texts.  meets says whether the hash of the header rebuilt from the
\* share is below the target; it is not when no coinbase can be read from the text.
Verdict(c, i, w, meets) ==
    LET J == {j \in jobs : j.id = i}
    IN  IF J = {} THEN 21
        ELSE IF ~w.wellFormed THEN 20
        ELSE IF <<i, w>> \in client[c].setDupes THEN 22
        ELSE IF \E j \in J : w.time < j.nTime \/ w.time > now + Future THEN 20
        ELSE IF ~meets THEN 23
        ELSE 0

\* Mutant of Remembered: a submission is looked up and not inserted
RememberedMutant(c, i, w) == client[c].setDupes

\* setDupes with the submission inserted: a well-formed one for a job that is known is
\* remembered, as it is spelled, whatever becomes of it.
Remembered(c, i, w) ==
    client[c].setDupes \cup {x \in {<<i, w>>} : w.wellFormed /\ \E j \in jobs : j.id = i}

\* A set that grew too large is emptied, the submission at hand included.
Overflows(S) == Cardinality(S) > MaxDupes

\* mining.submit
HandleSubmit(c, i, w, meets) ==
    /\ cpc[c] = "idle" /\ now <= Quiet
    /\ client[c].nSharesAccepted + client[c].nSharesRejected < MaxShares[c]
    /\ LET ok == Verdict(c, i, w, meets) = 0
           S  == Remembered(c, i, w)
       IN  /\ client' = [client EXCEPT ![c].setDupes = IF Overflows(S) THEN {} ELSE S,
                                       ![c].emptied = IF Overflows(S) THEN @ + 1 ELSE @,
                                       ![c].nSharesAccepted = IF ok THEN @ + 1 ELSE @,
                                       ![c].nSharesRejected = IF ok THEN @ ELSE @ + 1]
           /\ credited' = [credited EXCEPT ![c] =
                               @ \cup {x \in {<<i, w, client[c].emptied>>} : ok}]
    /\ UNCHANGED <<cpc, held, told, chainVars, jobVars, threadVars, listVars>>

\* The connection ends: the socket is closed,
CloseSocket(c) ==
    /\ cpc[c] = "idle" /\ now <= Quiet
    /\ client' = [client EXCEPT ![c].open = FALSE]
    /\ cpc' = [cpc EXCEPT ![c] = "closed"]
    /\ UNCHANGED <<held, told, credited, chainVars, jobVars, threadVars, listVars>>

\* and the client leaves the list.  Nothing but the socket, which is closed, is looked at
\* in what is left of it.
Closed == [NewClient EXCEPT !.open = FALSE]
RemoveClient(c) ==
    /\ cpc[c] = "closed"
    /\ vClients' = RemoveFirst(vClients, c)
    /\ cpc' = [cpc EXCEPT ![c] = "gone"]
    /\ client' = [client EXCEPT ![c] = Closed]
    /\ told' = [told EXCEPT ![c] = None]
    /\ credited' = [credited EXCEPT ![c] = {}]
    /\ UNCHANGED <<accepting, held, chainVars, jobVars, threadVars>>

\* The peer stops reading, and a send to it blocks.
Freeze(c) ==
    /\ c \in Frozen /\ client[c].open /\ ~client[c].frozen /\ now <= Quiet
    /\ client' = [client EXCEPT ![c].frozen = TRUE]
    /\ UNCHANGED <<cpc, held, told, credited, chainVars, jobVars, threadVars, listVars>>

-----------------------------------------------------------------------------
Init ==
    /\ tip \in FirstTips /\ tips = 0 /\ mempool \in 0..MaxMempool /\ now = 1 /\ back = 0
    /\ jobs = {} /\ current = 0 /\ nJob = 0
    /\ pc = "look" /\ seen = None
    /\ last = [tip |-> None, mempool |-> 0, time |-> 0]
    /\ job = None /\ todo = <<>>
    /\ accepting = None /\ vClients = <<>>
    /\ client = [c \in Clients |-> Closed]
    /\ cpc = [c \in Clients |-> "none"]
    /\ held = [c \in Clients |-> None]
    /\ told = [c \in Clients |-> None]
    /\ credited = [c \in Clients |-> {}]

JobThread ==
    \/ LookAtTip \/ CreateNewBlock \/ ReadHeight \/ RegisterJob \/ CopyClients \/ BroadcastJob

ClientThread(c) == Fetch(c) \/ Notify(c) \/ Authorized(c) \/ RemoveClient(c)

\* A miner that stopped reading sends nothing either.  There is no job 0.
Request(c) ==
    /\ ~client[c].frozen
    /\ \/ Subscribe(c) \/ Authorize(c) \/ CloseSocket(c)
       \/ \E i \in 0..nJob, w \in Works, meets \in BOOLEAN : HandleSubmit(c, i, w, meets)

Next ==
    \/ \E t \in Tips : UpdatedBlockTip(t)
    \/ MempoolChanges \/ Tick \/ SetBack
    \/ JobThread \/ CreateNewBlockFails
    \/ AddClient
    \/ \E c \in Clients : Accept(c) \/ ClientThread(c) \/ Request(c) \/ Freeze(c)

Spec == Init /\ [][Next]_vars

\* The threads of the server run, and the clock does.
FairSpec ==
    /\ Spec
    /\ WF_vars(JobThread) /\ WF_vars(Tick) /\ WF_vars(AddClient)
    /\ \A c \in Clients : WF_vars(ClientThread(c))

-----------------------------------------------------------------------------
(* Properties                                                              *)

StratumClient == [open : BOOLEAN, fSubscribed : BOOLEAN, frozen : BOOLEAN,
                  payout : Clients \cup {Default}, setDupes : SUBSET (Nat \X Works),
                  emptied : Nat, nSharesAccepted : Nat, nSharesRejected : Nat]

Job == [id : Nat, hashPrevBlock : Tips, nTime : Nat, nCreated : Nat, nHeight : Nat]

\* Every variable has its type: the tables of stratum.cpp hold jobs and clients, the
\* threads are at a point of their code, and the locals are set where they are used.
TypeOK ==
    /\ tip \in Tips /\ tips \in Nat /\ mempool \in Nat /\ now \in Nat /\ back \in Nat
    /\ jobs \subseteq Job /\ current \in Nat /\ nJob \in Nat
    /\ pc \in {"look", "create", "height", "register", "snapshot", "send"}
    /\ pc # "look" =>
          seen \in [tip : Tips, mempool : Nat, time : Nat]
    /\ last \in [tip : Tips \cup {None}, mempool : Nat, time : Nat]
    /\ pc \in {"height", "register", "snapshot", "send"} => job \in Job
    /\ todo \in Seq(Clients) /\ vClients \in Seq(Clients)
    /\ accepting \in Clients \cup {None}
    /\ client \in [Clients -> StratumClient]
    /\ cpc \in [Clients -> Resting \cup {"fetch", "notify", "authorize", "closed"}]
    /\ \A c \in Clients :
          /\ cpc[c] = "notify" => held[c] \in Job
          /\ told[c] = None \/ told[c] \in [id : Nat, tip : Tips,
                                            payout : Clients \cup {Default, Torn}]
          /\ credited[c] \subseteq Nat \X Works \X Nat

\* The current job is in the table, even when the clock was set back and the current
\* job is therefore the oldest: mining.subscribe looks it up with g_mapJobs[], which
\* would add an empty entry, and the next submission for it would use a null job.
CurrentJobKept == current # 0 => \E j \in jobs : j.id = current

\* The acceptor looks at the number of clients and adds one in two sections under
\* cs_stratum; the list still never exceeds -stratummaxconn, since clients only leave
\* in between.
ConnectionsBounded == Len(vClients) <= MaxConn

\* HandleSubmit gives credit for one text once until setDupes is emptied, and setDupes is
\* emptied by every (MaxDupes + 1)st submission at most: of n submissions, a text repeated
\* among them is credited at most 1 + n \div (MaxDupes + 1) times.
CreditedOnce ==
    \A c \in Clients :
        /\ client[c].nSharesAccepted = Cardinality(credited[c])
        /\ (MaxDupes + 1) * client[c].emptied
              <= client[c].nSharesAccepted + client[c].nSharesRejected

\* A client that the server should be sending work to
Mining(c) == client[c].open /\ client[c].fSubscribed /\ ~client[c].frozen

\* However the messages of the job thread and of the clients' own threads interleave,
\* once the chain is quiet the last work that every miner received is work on the tip:
\* the refresh repairs a notify that overtook a newer one.  One thing only can keep a
\* miner from it: that BroadcastJob hangs in SendJson to another one.
WorkCatchesUp ==
    \/ <>[](\A c \in Clients : Mining(c) => told[c] # None /\ told[c].tip = tip)
    \/ <>[]JobThreadStuck

\* And it is work that pays the script with which HandleSubmit will rebuild it, also
\* when the miner gave its address after it had received its first work.
PayoutCatchesUp ==
    \/ <>[](\A c \in Clients : Mining(c) => told[c] # None /\ told[c].payout = client[c].payout)
    \/ <>[]JobThreadStuck

-----------------------------------------------------------------------------
(* Statements of the source that do not hold                               *)

\* "Duplicate-share ... rejection": what is read from two submissions that were credited
\* to a client differs.  It does not when the two spell it differently, as in upper and in
\* lower case, or when setDupes was emptied in between.
DuplicatesRejected ==
    \A c \in Clients : \A x, y \in credited[c] :
        x[1] = y[1] /\ x[2].share = y[2].share => x = y

\* "Create a fresh job from the current tip": the height that goes into the coinbase is
\* the height of the block after hashPrevBlock.
JobFromOneTip == \A j \in jobs : j.nHeight = Height[j.hashPrevBlock] + 1

\* "Keep only the most recent jobs around": with a job, every later one is kept.
MostRecentKept ==
    \A j \in jobs : \A i \in j.id..nJob : \E k \in jobs : k.id = i

\* "submit-time rebuilds reproduce the exact bytes that were announced": between two
\* requests of a client, the last work it was told pays the script that a submission
\* for it would be rebuilt with.
AnnouncedIsRebuilt ==
    \A c \in Clients :
        /\ cpc[c] = "idle" /\ told[c] # None
        /\ \E j \in jobs : j.id = told[c].id
        => told[c].payout = client[c].payout

=============================================================================
