----------------------------- MODULE StratumProofs -----------------------------
(***************************************************************************)
(* For any number of clients and any limits: the list of the stratum       *)
(* server stays within -stratummaxconn, the current job stays in the       *)
(* table, and a text is credited once until setDupes is emptied.  For any  *)
(* number of starts, nothing of the server is left when it does not run.   *)
(* For any limits, interval and grace with Grace < Interval, only a start  *)
(* can be outside the limits of the difficulty, and the grace of a         *)
(* retarget is honoured.                                                   *)
(***************************************************************************)
EXTENDS Stratum, StratumLifecycle, StratumVardiff, FiniteSetTheorems, SequenceTheorems,
        WellFoundedInduction, TLAPS

-----------------------------------------------------------------------------
(* The list of clients                                                     *)

\* The acceptor counts as one more client between its look at the list and its Append.
ListOK ==
    /\ vClients \in Seq(Clients)
    /\ accepting \in Clients \cup {None}
    /\ Len(vClients) + (IF accepting = None THEN 0 ELSE 1) <= MaxConn

\* What a client asks for changes neither the jobs nor the list.
LEMMA RequestKeeps ==
    ASSUME NEW c \in Clients, Request(c)
    PROVE  UNCHANGED jobVars /\ UNCHANGED listVars
<1>1. ASSUME NEW i, NEW w, NEW meets, HandleSubmit(c, i, w, meets)
      PROVE  UNCHANGED jobVars /\ UNCHANGED listVars
  BY <1>1, Zenon DEF HandleSubmit
<1>2. CASE Subscribe(c) \/ Authorize(c) \/ CloseSocket(c)
  BY <1>2, Zenon DEF Subscribe, Authorize, CloseSocket
<1> QED
  BY <1>1, <1>2, Zenon DEF Request

\* Every non-empty set of natural numbers has a least member.
LEMMA LeastNumber ==
    ASSUME NEW S \in SUBSET Nat, S # {}
    PROVE  \E n \in S : \A m \in S : n <= m
<1> DEFINE R == {ss \in Nat \X Nat : ss[1] < ss[2]}
<1>1. IsWellFoundedOn(R, Nat)
  BY NatLessThanWellFounded DEF OpToRel
<1>2. \A m, n \in Nat : m < n => <<m, n>> \in R
  OBVIOUS
<1> HIDE DEF R
<1>3. PICK n \in S : \A m \in S : <<m, n>> \notin R
  BY <1>1, WFMin, Zenon
<1>4. \A m \in S : m \in Nat /\ n \in Nat /\ ~(m < n)
  BY <1>2, <1>3, Zenon
<1>5. \A m \in S : n <= m
  BY <1>4
<1> QED
  BY <1>5

\* The erase at the end of StratumClientThread leaves a list that is no longer.
LEMMA Erased ==
    ASSUME NEW s \in Seq(Clients), NEW c
    PROVE  RemoveFirst(s, c) \in Seq(Clients) /\ Len(RemoveFirst(s, c)) <= Len(s)
<1> DEFINE I == {i \in 1..Len(s) : s[i] = c}
<1>1. CASE I = {}
  <2>1. RemoveFirst(s, c) = s
    BY <1>1, Zenon DEF RemoveFirst
  <2> QED
    BY <2>1
<1>2. CASE I # {}
  <2> DEFINE k == Min(I)
             a == SubSeq(s, 1, k - 1)
             b == SubSeq(s, k + 1, Len(s))
  <2>1. I \in SUBSET Nat
    OBVIOUS
  <2>2. k \in I
    <3> HIDE DEF I
    <3> QED  BY <1>2, <2>1, LeastNumber DEF Min
  <2>3. RemoveFirst(s, c) = a \o b
    BY <1>2 DEF RemoveFirst, RemoveAt, SelectInSeq
  <2>4. k \in 1..Len(s) /\ Len(s) \in Nat /\ \A i \in 1..Len(s) : s[i] \in Clients
    BY <2>2
  <2> HIDE DEF k, I
  <2>5. a \in Seq(Clients) /\ Len(a) = k - 1
    <3>1. 1 \in Int /\ k - 1 \in Int /\ \A i \in 1..(k - 1) : s[i] \in Clients
      BY <2>4
    <3>2. a \in Seq(Clients) /\ Len(a) = IF 1 <= k - 1 THEN k - 1 - 1 + 1 ELSE 0
      BY <3>1, SubSeqProperties
    <3> HIDE DEF a
    <3> QED  BY <2>4, <3>2
  <2>6. b \in Seq(Clients) /\ Len(b) = Len(s) - k
    <3>1. Len(s) \in Int /\ k + 1 \in Int /\ \A i \in (k + 1)..Len(s) : s[i] \in Clients
      BY <2>4
    <3>2. b \in Seq(Clients) /\ Len(b) = IF k + 1 <= Len(s) THEN Len(s) - (k + 1) + 1 ELSE 0
      BY <3>1, SubSeqProperties
    <3> HIDE DEF b
    <3> QED  BY <2>4, <3>2
  <2> HIDE DEF a, b
  <2>7. a \o b \in Seq(Clients) /\ Len(a \o b) = Len(a) + Len(b)
    BY <2>5, <2>6, ConcatProperties
  <2> QED
    BY <2>3, <2>4, <2>5, <2>6, <2>7
<1> QED
  BY <1>1, <1>2

\* The two sections of StratumAcceptThread and the end of a client's thread are all that
\* changes the list.
LEMMA ListStep ==
    ASSUME ListOK, [Next]_vars
    PROVE  ListOK'
<1>1. MaxConn \in Nat /\ None \notin Clients /\ Len(vClients) \in Nat
  BY ClientsAssumption, LimitsAssumption DEF ListOK
<1>2. ASSUME NEW c \in Clients, Accept(c) PROVE ListOK'
  <2>1. vClients' = vClients /\ accepting = None
    BY <1>2 DEF Accept
  <2>2. CASE Full
    BY <1>2, <2>1, <2>2 DEF Accept, ListOK
  <2>3. CASE ~Full
    BY <1>1, <1>2, <2>1, <2>3 DEF Accept, ListOK, Full
  <2> QED
    BY <2>2, <2>3
<1>3. CASE AddClient
  <2>1. vClients' = Append(vClients, accepting) /\ accepting # None /\ accepting' = None
    BY <1>3 DEF AddClient
  <2>2. vClients' \in Seq(Clients) /\ Len(vClients') = Len(vClients) + 1
    BY <2>1 DEF ListOK
  <2> QED
    BY <1>1, <2>1, <2>2 DEF ListOK
<1>4. ASSUME NEW c \in Clients, RemoveClient(c) PROVE ListOK'
  <2>1. accepting' = accepting /\ vClients' = RemoveFirst(vClients, c)
    BY <1>4 DEF RemoveClient
  <2>2. vClients' \in Seq(Clients) /\ Len(vClients') <= Len(vClients) /\ Len(vClients') \in Nat
    BY <2>1, Erased DEF ListOK
  <2> QED
    BY <1>1, <2>1, <2>2 DEF ListOK
<1>5. CASE UNCHANGED listVars
  BY <1>5 DEF ListOK, listVars
<1>6. CASE JobThread \/ CreateNewBlockFails
  BY <1>5, <1>6 DEF JobThread, LookAtTip, CreateNewBlock, ReadHeight, RegisterJob, CopyClients,
                    BroadcastJob, CreateNewBlockFails
<1>7. CASE (\E t \in Tips : UpdatedBlockTip(t)) \/ MempoolChanges \/ Tick \/ SetBack
  BY <1>5, <1>7 DEF UpdatedBlockTip, MempoolChanges, Tick, SetBack
<1>8. ASSUME NEW c \in Clients, Fetch(c) \/ Notify(c) \/ Authorized(c) \/ Request(c) \/ Freeze(c)
      PROVE  ListOK'
  BY <1>5, <1>8, RequestKeeps DEF Fetch, Notify, Authorized, Freeze
<1>9. CASE UNCHANGED vars
  BY <1>5, <1>9 DEF vars
<1> QED
  BY <1>2, <1>3, <1>4, <1>6, <1>7, <1>8, <1>9 DEF Next, ClientThread

\* However connections come and go, the list never exceeds -stratummaxconn.
THEOREM ConnectionsAreBounded == Spec => []ConnectionsBounded
<1>1. Init => ListOK
  BY LimitsAssumption DEF Init, ListOK
<1>2. ListOK /\ [Next]_vars => ListOK'
  BY ListStep
<1>3. ListOK => ConnectionsBounded
  BY ClientsAssumption, LimitsAssumption DEF ListOK, ConnectionsBounded
<1> QED
  BY <1>1, <1>2, <1>3, PTL DEF Spec

-----------------------------------------------------------------------------
(* The table of jobs                                                       *)

\* CreateJob drops old jobs, and never the one that it has just made the current one.
LEMMA JobStep ==
    ASSUME CurrentJobKept, [Next]_vars
    PROVE  CurrentJobKept'
<1>1. CASE RegisterJob
  <2> DEFINE new == [job EXCEPT !.id = nJob + 1]
  <2>1. jobs' = Kept(jobs \cup {new}, new) /\ current' = new.id
    BY <1>1 DEF RegisterJob
  <2>2. new \in Kept(jobs \cup {new}, new)
    BY Zenon DEF Kept
  <2> HIDE DEF new
  <2> QED
    BY <2>1, <2>2 DEF CurrentJobKept
<1>2. CASE UNCHANGED jobVars
  BY <1>2 DEF CurrentJobKept, jobVars
<1>3. CASE LookAtTip \/ CreateNewBlock \/ ReadHeight \/ CopyClients \/ BroadcastJob
             \/ CreateNewBlockFails
  BY <1>2, <1>3 DEF LookAtTip, CreateNewBlock, ReadHeight, CopyClients, BroadcastJob,
                    CreateNewBlockFails
<1>4. CASE (\E t \in Tips : UpdatedBlockTip(t)) \/ MempoolChanges \/ Tick \/ SetBack \/ AddClient
  BY <1>2, <1>4 DEF UpdatedBlockTip, MempoolChanges, Tick, SetBack, AddClient
<1>5. ASSUME NEW c \in Clients, Accept(c) \/ ClientThread(c) \/ Request(c) \/ Freeze(c)
      PROVE  CurrentJobKept'
  BY <1>2, <1>5, RequestKeeps DEF Accept, ClientThread, Fetch, Notify, Authorized, RemoveClient,
                                  Freeze
<1>6. CASE UNCHANGED vars
  BY <1>2, <1>6 DEF vars
<1> QED
  BY <1>1, <1>3, <1>4, <1>5, <1>6 DEF Next, JobThread

\* Wherever the clock was set, mining.subscribe finds the current job in the table.
THEOREM CurrentJobIsKept == Spec => []CurrentJobKept
<1>1. Init => CurrentJobKept
  BY DEF Init, CurrentJobKept
<1>2. CurrentJobKept /\ [Next]_vars => CurrentJobKept'
  BY JobStep
<1> QED
  BY <1>1, <1>2, PTL DEF Spec

-----------------------------------------------------------------------------
(* The shares of a client                                                  *)

\* What was credited since setDupes was emptied last is still among its keys, and every
\* submission adds at most one key.
SharesOK(s, S) ==
    /\ IsFiniteSet(s.setDupes) /\ IsFiniteSet(S) /\ S \subseteq Nat \X Works \X Nat
    /\ \A i \in Nat, w \in Works, n \in Nat :
          <<i, w, n>> \in S => n <= s.emptied /\ (n = s.emptied => <<i, w>> \in s.setDupes)
    /\ (MaxDupes + 1) * s.emptied + Cardinality(s.setDupes)
          <= s.nSharesAccepted + s.nSharesRejected
    /\ s.nSharesAccepted = Cardinality(S)

\* Where the thread of a client may be.
Places == Resting \cup {"fetch", "notify", "authorize", "closed"}

\* Nothing was credited to a connection that the acceptor has yet to add.
CreditOK ==
    /\ client \in [Clients -> StratumClient] /\ cpc \in [Clients -> Places]
    /\ DOMAIN credited = Clients
    /\ accepting # None => accepting \in Clients /\ cpc[accepting] = "none"
    /\ \A c \in Clients :
          SharesOK(client[c], credited[c]) /\ (cpc[c] = "none" => credited[c] = {})

\* A fresh StratumClient has no shares.
LEMMA NewClientOK ==
    /\ NewClient \in StratumClient /\ Closed \in StratumClient
    /\ SharesOK(NewClient, {}) /\ SharesOK(Closed, {})
<1>1. IsFiniteSet({}) /\ Cardinality({}) = 0
  BY FS_EmptySet
<1> DEFINE n == NewClient
           m == Closed
<1>2. n \in StratumClient /\ m \in StratumClient
  BY DEF NewClient, Closed, StratumClient
<1>3. /\ n.setDupes = {} /\ n.nSharesAccepted = 0 /\ n.nSharesRejected = 0 /\ n.emptied = 0
      /\ m.setDupes = {} /\ m.nSharesAccepted = 0 /\ m.nSharesRejected = 0 /\ m.emptied = 0
  BY DEF NewClient, Closed
<1> HIDE DEF n, m
<1>4. (MaxDupes + 1) * 0 + 0 <= 0 + 0
  BY LimitsAssumption
<1>5. SharesOK(n, {}) /\ SharesOK(m, {})
  BY <1>1, <1>3, <1>4 DEF SharesOK
<1> QED
  BY <1>2, <1>5 DEF n, m

\* HandleSubmit: a text that is credited is new to setDupes, and setDupes is emptied when
\* it holds MaxDupes + 1 keys.
LEMMA SubmitStep ==
    ASSUME CreditOK, NEW c \in Clients, NEW i \in Nat, NEW w \in Works,
           NEW meets \in BOOLEAN, HandleSubmit(c, i, w, meets)
    PROVE  CreditOK'
<1> DEFINE s  == client[c]
           x  == <<i, w>>
           k  == <<i, w, s.emptied>>
           ok == Verdict(c, i, w, meets) = 0
           S  == Remembered(c, i, w)
           full == Overflows(S)
           D  == IF full THEN {} ELSE S
           e  == IF full THEN s.emptied + 1 ELSE s.emptied
           G  == credited[c] \cup {y \in {k} : ok}
           a  == IF ok THEN s.nSharesAccepted + 1 ELSE s.nSharesAccepted
           r  == IF ok THEN s.nSharesRejected ELSE s.nSharesRejected + 1
<1>1. /\ s \in StratumClient /\ SharesOK(s, credited[c])
      /\ s.nSharesAccepted \in Nat /\ s.nSharesRejected \in Nat /\ s.emptied \in Nat
      /\ s.setDupes \subseteq Nat \X Works /\ MaxDupes \in Nat
  BY LimitsAssumption DEF CreditOK, StratumClient
<1>2. /\ S = s.setDupes \/ (S = s.setDupes \cup {x} /\ x \notin s.setDupes)
      /\ ok => x \in S /\ x \notin s.setDupes
      /\ S \in SUBSET (Nat \X Works)
  BY <1>1 DEF Verdict, Remembered
<1>3. /\ IsFiniteSet(s.setDupes) /\ Cardinality(s.setDupes) \in Nat
      /\ IsFiniteSet(S) /\ Cardinality(S) \in Nat
      /\ Cardinality(S) <= Cardinality(s.setDupes) + 1
  <2>1. IsFiniteSet(s.setDupes) /\ Cardinality(s.setDupes) \in Nat
    BY <1>1, FS_CardinalityType DEF SharesOK
  <2> HIDE DEF S, s, x
  <2>2. CASE S = s.setDupes
    BY <2>1, <2>2
  <2>3. CASE S = s.setDupes \cup {x} /\ x \notin s.setDupes
    <3>1. IsFiniteSet(S) /\ Cardinality(S) = Cardinality(s.setDupes) + 1
      BY <2>1, <2>3, FS_AddElement, Zenon
    <3> QED
      BY <2>1, <3>1
  <2> QED
    BY <1>2, <2>2, <2>3
<1>4. /\ IsFiniteSet(D) /\ D \in SUBSET (Nat \X Works) /\ e \in Nat
      /\ (MaxDupes + 1) * e + Cardinality(D)
            <= (MaxDupes + 1) * s.emptied + Cardinality(S)
  <2>1. CASE full
    <3>1. D = {} /\ e = s.emptied + 1 /\ IsFiniteSet({}) /\ Cardinality({}) = 0
      BY <2>1, FS_EmptySet
    <3>2. Cardinality(S) >= MaxDupes + 1
      BY <1>1, <1>3, <2>1 DEF Overflows
    <3>3. (MaxDupes + 1) * (s.emptied + 1) = (MaxDupes + 1) * s.emptied + (MaxDupes + 1)
      BY <1>1
    <3>4. (MaxDupes + 1) * s.emptied \in Nat
      BY <1>1
    <3> HIDE DEF D, e, S, s
    <3> QED
      BY <1>1, <1>3, <3>1, <3>2, <3>3, <3>4
  <2>2. CASE ~full
    <3>1. D = S /\ e = s.emptied
      BY <2>2
    <3>2. (MaxDupes + 1) * s.emptied \in Nat
      BY <1>1
    <3> HIDE DEF D, e, S, s
    <3> QED
      BY <1>1, <1>2, <1>3, <3>1, <3>2
  <2> QED
    BY <2>1, <2>2
<1>5. /\ IsFiniteSet(G) /\ Cardinality(G) = a /\ a \in Nat /\ r \in Nat
      /\ a + r = s.nSharesAccepted + s.nSharesRejected + 1
      /\ G \in SUBSET (Nat \X Works \X Nat)
  <2>1. /\ IsFiniteSet(credited[c]) /\ s.nSharesAccepted = Cardinality(credited[c])
        /\ credited[c] \subseteq Nat \X Works \X Nat
    BY <1>1 DEF SharesOK
  <2>2. CASE ok
    <3>1. G = credited[c] \cup {k} /\ k \in Nat \X Works \X Nat
      BY <1>1, <2>2
    <3>2. k \notin credited[c]
      BY <1>1, <1>2, <2>2 DEF SharesOK
    <3>3. IsFiniteSet(G) /\ Cardinality(G) = Cardinality(credited[c]) + 1
      BY <2>1, <3>1, <3>2, FS_AddElement, Zenon
    <3>4. a = s.nSharesAccepted + 1 /\ r = s.nSharesRejected
      BY <2>2
    <3> HIDE DEF a, r, G, s, k
    <3> QED
      BY <1>1, <2>1, <3>1, <3>3, <3>4
  <2>3. CASE ~ok
    <3>1. G = credited[c]
      BY <2>3
    <3>2. a = s.nSharesAccepted /\ r = s.nSharesRejected + 1
      BY <2>3
    <3> HIDE DEF a, r, G, s, k
    <3> QED
      BY <1>1, <2>1, <3>1, <3>2
  <2> QED
    BY <2>2, <2>3
<1>6. ASSUME NEW ii \in Nat, NEW ww \in Works, NEW n \in Nat, <<ii, ww, n>> \in G
      PROVE  n <= e /\ (n = e => <<ii, ww>> \in D)
  <2>1. <<ii, ww, n>> \in credited[c] \/ (ok /\ ii = i /\ ww = w /\ n = s.emptied)
    BY <1>6
  <2>2. n <= s.emptied /\ (n = s.emptied => <<ii, ww>> \in S)
    <3>1. CASE <<ii, ww, n>> \in credited[c]
      BY <1>1, <1>2, <3>1 DEF SharesOK
    <3>2. CASE ok /\ ii = i /\ ww = w /\ n = s.emptied
      BY <1>1, <1>2, <3>2
    <3> QED
      BY <2>1, <3>1, <3>2
  <2>3. (D = {} /\ e = s.emptied + 1) \/ (D = S /\ e = s.emptied)
    OBVIOUS
  <2> HIDE DEF D, e, S, s
  <2> QED
    BY <1>1, <2>2, <2>3
<1> DEFINE t == [s EXCEPT !.setDupes = D, !.emptied = e, !.nSharesAccepted = a,
                          !.nSharesRejected = r]
<1>7. /\ client' = [client EXCEPT ![c] = t] /\ credited' = [credited EXCEPT ![c] = G]
      /\ UNCHANGED <<cpc, accepting>>
  BY DEF HandleSubmit, CreditOK, StratumClient, listVars
<1>8. /\ t \in StratumClient /\ t.setDupes = D /\ t.emptied = e
      /\ t.nSharesAccepted = a /\ t.nSharesRejected = r
  <2> HIDE DEF D, e, a, r, s
  <2> QED  BY <1>1, <1>4, <1>5 DEF StratumClient
<1> HIDE DEF t
<1>9. SharesOK(t, G)
  <2>1. (MaxDupes + 1) * s.emptied \in Nat /\ (MaxDupes + 1) * e \in Nat /\ Cardinality(D) \in Nat
    <3> HIDE DEF e, s, D
    <3>1. Cardinality(D) \in Nat
      BY <1>4, FS_CardinalityType
    <3> QED
      BY <1>1, <1>4, <3>1
  <2>2. (MaxDupes + 1) * s.emptied + Cardinality(s.setDupes)
          <= s.nSharesAccepted + s.nSharesRejected
    BY <1>1 DEF SharesOK
  <2> HIDE DEF D, e, a, r, s, G, S
  <2>3. (MaxDupes + 1) * e + Cardinality(D) <= a + r
    BY <1>1, <1>3, <1>4, <1>5, <2>1, <2>2
  <2> QED  BY <1>4, <1>5, <1>6, <1>8, <2>3 DEF SharesOK
<1>10. cpc[c] # "none"
  BY DEF HandleSubmit
<1> HIDE DEF G
<1> QED
  BY <1>7, <1>8, <1>9, <1>10 DEF CreditOK

\* A step that changes neither the submissions nor who is being added.
LEMMA CreditKept ==
    ASSUME CreditOK, client' \in [Clients -> StratumClient], cpc' \in [Clients -> Places],
           UNCHANGED <<credited, accepting>>,
           \A c \in Clients :
              /\ cpc'[c] = cpc[c] \/ (cpc[c] # "none" /\ cpc'[c] # "none")
              /\ \/ client'[c] = client[c]
                 \/ /\ client'[c].setDupes = client[c].setDupes
                    /\ client'[c].emptied = client[c].emptied
                    /\ client'[c].nSharesAccepted = client[c].nSharesAccepted
                    /\ client'[c].nSharesRejected = client[c].nSharesRejected
    PROVE  CreditOK'
<1>1. accepting' # None => accepting' \in Clients /\ cpc'[accepting'] = "none"
  BY DEF CreditOK
<1>2. ASSUME NEW c \in Clients
      PROVE  SharesOK(client'[c], credited'[c]) /\ (cpc'[c] = "none" => credited'[c] = {})
  BY DEF CreditOK, SharesOK
<1> QED
  BY <1>1, <1>2 DEF CreditOK

LEMMA CreditStep ==
    ASSUME nJob \in Nat, CreditOK, [Next]_vars
    PROVE  CreditOK'
<1>0. client \in [Clients -> StratumClient] /\ cpc \in [Clients -> Places] /\ None \notin Clients
  BY ClientsAssumption DEF CreditOK
<1>1. ASSUME NEW c \in Clients, Accept(c) PROVE CreditOK'
  <2>1. /\ accepting = None /\ UNCHANGED <<client, credited>> /\ cpc[c] = "none"
        /\ \/ cpc' = [cpc EXCEPT ![c] = "refused"] /\ accepting' = accepting
           \/ accepting' = c /\ UNCHANGED cpc
    BY <1>1 DEF Accept
  <2>2. cpc' \in [Clients -> Places] /\ (accepting' # None => accepting' \in Clients /\ cpc'[accepting'] = "none")
    BY <1>0, <2>1 DEF Places, Resting
  <2>3. ASSUME NEW d \in Clients
        PROVE  cpc'[d] = "none" => cpc[d] = "none"
    BY <1>0, <2>1
  <2> QED
    BY <2>1, <2>2, <2>3 DEF CreditOK, SharesOK
<1>2. CASE AddClient
  <2>1. /\ accepting \in Clients /\ credited[accepting] = {} /\ accepting' = None
        /\ client' = [client EXCEPT ![accepting] = NewClient]
        /\ cpc' = [cpc EXCEPT ![accepting] = "idle"]
        /\ UNCHANGED credited
    BY <1>2 DEF AddClient, CreditOK
  <2>3. NewClient \in StratumClient /\ SharesOK(NewClient, {})
    BY NewClientOK
  <2>4. ASSUME NEW d \in Clients
        PROVE  \/ client'[d] = NewClient /\ credited'[d] = {}
               \/ client'[d] = client[d] /\ cpc'[d] = cpc[d] /\ credited'[d] = credited[d]
    BY <1>0, <2>1
  <2>5. client' \in [Clients -> StratumClient] /\ cpc' \in [Clients -> Places]
    BY <1>0, <2>1, <2>3 DEF Places, Resting
  <2>6. ASSUME NEW d \in Clients
        PROVE  SharesOK(client'[d], credited'[d]) /\ (cpc'[d] = "none" => credited'[d] = {})
    BY <2>3, <2>4 DEF CreditOK, SharesOK
  <2> QED
    BY <2>1, <2>5, <2>6 DEF CreditOK
<1>3. ASSUME NEW c \in Clients, Subscribe(c) \/ CloseSocket(c) \/ Authorized(c) \/ Freeze(c)
      PROVE  CreditOK'
  <2>1. /\ client' \in [Clients -> StratumClient] /\ cpc' \in [Clients -> Places]
        /\ \A d \in Clients : d # c => client'[d] = client[d] /\ cpc'[d] = cpc[d]
        /\ client'[c].setDupes = client[c].setDupes
        /\ client'[c].emptied = client[c].emptied
        /\ client'[c].nSharesAccepted = client[c].nSharesAccepted
        /\ client'[c].nSharesRejected = client[c].nSharesRejected
        /\ cpc'[c] = cpc[c] \/ (cpc[c] # "none" /\ cpc'[c] # "none")
        /\ UNCHANGED <<credited, accepting>>
    <3>1. client[c] \in StratumClient
      BY <1>0
    <3>2. CASE Subscribe(c)
      BY <1>0, <3>1, <3>2 DEF Subscribe, StratumClient, listVars, Places, Resting
    <3>3. CASE CloseSocket(c)
      BY <1>0, <3>1, <3>3 DEF CloseSocket, StratumClient, listVars, Places, Resting
    <3>4. CASE Authorized(c)
      BY <1>0, <3>1, <3>4 DEF Authorized, StratumClient, listVars, Places, Resting
    <3>5. CASE Freeze(c)
      BY <1>0, <3>1, <3>5 DEF Freeze, StratumClient, listVars, Places, Resting
    <3> QED
      BY <1>3, <3>2, <3>3, <3>4, <3>5
  <2> QED
    BY <2>1, CreditKept
<1>4. ASSUME NEW c \in Clients, Fetch(c) \/ Notify(c) \/ Authorize(c)
      PROVE  CreditOK'
  <2>1. /\ cpc' \in [Clients -> Places] /\ UNCHANGED <<client, credited, accepting>>
        /\ \A d \in Clients : cpc'[d] = cpc[d] \/ (cpc[d] # "none" /\ cpc'[d] # "none")
    <3>1. /\ cpc[c] # "none" /\ UNCHANGED <<client, credited, accepting>>
          /\ \E s \in {"idle", "notify", "authorize"} : cpc' = [cpc EXCEPT ![c] = s]
      BY <1>4 DEF Fetch, Notify, Authorize, listVars
    <3> QED
      BY <1>0, <3>1 DEF Places, Resting
  <2> QED
    BY <1>0, <2>1, CreditKept
<1>9. ASSUME NEW c \in Clients, RemoveClient(c) PROVE CreditOK'
  <2>1. /\ cpc[c] # "none" /\ UNCHANGED accepting
        /\ client' = [client EXCEPT ![c] = Closed]
        /\ cpc' = [cpc EXCEPT ![c] = "gone"]
        /\ credited' = [credited EXCEPT ![c] = {}]
    BY <1>9 DEF RemoveClient
  <2>2. Closed \in StratumClient /\ SharesOK(Closed, {})
    BY NewClientOK
  <2>3. ASSUME NEW d \in Clients
        PROVE  \/ client'[d] = Closed /\ credited'[d] = {}
               \/ client'[d] = client[d] /\ cpc'[d] = cpc[d] /\ credited'[d] = credited[d]
    BY <1>0, <2>1 DEF CreditOK
  <2>4. client' \in [Clients -> StratumClient] /\ cpc' \in [Clients -> Places]
    BY <1>0, <2>1, <2>2 DEF Places, Resting
  <2>5. ASSUME NEW d \in Clients
        PROVE  SharesOK(client'[d], credited'[d]) /\ (cpc'[d] = "none" => credited'[d] = {})
    BY <2>2, <2>3 DEF CreditOK, SharesOK
  <2>6. accepting' # None => accepting' \in Clients /\ cpc'[accepting'] = "none"
    BY <1>0, <2>1 DEF CreditOK
  <2> QED
    BY <2>1, <2>4, <2>5, <2>6 DEF CreditOK
<1>5. ASSUME NEW c \in Clients, NEW i \in 0..nJob, NEW w \in Works, NEW meets \in BOOLEAN,
             HandleSubmit(c, i, w, meets)
      PROVE  CreditOK'
  BY <1>5, SubmitStep
<1>6. CASE UNCHANGED <<client, cpc, credited, accepting>>
  BY <1>6 DEF CreditOK
<1>7. CASE JobThread \/ CreateNewBlockFails
  BY <1>6, <1>7 DEF JobThread, LookAtTip, CreateNewBlock, ReadHeight, RegisterJob, CopyClients,
                    BroadcastJob, CreateNewBlockFails, clientVars, listVars
<1>8. CASE (\E t \in Tips : UpdatedBlockTip(t)) \/ MempoolChanges \/ Tick \/ SetBack
             \/ UNCHANGED vars
  BY <1>6, <1>8 DEF UpdatedBlockTip, MempoolChanges, Tick, SetBack, clientVars, listVars, vars
<1> QED
  BY <1>1, <1>2, <1>3, <1>4, <1>5, <1>7, <1>8, <1>9 DEF Next, ClientThread, Request

\* The counter of the jobs counts.
LEMMA JobsCounted ==
    ASSUME nJob \in Nat, [Next]_vars
    PROVE  nJob' \in Nat
<1>1. CASE RegisterJob
  BY <1>1 DEF RegisterJob
<1>2. CASE UNCHANGED jobVars
  BY <1>2 DEF jobVars
<1>3. CASE LookAtTip \/ CreateNewBlock \/ ReadHeight \/ CopyClients \/ BroadcastJob
             \/ CreateNewBlockFails
  BY <1>2, <1>3 DEF LookAtTip, CreateNewBlock, ReadHeight, CopyClients, BroadcastJob,
                    CreateNewBlockFails
<1>4. CASE (\E t \in Tips : UpdatedBlockTip(t)) \/ MempoolChanges \/ Tick \/ SetBack \/ AddClient
  BY <1>2, <1>4 DEF UpdatedBlockTip, MempoolChanges, Tick, SetBack, AddClient
<1>5. ASSUME NEW c \in Clients, Accept(c) \/ ClientThread(c) \/ Request(c) \/ Freeze(c)
      PROVE  nJob' \in Nat
  BY <1>2, <1>5, RequestKeeps DEF Accept, ClientThread, Fetch, Notify, Authorized, RemoveClient,
                                  Freeze
<1>6. CASE UNCHANGED vars
  BY <1>2, <1>6 DEF vars
<1> QED
  BY <1>1, <1>3, <1>4, <1>5, <1>6 DEF Next, JobThread

\* For any capacity of setDupes and any number of submissions, one text is credited once
\* until setDupes is emptied, which takes MaxDupes + 1 submissions.
THEOREM SharesAreCreditedOnce == Spec => []CreditedOnce
<1> DEFINE Counted == CreditOK /\ nJob \in Nat
<1>1. Init => Counted
  <2> SUFFICES ASSUME Init PROVE CreditOK /\ nJob \in Nat
    OBVIOUS
  <2> DEFINE m == Closed
  <2>2. m \in StratumClient /\ SharesOK(m, {})
    BY NewClientOK
  <2>3. /\ client = [c \in Clients |-> m] /\ cpc = [c \in Clients |-> "none"]
        /\ credited = [c \in Clients |-> {}] /\ accepting = None /\ nJob = 0
    BY DEF Init
  <2> HIDE DEF m
  <2>4. ASSUME NEW c \in Clients
        PROVE  SharesOK(client[c], credited[c]) /\ (cpc[c] = "none" => credited[c] = {})
    <3>1. client[c] = m /\ credited[c] = {}
      BY <2>3
    <3> QED
      BY <2>2, <3>1
  <2> QED
    BY <2>2, <2>3, <2>4 DEF CreditOK, Places, Resting
<1>2. Counted /\ [Next]_vars => Counted'
  BY CreditStep, JobsCounted
<1>3. Counted => CreditedOnce
  <2> SUFFICES ASSUME CreditOK, NEW c \in Clients
      PROVE  /\ client[c].nSharesAccepted = Cardinality(credited[c])
             /\ (MaxDupes + 1) * client[c].emptied
                   <= client[c].nSharesAccepted + client[c].nSharesRejected
    BY DEF CreditedOnce
  <2> DEFINE s == client[c]
  <2>1. s \in StratumClient /\ SharesOK(s, credited[c])
    BY DEF CreditOK
  <2>2. /\ Cardinality(s.setDupes) \in Nat /\ s.emptied \in Nat
        /\ s.nSharesAccepted \in Nat /\ s.nSharesRejected \in Nat
    BY <2>1, FS_CardinalityType DEF SharesOK, StratumClient
  <2> HIDE DEF s
  <2>3. (MaxDupes + 1) * s.emptied \in Nat
    BY <2>2, LimitsAssumption
  <2> QED
    BY <2>1, <2>2, <2>3 DEF SharesOK, s
<1> HIDE DEF Counted
<1> QED
  BY <1>1, <1>2, <1>3, PTL DEF Spec

-----------------------------------------------------------------------------
(* Starting and stopping (StratumLifecycle)                                *)

\* The program counters have their types: all that the proof needs of ServerTypeOK.
PcsOK == clientPc \in [Miners -> Over \cup {"loop", "select", "send", "close"}]

ServerInv == PcsOK /\ NothingLeft

\* The server is not running before it is started (StartStratumServer).
LEMMA ServerInitHolds == ServerInit => ServerInv
  BY DEF ServerInit, ServerInv, PcsOK, NothingLeft, AllOver, Over

\* No step of a thread, of the caller or of a peer leaves a thread, a client or a job
\* behind once the server is stopped: only CleanUp ends it, and it waits for all threads.
LEMMA ServerStepHolds == ServerInv /\ [ServerNext]_serverVars => ServerInv'
<1> SUFFICES ASSUME ServerInv, [ServerNext]_serverVars PROVE ServerInv'
  OBVIOUS
<1> USE DEF ServerInv, PcsOK, NothingLeft, AllOver, Over
<1>1. CASE StartStratumServer
  BY <1>1 DEF StartStratumServer, tableVars
<1>2. CASE InterruptStratumServer
  BY <1>2 DEF InterruptStratumServer, pcVars, tableVars
<1>3. CASE StopStratumServer
  BY <1>3 DEF StopStratumServer, pcVars, tableVars
<1>4. CASE CloseClients
  BY <1>4 DEF CloseClients, pcVars
<1>5. CASE JoinAll
  BY <1>5 DEF JoinAll, pcVars, tableVars
<1>6. CASE CleanUp
  BY <1>6 DEF CleanUp, AllJoined, pcVars
<1>7. CASE AcceptLoop
  BY <1>7 DEF AcceptLoop, callVars, tableVars
<1>8. CASE PushClient
  BY <1>8 DEF PushClient, callVars
<1>9. CASE CreateThread
  BY <1>9 DEF CreateThread, callVars, tableVars
<1>10. CASE JobLoop
  BY <1>10 DEF JobLoop, callVars, tableVars
<1>11. CASE CreateJob
  BY <1>11 DEF CreateJob, callVars
<1>12. CASE BroadcastNext
  BY <1>12 DEF BroadcastNext, callVars, tableVars
<1>13. CASE JobSent
  BY <1>13 DEF JobSent, callVars, tableVars
<1>14. ASSUME NEW c \in Miners, AcceptConnection(c) PROVE ServerInv'
  BY <1>14 DEF AcceptConnection, callVars
<1>15. ASSUME NEW c \in Miners, StratumClientThread(c) PROVE ServerInv'
  BY <1>15 DEF StratumClientThread, ClientLoop, ClientSelect, ClientSent, ClientExit, callVars, tableVars
<1>16. ASSUME NEW c \in Miners, StopReading(c) PROVE ServerInv'
  BY <1>16 DEF StopReading, callVars, pcVars
<1>17. CASE UNCHANGED serverVars
  BY <1>17 DEF serverVars, callVars, pcVars, tableVars
<1> QED
  BY <1>1, <1>2, <1>3, <1>4, <1>5, <1>6, <1>7, <1>8, <1>9, <1>10, <1>11, <1>12, <1>13,
     <1>14, <1>15, <1>16, <1>17 DEF ServerNext, Caller, Acceptor, StratumJobThread

\* After StopStratumServer no thread of the server lives and its tables are empty.
THEOREM StopLeavesNothing == ServerSpec => []NothingLeft
<1>1. ServerInv => NothingLeft
  BY DEF ServerInv
<1> QED
  BY ServerInitHolds, ServerStepHolds, <1>1, PTL DEF ServerSpec

-----------------------------------------------------------------------------
(* The difficulty of a miner (StratumVardiff)                              *)

\* GraceHonoured is not inductive: a second retarget would end the grace of the first.
\* What a retarget replaced in the last Grace seconds is what dPrevDiff holds, and is as
\* old as the interval, so that the next retarget is not due yet.
OneRecent ==
    \A r \in recent :
        /\ g_fVardiff
        /\ r[1] = dPrevDiff /\ r[2] = change /\ r[2] = elapsed /\ r[2] < Grace

DiffInv == DiffTypeOK /\ LimitsKept /\ OneRecent

\* The constants as integers.
LEMMA Constants ==
    /\ MinDiff \in Nat /\ MaxDiff \in Nat /\ MinDiff <= MaxDiff
    /\ Interval \in Nat /\ Grace \in Nat /\ Step \in Nat
    /\ Interval > 0 /\ Grace > 0 /\ Step > 0 /\ Grace < Interval
  BY DiffsAssumption, TimesAssumption

\* The limits of the retarget in StratumClientThread.
LEMMA ClampInRange == ASSUME NEW d \in Int PROVE Clamp(d) \in Diffs
  BY Constants DEF Clamp, Diffs

\* Whatever the number of shares, a retarget stays within the limits.
LEMMA NewDiffInRange ==
    ASSUME dDiff \in Nat, NEW n \in Nat, NEW e \in Nat, e > 0
    PROVE  NewDiff(n, e) \in Diffs
<1>1. dDiff \in Int
  OBVIOUS
<1>2. dDiff \div 2 \in Int /\ 4 * dDiff \in Int /\ dDiff * 4 * n \in Int
  BY <1>1
<1>3. (dDiff * 4 * n) \div e \in Int
  BY <1>2
<1> QED
  BY <1>1, <1>2, <1>3, ClampInRange DEF NewDiff

\* A connection starts with nothing to honour.
LEMMA DiffInitHolds == DiffInit => DiffInv
<1> SUFFICES ASSUME DiffInit PROVE DiffInv
  OBVIOUS
<1>1. dDiff \in Nat \ {0} /\ dPrevDiff = dDiff /\ LimitsKept
  BY DiffsAssumption, Zenon DEF DiffInit, LimitsKept
<1>2. change \in 0..Interval /\ elapsed \in Nat /\ nVardiffShares \in Nat
  BY Constants DEF DiffInit
<1>3. silent \in BOOLEAN /\ recent = {} /\ g_fVardiff \in BOOLEAN /\ fSubscribed \in BOOLEAN
  BY Zenon DEF DiffInit
<1> QED
  BY <1>1, <1>2, <1>3, Zenon DEF DiffInv, DiffTypeOK, OneRecent

\* The retarget of StratumClientThread.
LEMMA RetargetStep == DiffInv /\ Retarget => DiffInv'
<1> SUFFICES ASSUME DiffInv, Retarget PROVE DiffInv'
  OBVIOUS
<1> DEFINE next == NewDiff(nVardiffShares, elapsed)
<1>1. elapsed >= Interval /\ elapsed \in Nat /\ elapsed > 0 /\ nVardiffShares \in Nat
  BY Constants DEF Retarget, Due, DiffInv, DiffTypeOK
<1>2. next \in Diffs /\ next \in Nat \ {0}
  <2>1. next \in Diffs
    BY <1>1, NewDiffInRange DEF DiffInv, DiffTypeOK
  <2> QED
    BY <2>1, DiffsAssumption DEF Diffs
<1>3. recent = {}
  BY <1>1, Constants DEF DiffInv, OneRecent, DiffTypeOK
<1> HIDE DEF next
<1>4. CASE SetDifficulty(next) /\ recent' = recent \cup {<<dDiff, 0>>}
  BY <1>2, <1>3, <1>4, Constants DEF Retarget, SetDifficulty, DiffInv, DiffTypeOK, LimitsKept,
                                     OneRecent, Diffs, minerVars
<1>5. CASE UNCHANGED <<dDiff, dPrevDiff, change, recent>>
  BY <1>3, <1>5 DEF Retarget, DiffInv, DiffTypeOK, LimitsKept, OneRecent, Diffs, minerVars
<1> QED
  BY <1>4, <1>5 DEF Retarget, next

\* The passing of time.
LEMMA TickStep == DiffInv /\ TimePasses => DiffInv'
<1> SUFFICES ASSUME DiffInv, TimePasses PROVE DiffInv'
  OBVIOUS
<1>1. change \in 0..Interval /\ elapsed \in Nat
  BY DEF DiffInv, DiffTypeOK
<1>2. change' \in 0..Interval /\ elapsed' \in Nat
  BY <1>1, Constants DEF TimePasses, Aged
<1>3. ASSUME NEW s \in recent'
      PROVE /\ s \in (Nat \ {0}) \X (0..Grace)
            /\ g_fVardiff'
            /\ s[1] = dPrevDiff' /\ s[2] = change' /\ s[2] = elapsed' /\ s[2] < Grace
  <2>1. PICK r \in recent : r[2] + Step < Grace /\ s = <<r[1], Aged(r[2])>>
    BY DEF TimePasses
  <2>2. r[1] = dPrevDiff /\ r[2] = change /\ r[2] = elapsed /\ r[1] \in Nat \ {0}
    BY DEF DiffInv, OneRecent, DiffTypeOK
  <2>3. Aged(r[2]) = change + Step
    BY <1>1, <2>1, <2>2, Constants DEF Aged
  <2>4. s[1] = dPrevDiff /\ s[2] = change + Step /\ s = <<dPrevDiff, change + Step>>
    BY <2>1, <2>2, <2>3
  <2>5. change + Step < Grace /\ change + Step \in 0..Grace
    BY <1>1, <2>1, <2>2, Constants
  <2>6. g_fVardiff /\ g_fVardiff' = g_fVardiff
    BY DEF DiffInv, OneRecent, TimePasses, minerVars
  <2>7. change' = change + Step /\ elapsed' = change + Step /\ dPrevDiff' = dPrevDiff
    BY <1>1, <2>2, <2>5, <2>6, Constants DEF TimePasses, Aged
  <2> QED
    BY <2>2, <2>4, <2>5, <2>6, <2>7
<1>4. /\ UNCHANGED <<g_fVardiff, fSubscribed, dDiff, dPrevDiff, nVardiffShares, silent>>
      /\ DiffTypeOK /\ LimitsKept
  BY DEF TimePasses, DiffInv, minerVars
<1>5. DiffTypeOK'
  <2>1. recent' \subseteq (Nat \ {0}) \X (0..Grace)
    BY <1>3
  <2> QED
    BY <1>2, <1>4, <2>1 DEF DiffTypeOK
<1>6. LimitsKept'
  <2>1. change = Interval => change' = Interval
    BY Constants DEF TimePasses, Aged
  <2> QED
    BY <1>4, <2>1 DEF LimitsKept, Diffs
<1> QED
  BY <1>3, <1>5, <1>6, Zenon DEF DiffInv, OneRecent

\* Every other step keeps DiffInv.
LEMMA DiffStepHolds == DiffInv /\ [DiffNext]_diffVars => DiffInv'
<1> SUFFICES ASSUME DiffInv, [DiffNext]_diffVars PROVE DiffInv'
  OBVIOUS
<1> USE DEF DiffInv, DiffTypeOK, LimitsKept, OneRecent, Diffs, minerVars
<1>1. ASSUME NEW d \in Suggestions, Suggest(d) PROVE DiffInv'
  <2>1. d \in Nat \ {0}
    BY <1>1, DiffsAssumption DEF Suggest
  <2> QED
    BY <1>1, <2>1, Constants DEF Suggest, SetDifficulty
<1>2. ASSUME NEW d \in Diffs \cup Starts, Submit(d) PROVE DiffInv'
  BY <1>2 DEF Submit
<1>3. CASE Silence
  BY <1>3 DEF Silence
<1>4. CASE MiningSubscribe
  BY <1>4 DEF MiningSubscribe
<1>5. CASE UNCHANGED diffVars
  BY <1>5 DEF diffVars
<1> HIDE DEF DiffInv
<1> QED
  BY <1>1, <1>2, <1>3, <1>4, <1>5, RetargetStep, TickStep, Zenon DEF DiffNext

\* A share of the difficulty before a retarget is good for Grace seconds.
THEOREM GraceIsHonoured == DiffSpec => []GraceHonoured
<1>1. DiffInv => GraceHonoured
  <2> SUFFICES ASSUME DiffInv, NEW r \in recent PROVE Meets(r[1])
    BY DEF GraceHonoured
  <2> QED
    BY Constants DEF DiffInv, DiffTypeOK, OneRecent, Meets, Diffs
<1> QED
  BY DiffInitHolds, DiffStepHolds, <1>1, PTL DEF DiffSpec

\* Whatever -stratumdiff is, a difficulty outside the limits of the code is the one that
\* the connection started with, and no retarget and no suggestion leads out of them.
THEOREM DifficultyInRange == DiffSpec => []LimitsKept
<1>1. DiffInv => LimitsKept
  BY DEF DiffInv
<1> QED
  BY DiffInitHolds, DiffStepHolds, <1>1, PTL DEF DiffSpec

=============================================================================
