---------------------------- MODULE BlockDownload ----------------------------
(***************************************************************************)
(* Which block is requested from which peer (net_processing.cpp): the      *)
(* state kept per node, mapBlocksInFlight, the messages that announce and  *)
(* deliver blocks, the choice of the next blocks to request and the        *)
(* disconnection of peers that do not deliver.                             *)
(*                                                                         *)
(* One thread handles the messages; the socket thread finalizes nodes and  *)
(* an RPC thread may submit a block while that thread is between           *)
(* MarkBlockAsReceived and ProcessNewBlock.  Every message is valid, blocks*)
(* included (ChainState has the invalid ones), but a peer may send any     *)
(* block at any time, or nothing.  The clock is left out: a timeout may    *)
(* fire at any moment at which the code compares the time with one.        *)
(* vBlocksInFlight is a set, its order only matters to the clock, and the  *)
(* work of a block is its height.                                          *)
(***************************************************************************)
EXTENDS Integers, FiniteSets

CONSTANTS Peers, NoPeer,
          Blocks,         \* the blocks but the genesis block, 0
          Parent,         \* Parent[b]
          Preferred,      \* the outbound or whitelisted peers
          Whitelisted,    \* those of -whitelist
          Honest,         \* the peers that stay and answer in time
          MaxInTransit,   \* MAX_BLOCKS_IN_TRANSIT_PER_PEER
          Window,         \* BLOCK_DOWNLOAD_WINDOW
          MinBlocksToKeep, \* MIN_BLOCKS_TO_KEEP
          DayHeight,      \* from this height on a block is at most a day old
          RecentHeight    \* and from this one at most 20 block intervals

ASSUME DownloadAssumption ==
    /\ IsFiniteSet(Peers) /\ NoPeer \notin Peers
    /\ Preferred \subseteq Peers /\ Whitelisted \subseteq Preferred /\ Honest \subseteq Peers
    /\ Blocks \subseteq Nat \ {0} /\ IsFiniteSet(Blocks)
    /\ Parent \in [Blocks -> Blocks \cup {0}] /\ \A b \in Blocks : Parent[b] < b
    /\ MaxInTransit \in Nat \ {0} /\ Window \in Nat /\ MinBlocksToKeep \in Nat
    /\ DayHeight \in Nat /\ RecentHeight \in Nat

NoBlock == -1

VARIABLES
    headers,    \* the blocks of mapBlockIndex
    have,       \* those with BLOCK_HAVE_DATA
    tip,        \* chainActive.Tip()
    node,       \* node[p]: "new", "init" (in mapNodeState), "ready" (handshake done), "gone"
    fDisconnect,
    best,       \* pindexBestKnownBlock
    unknown,    \* hashLastUnknownBlock
    common,     \* pindexLastCommonBlock
    fSyncStarted, fPreferredDownload, nPreferredDownload, nSyncStarted,
    getheaders, \* the peers of Honest that owe an answer to a getheaders without a stop hash
    flight,     \* the bookkeeping of the blocks in flight
    msg         \* the block the message thread is about to give to ProcessNewBlock

chainVars == <<headers, have, tip>>
knownVars == <<best, unknown, common>>
countVars == <<fSyncStarted, fPreferredDownload, nPreferredDownload, nSyncStarted>>
vars == <<chainVars, knownVars, countVars, getheaders, node, fDisconnect, flight, msg>>

\* Per node: nStallingSince is not 0, the blocks of vBlocksInFlight, its two counters and
\* the blocks with a partialBlock.
NoFlight ==
    [nStallingSince |-> [p \in Peers |-> FALSE],
     vBlocksInFlight |-> [p \in Peers |-> {}],
     nBlocksInFlight |-> [p \in Peers |-> 0],
     nBlocksInFlightValidHeaders |-> [p \in Peers |-> 0],
     partialBlock |-> [p \in Peers |-> {}],
     mapBlocksInFlight |-> [b \in Blocks |-> NoPeer],
     nPeersWithValidatedDownloads |-> 0]

NoMsg == [from |-> NoPeer, block |-> NoBlock, forced |-> FALSE, mark |-> FALSE]

Init ==
    /\ headers = {0} /\ have = {0} /\ tip = 0
    /\ node = [p \in Peers |-> "new"]
    /\ fDisconnect = [p \in Peers |-> FALSE]
    /\ best = [p \in Peers |-> NoBlock]
    /\ unknown = [p \in Peers |-> NoBlock]
    /\ common = [p \in Peers |-> NoBlock]
    /\ fSyncStarted = [p \in Peers |-> FALSE]
    /\ fPreferredDownload = [p \in Peers |-> FALSE]
    /\ nPreferredDownload = 0 /\ nSyncStarted = 0
    /\ getheaders = {}
    /\ flight = NoFlight
    /\ msg = NoMsg

-----------------------------------------------------------------------------
(* The tree of blocks                                                      *)

Height[b \in Blocks \cup {0}] == IF b = 0 THEN 0 ELSE Height[Parent[b]] + 1

\* b and its ancestors.
Chain[b \in Blocks \cup {0}] == IF b = 0 THEN {0} ELSE Chain[Parent[b]] \cup {b}

\* nChainTx: b and all its ancestors have been received.
Linked(b, H) == Chain[b] \subseteq H

\* The block of a set of blocks of one branch that has the greatest height.
Highest(S) == CHOOSE b \in S : \A c \in S : Height[c] <= Height[b]

LastCommonAncestor(a, b) == Highest(Chain[a] \cap Chain[b])

\* A better header than the tip is known, and the tip is older than a day.
IsInitialBlockDownload ==
    Height[Highest(headers)] > Height[tip] /\ Height[tip] < DayHeight

CanDirectFetch == Height[tip] >= RecentHeight

InFlight(b) == flight.mapBlocksInFlight[b] # NoPeer

-----------------------------------------------------------------------------
(* The bookkeeping of the blocks in flight                                 *)

\* Mutant of MarkBlockAsReceived: the peer goes on being counted as a source.
MarkBlockAsReceivedMutant(f, b) ==
    LET p == f.mapBlocksInFlight[b]
    IN IF p = NoPeer THEN f
       ELSE [f EXCEPT !.nBlocksInFlightValidHeaders[p] = @ - 1,
                      !.vBlocksInFlight[p] = @ \ {b}, !.partialBlock[p] = @ \ {b},
                      !.nBlocksInFlight[p] = @ - 1, !.nStallingSince[p] = FALSE,
                      !.mapBlocksInFlight[b] = NoPeer]

\* Mutant of MarkBlockAsReceived: nStallingSince is not reset.
StillStallingMutant(f, b) ==
    LET p == f.mapBlocksInFlight[b]
        left == f.nBlocksInFlightValidHeaders[p] - 1
    IN IF p = NoPeer THEN f
       ELSE [f EXCEPT !.nBlocksInFlightValidHeaders[p] = left,
                      !.nPeersWithValidatedDownloads = IF left = 0 THEN @ - 1 ELSE @,
                      !.vBlocksInFlight[p] = @ \ {b}, !.partialBlock[p] = @ \ {b},
                      !.nBlocksInFlight[p] = @ - 1,
                      !.mapBlocksInFlight[b] = NoPeer]

MarkBlockAsReceived(f, b) ==
    IF f.mapBlocksInFlight[b] = NoPeer THEN f
    ELSE LET p == f.mapBlocksInFlight[b]
             left == f.nBlocksInFlightValidHeaders[p] - 1
         IN [f EXCEPT !.nBlocksInFlightValidHeaders[p] = left,
                      !.nPeersWithValidatedDownloads = IF left = 0 THEN @ - 1 ELSE @,
                      !.vBlocksInFlight[p] = @ \ {b},
                      !.partialBlock[p] = @ \ {b},
                      !.nBlocksInFlight[p] = @ - 1,
                      !.nStallingSince[p] = FALSE,
                      !.mapBlocksInFlight[b] = NoPeer]

\* MarkBlockAsInFlight for every block of S.  The callers ask only for blocks that are
\* not in flight, so MarkBlockAsReceived, which it calls first, does nothing, and always
\* with a header.
MarkBlocksAsInFlight(f, p, S) ==
    [f EXCEPT !.vBlocksInFlight[p] = @ \cup S,
              !.nBlocksInFlight[p] = @ + Cardinality(S),
              !.nBlocksInFlightValidHeaders[p] = @ + Cardinality(S),
              !.nPeersWithValidatedDownloads =
                  IF S # {} /\ f.nBlocksInFlightValidHeaders[p] = 0 THEN @ + 1 ELSE @,
              !.mapBlocksInFlight = [b \in Blocks |-> IF b \in S THEN p ELSE @[b]]]

\* Mutant of ForgetFlight: the blocks stay in mapBlocksInFlight.
ForgetFlightMutant(f, p) ==
    [f EXCEPT !.nPeersWithValidatedDownloads =
                  IF f.nBlocksInFlightValidHeaders[p] # 0 THEN @ - 1 ELSE @,
              !.vBlocksInFlight[p] = {},
              !.nBlocksInFlight[p] = 0,
              !.nBlocksInFlightValidHeaders[p] = 0,
              !.nStallingSince[p] = FALSE,
              !.partialBlock[p] = {}]

\* The part of FinalizeNode that is about blocks in flight; the state of p is erased.
ForgetFlight(f, p) ==
    [f EXCEPT !.mapBlocksInFlight =
                  [b \in Blocks |-> IF b \in f.vBlocksInFlight[p] THEN NoPeer ELSE @[b]],
              !.nPeersWithValidatedDownloads =
                  IF f.nBlocksInFlightValidHeaders[p] # 0 THEN @ - 1 ELSE @,
              !.vBlocksInFlight[p] = {},
              !.nBlocksInFlight[p] = 0,
              !.nBlocksInFlightValidHeaders[p] = 0,
              !.nStallingSince[p] = FALSE,
              !.partialBlock[p] = {}]

-----------------------------------------------------------------------------
(* What a peer has                                                         *)

\* The better of a known block, if there is one, and b; an equal one is replaced.
Better(a, b) == IF a = NoBlock \/ Height[b] >= Height[a] THEN b ELSE a

\* pindexBestKnownBlock and hashLastUnknownBlock of p once H is in mapBlockIndex.
ProcessBlockAvailability(p, H) ==
    IF unknown[p] \in H THEN [best |-> Better(best[p], unknown[p]), unknown |-> NoBlock]
                        ELSE [best |-> best[p], unknown |-> unknown[p]]

UpdateBlockAvailability(p, b, H) ==
    LET k == ProcessBlockAvailability(p, H)
    IN IF b \in H THEN [k EXCEPT !.best = Better(@, b)] ELSE [k EXCEPT !.unknown = b]

SetKnown(p, k) ==
    /\ best' = [best EXCEPT ![p] = k.best]
    /\ unknown' = [unknown EXCEPT ![p] = k.unknown]

-----------------------------------------------------------------------------
(* Connections                                                             *)

Connected(p) == node[p] = "ready" /\ ~fDisconnect[p]

\* The message thread is not inside ProcessNewBlock.
Free == msg = NoMsg

InitializeNode(p) ==
    /\ node[p] = "new"
    /\ node' = [node EXCEPT ![p] = "init"]
    /\ UNCHANGED <<chainVars, knownVars, countVars, getheaders, fDisconnect, flight, msg>>

\* The handshake: UpdatePreferredDownload, then fSuccessfullyConnected.
UpdatePreferredDownload(p) ==
    /\ Free
    /\ node[p] = "init" /\ ~fDisconnect[p]
    /\ node' = [node EXCEPT ![p] = "ready"]
    /\ fPreferredDownload' = [fPreferredDownload EXCEPT ![p] = p \in Preferred]
    /\ nPreferredDownload' = nPreferredDownload + IF p \in Preferred THEN 1 ELSE 0
    /\ UNCHANGED <<chainVars, knownVars, fSyncStarted, nSyncStarted, getheaders, fDisconnect, flight,
                   msg>>

\* The socket thread finds the connection closed.
Close(p) ==
    /\ p \notin Honest
    /\ node[p] \in {"init", "ready"} /\ ~fDisconnect[p]
    /\ fDisconnect' = [fDisconnect EXCEPT ![p] = TRUE]
    /\ UNCHANGED <<chainVars, knownVars, countVars, getheaders, node, flight, msg>>

\* The socket thread deletes a node that no other thread refers to.
FinalizeNode(p) ==
    /\ node[p] \in {"init", "ready"} /\ fDisconnect[p] /\ msg.from # p
    /\ node' = [node EXCEPT ![p] = "gone"]
    /\ nSyncStarted' = nSyncStarted - IF fSyncStarted[p] THEN 1 ELSE 0
    /\ nPreferredDownload' = nPreferredDownload - IF fPreferredDownload[p] THEN 1 ELSE 0
    /\ flight' = ForgetFlight(flight, p)
    /\ fSyncStarted' = [fSyncStarted EXCEPT ![p] = FALSE]
    /\ fPreferredDownload' = [fPreferredDownload EXCEPT ![p] = FALSE]
    /\ best' = [best EXCEPT ![p] = NoBlock]
    /\ unknown' = [unknown EXCEPT ![p] = NoBlock]
    /\ common' = [common EXCEPT ![p] = NoBlock]
    /\ getheaders' = getheaders \ {p}
    /\ UNCHANGED <<chainVars, fDisconnect, msg>>

-----------------------------------------------------------------------------
(* Blocks that arrive                                                      *)

\* The tips ActivateBestChain may choose when H is received: the current one, unless
\* a chain of received blocks has more work.
BestTips(H) ==
    LET linked == {b \in H : Linked(b, H)}
        most == {b \in linked : \A c \in linked : Height[c] <= Height[b]}
    IN IF \E b \in most : Height[b] > Height[tip] THEN most ELSE {tip}

\* ProcessNewBlock and AcceptBlock: an unrequested block is stored only if it has more
\* work than the tip and is not too far ahead of it.
Accept(b, forced) ==
    LET hasMoreWork == Height[b] > Height[tip]
        tooFarAhead == Height[b] > Height[tip] + MinBlocksToKeep
    IN
    /\ headers' = IF Parent[b] \in headers THEN headers \cup {b} ELSE headers
    /\ have' = IF Parent[b] \in headers /\ (forced \/ (hasMoreWork /\ ~tooFarAhead))
               THEN have \cup {b} ELSE have
    /\ tip' \in BestTips(have')

ProcessNewBlock ==
    /\ ~Free
    /\ Accept(msg.block, msg.forced)
    /\ flight' = IF msg.mark /\ msg.block \in have' THEN MarkBlockAsReceived(flight, msg.block)
                                                    ELSE flight
    /\ msg' = NoMsg
    /\ UNCHANGED <<knownVars, countVars, getheaders, node, fDisconnect>>

\* submitblock, in an RPC thread.
SubmitBlock(b) ==
    /\ b \notin have
    /\ Accept(b, TRUE)
    /\ UNCHANGED <<knownVars, countVars, getheaders, node, fDisconnect, flight, msg>>

\* Message block.  Whoever the block was requested from, it is not in flight any more.  A
\* block that nobody was asked for is processed all the same if it comes from a
\* whitelisted peer, but not during the initial download.
Block(p, b) ==
    LET force == (p \in Whitelisted /\ ~IsInitialBlockDownload) \/ InFlight(b)
    IN
    /\ Free /\ Connected(p)
    /\ flight' = MarkBlockAsReceived(flight, b)
    /\ msg' = [from |-> p, block |-> b, forced |-> force, mark |-> FALSE]
    /\ UNCHANGED <<chainVars, knownVars, countVars, getheaders, node, fDisconnect>>

-----------------------------------------------------------------------------
(* Blocks that are announced                                               *)

\* A getheaders without a stop hash is sent to p.
AskHeaders(p) == getheaders' = getheaders \cup ({p} \cap Honest)

\* Message inv with a block; if the block is not known, getheaders is sent, but only for the
\* headers as far as that block.
Inv(p, b) ==
    /\ Free /\ Connected(p)
    /\ SetKnown(p, UpdateBlockAvailability(p, b, headers))
    /\ UNCHANGED <<chainVars, common, countVars, getheaders, node, fDisconnect, flight, msg>>

\* Mutant of DirectFetch: what is already in flight from p is not counted.
DirectFetchMutant(f, p, b) ==
    LET missing == {c \in Chain[b] \ Chain[tip] : c \notin have /\ f.mapBlocksInFlight[c] = NoPeer}
    IN {c \in missing : Cardinality({d \in missing : Height[d] < Height[c]}) < MaxInTransit}

\* The blocks that direct fetch asks p for, to switch to b: from the earliest, as many
\* as fit.  The walk back from b ends at the active chain, or after MaxInTransit + 1
\* missing blocks; if that is not on the active chain, nothing is requested.
DirectFetch(f, p, b) ==
    LET off == (Blocks \cap Chain[b]) \ Chain[tip]
        missing == {c \in off : c \notin have /\ f.mapBlocksInFlight[c] = NoPeer}
        above(c) == Cardinality({d \in missing : Height[d] > Height[c]})
        walked == {c \in off : above(c) <= MaxInTransit}
        room == MaxInTransit - f.nBlocksInFlight[p]
        below(c) == Cardinality({d \in missing : Height[d] < Height[c]})
    IN IF walked = off THEN {c \in missing : below(c) < room} ELSE {}

\* The end of the headers handler, for headers that end in b.
FetchHeaders(f, p, b) ==
    IF CanDirectFetch /\ Height[tip] <= Height[b]
    THEN MarkBlocksAsInFlight(f, p, DirectFetch(f, p, b)) ELSE f

\* No block has more work than b.
MostWork(b) == \A c \in Blocks : Height[c] <= Height[b]

\* Message headers: the headers that lead from a known block to b.  The answer to a
\* getheaders goes as far as the best block of the peer.
Headers(p, b) ==
    /\ Free /\ Connected(p)
    /\ headers' = headers \cup Chain[b]
    /\ SetKnown(p, UpdateBlockAvailability(p, b, headers'))
    /\ flight' = FetchHeaders(flight, p, b)
    /\ getheaders' = IF MostWork(b) THEN getheaders \ {p} ELSE getheaders
    /\ UNCHANGED <<have, tip, common, countVars, node, fDisconnect, msg>>

\* Message headers whose first header does not connect; getheaders is sent.
UnconnectingHeaders(p, b) ==
    /\ Free /\ Connected(p)
    /\ Parent[b] \notin headers
    /\ SetKnown(p, UpdateBlockAvailability(p, b, headers))
    /\ AskHeaders(p)
    /\ UNCHANGED <<chainVars, common, countVars, node, fDisconnect, flight, msg>>

\* The handling of a compact block when it is asked from p: f is the bookkeeping once the
\* block is in flight with a partial block.  It is invalid, and p is disconnected unless
\* it is whitelisted, or p is asked for the whole
\* block or for transactions, or everything was there and blocktxn is handled at once.
Reconstruct(p, b, f) ==
    \/ /\ p \notin Honest
       /\ flight' = MarkBlockAsReceived(f, b)
       /\ \E ban \in BOOLEAN : fDisconnect' = [fDisconnect EXCEPT ![p] = ban]
       /\ UNCHANGED msg
    \/ flight' = f /\ UNCHANGED <<fDisconnect, msg>>
    \/ /\ flight' = MarkBlockAsReceived(f, b)
       /\ msg' = [from |-> p, block |-> b, forced |-> TRUE, mark |-> FALSE]
       /\ UNCHANGED fDisconnect

\* A compact block is dealt with by its header only.
CmpctIgnored(b) ==
    \/ b \in have
    \/ Height[b] <= Height[tip]
    \/ ~InFlight(b) /\ ~CanDirectFetch

\* Whether a compact block is asked from p, or reconstructed only if nothing is missing.
CmpctFromPeer(p, b) ==
    \/ ~InFlight(b) /\ flight.nBlocksInFlight[p] < MaxInTransit
    \/ flight.mapBlocksInFlight[b] = p

\* Message cmpctblock with a block that does not connect.
CmpctUnconnecting(p, b) ==
    /\ Free /\ Connected(p)
    /\ Parent[b] \notin headers /\ ~IsInitialBlockDownload
    /\ AskHeaders(p)
    /\ UNCHANGED <<chainVars, knownVars, countVars, node, fDisconnect, flight, msg>>

\* Message cmpctblock.
CmpctBlock(p, b) ==
    LET near == Height[b] <= Height[tip] + 2
        marked == IF InFlight(b) THEN flight ELSE MarkBlocksAsInFlight(flight, p, {b})
    IN /\ Free /\ Connected(p)
       /\ Parent[b] \in headers
       /\ headers' = headers \cup {b}
       /\ SetKnown(p, UpdateBlockAvailability(p, b, headers'))
       /\ \/ /\ CmpctIgnored(b) \/ (near => ~CmpctFromPeer(p, b) \/ b \in flight.partialBlock[p])
             /\ flight' = IF CmpctIgnored(b) \/ near \/ InFlight(b)
                          THEN flight ELSE FetchHeaders(flight, p, b)
             /\ UNCHANGED <<fDisconnect, msg>>
          \/ /\ ~CmpctIgnored(b) /\ near /\ CmpctFromPeer(p, b)
             /\ b \notin flight.partialBlock[p]
             /\ Reconstruct(p, b, [marked EXCEPT !.partialBlock[p] = @ \cup {b}])
          \/ /\ ~CmpctIgnored(b) /\ near /\ ~CmpctFromPeer(p, b)
             /\ msg' = [from |-> p, block |-> b, forced |-> TRUE, mark |-> TRUE]
             /\ UNCHANGED <<flight, fDisconnect>>
       /\ UNCHANGED <<have, tip, common, countVars, getheaders, node>>

\* Message blocktxn.
BlockTxn(p, b) ==
    /\ Free /\ Connected(p)
    /\ flight.mapBlocksInFlight[b] = p /\ b \in flight.partialBlock[p]
    /\ Reconstruct(p, b, flight)
    /\ UNCHANGED <<chainVars, knownVars, countVars, getheaders, node>>

-----------------------------------------------------------------------------
(* SendMessages                                                            *)

Fetch(p) == fPreferredDownload[p] \/ nPreferredDownload = 0

\* The first getheaders: to one peer, or to all once the best header is of today.
StartSync(p) ==
    LET start == /\ ~fSyncStarted[p]
                 /\ \/ nSyncStarted = 0 /\ Fetch(p)
                    \/ Height[Highest(headers)] >= DayHeight
    IN /\ fSyncStarted' = [fSyncStarted EXCEPT ![p] = @ \/ start]
       /\ nSyncStarted' = nSyncStarted + IF start THEN 1 ELSE 0
       /\ IF start THEN AskHeaders(p) ELSE UNCHANGED getheaders

\* FindNextBlocksToDownload, for a peer with the best known block top: where it starts.
WalkFrom(p, top) ==
    LET guess == Highest({b \in Chain[tip] : Height[b] <= Height[top]})
    IN LastCommonAncestor(IF common[p] = NoBlock THEN guess ELSE common[p], top)

\* The blocks it goes through, as far as one beyond the window.
Walk(start, top) ==
    {b \in Blocks \cap Chain[top] : /\ Height[b] > Height[start]
                                    /\ Height[b] <= Height[start] + Window + 1}

\* The blocks to request, at most count.
ToDownload(start, top, count) ==
    LET wanted == {b \in Walk(start, top) : /\ b \notin have /\ ~InFlight(b)
                                            /\ Height[b] <= Height[start] + Window}
    IN {b \in wanted : Cardinality({c \in wanted : Height[c] < Height[b]}) < count}

\* The last block both have: the walk ends at the count-th block to request.
NewCommon(start, top, count) ==
    LET fetched == ToDownload(start, top, count)
        visited == {b \in Walk(start, top) :
                       Cardinality(fetched) = count => Height[b] <= Height[Highest(fetched)]}
    IN Highest({start} \cup {b \in visited : Linked(b, have)})

\* The peer that holds up the window: nothing can be requested within it, the block
\* beyond it could be, and the first block that is in flight comes from another peer.
Staller(p, start, top, count) ==
    LET walk == Walk(start, top)
        beyond == {b \in walk : /\ Height[b] > Height[start] + Window
                                /\ b \notin have /\ ~InFlight(b)}
        flying == {b \in walk : b \notin have /\ InFlight(b)}
        first == CHOOSE b \in flying : \A c \in flying : Height[b] <= Height[c]
    IN IF /\ ToDownload(start, top, count) = {} /\ beyond # {} /\ flying # {}
          /\ flight.mapBlocksInFlight[first] # p
       THEN flight.mapBlocksInFlight[first] ELSE NoPeer

\* The blocks are requested, or the staller is noted.
Request(p, top) ==
    LET start == WalkFrom(p, top)
        count == MaxInTransit - flight.nBlocksInFlight[p]
        staller == Staller(p, start, top, count)
        asked == MarkBlocksAsInFlight(flight, p, ToDownload(start, top, count))
    IN /\ common' = [common EXCEPT ![p] = NewCommon(start, top, count)]
       /\ flight' = IF asked.nBlocksInFlight[p] = 0 /\ staller # NoPeer
                    THEN [asked EXCEPT !.nStallingSince[staller] = TRUE] ELSE asked

\* SendMessages as far as blocks are concerned, when no timeout has passed.
SendMessages(p) ==
    LET k == ProcessBlockAvailability(p, headers)
        look == (Fetch(p) \/ ~IsInitialBlockDownload) /\ flight.nBlocksInFlight[p] < MaxInTransit
    IN /\ Free /\ Connected(p)
       /\ StartSync(p)
       /\ IF look THEN SetKnown(p, k) ELSE UNCHANGED <<best, unknown>>
       /\ IF look /\ k.best # NoBlock /\ Height[k.best] >= Height[tip]
          THEN Request(p, k.best) ELSE UNCHANGED <<common, flight>>
       /\ UNCHANGED <<chainVars, fPreferredDownload, nPreferredDownload, node, fDisconnect, msg>>

\* SendMessages when p stalls the window, or has not delivered a block, for too long.
Timeout(p) ==
    /\ Free /\ Connected(p)
    /\ p \notin Honest
    /\ flight.nStallingSince[p] \/ flight.vBlocksInFlight[p] # {}
    /\ StartSync(p)
    /\ fDisconnect' = [fDisconnect EXCEPT ![p] = TRUE]
    /\ UNCHANGED <<chainVars, knownVars, fPreferredDownload, nPreferredDownload, node, flight, msg>>

-----------------------------------------------------------------------------

Next ==
    \/ \E p \in Peers : \/ InitializeNode(p) \/ UpdatePreferredDownload(p) \/ Close(p)
                        \/ FinalizeNode(p) \/ SendMessages(p) \/ Timeout(p)
    \/ \E p \in Peers, b \in Blocks : \/ Block(p, b) \/ Inv(p, b) \/ Headers(p, b)
                                      \/ UnconnectingHeaders(p, b) \/ CmpctUnconnecting(p, b)
                                      \/ CmpctBlock(p, b) \/ BlockTxn(p, b)
    \/ \E b \in Blocks : SubmitBlock(b)
    \/ ProcessNewBlock

Spec == Init /\ [][Next]_vars

\* What is expected of a peer of Honest: it connects, and it sends the headers and the
\* blocks that it is asked for.  It need not announce anything by itself.
Connect(p) == InitializeNode(p) \/ UpdatePreferredDownload(p)
Answer(p) == p \in getheaders /\ \E b \in Blocks : MostWork(b) /\ Headers(p, b)
Deliver(p) == \E b \in flight.vBlocksInFlight[p] : Block(p, b)

\* The message thread takes the nodes in turn, one message and one SendMessages each, so
\* what it could do for a node again and again it does (strong fairness: in between it
\* is busy with blocks).  A timeout passes, and the socket thread deletes the nodes that
\* are to be disconnected.
FairSpec ==
    /\ Spec
    /\ WF_vars(ProcessNewBlock)
    /\ \A p \in Peers \ Honest : SF_vars(Timeout(p) \/ FinalizeNode(p))
    /\ \A p \in Honest : /\ SF_vars(Connect(p)) /\ SF_vars(Answer(p))
                         /\ SF_vars(SendMessages(p)) /\ SF_vars(Deliver(p))

-----------------------------------------------------------------------------
(* Properties                                                              *)

TypeOK ==
    /\ headers \subseteq Blocks \cup {0} /\ have \subseteq headers /\ tip \in have
    /\ node \in [Peers -> {"new", "init", "ready", "gone"}]
    /\ fDisconnect \in [Peers -> BOOLEAN]
    /\ best \in [Peers -> headers \cup {NoBlock}]
    /\ unknown \in [Peers -> Blocks \cup {NoBlock}]
    /\ common \in [Peers -> headers \cup {NoBlock}]
    /\ fSyncStarted \in [Peers -> BOOLEAN] /\ fPreferredDownload \in [Peers -> BOOLEAN]
    /\ nPreferredDownload \in Nat /\ nSyncStarted \in Nat
    /\ flight \in [nStallingSince : [Peers -> BOOLEAN],
                   vBlocksInFlight : [Peers -> SUBSET Blocks],
                   nBlocksInFlight : [Peers -> Nat],
                   nBlocksInFlightValidHeaders : [Peers -> Nat],
                   partialBlock : [Peers -> SUBSET Blocks],
                   mapBlocksInFlight : [Blocks -> Peers \cup {NoPeer}],
                   nPeersWithValidatedDownloads : Nat]

\* The map of the blocks in flight, the list of each node and the counters agree, so the
\* asserts of FinalizeNode hold: no entry outlives its node, no counter goes below zero
\* and all are zero when the last node is gone.
InFlightConsistent ==
    /\ \A p \in Peers :
          /\ flight.vBlocksInFlight[p] = {b \in Blocks : flight.mapBlocksInFlight[b] = p}
          /\ flight.nBlocksInFlight[p] = Cardinality(flight.vBlocksInFlight[p])
          /\ flight.nBlocksInFlightValidHeaders[p] = flight.nBlocksInFlight[p]
          /\ flight.partialBlock[p] \subseteq flight.vBlocksInFlight[p]
          /\ node[p] # "ready" => flight.vBlocksInFlight[p] = {}
    /\ flight.nPeersWithValidatedDownloads
         = Cardinality({p \in Peers : flight.nBlocksInFlightValidHeaders[p] > 0})
    /\ nPreferredDownload = Cardinality({p \in Peers : fPreferredDownload[p]})
    /\ nSyncStarted = Cardinality({p \in Peers : fSyncStarted[p]})
    /\ (\A p \in Peers : node[p] \in {"new", "gone"}) => nPreferredDownload = 0 /\ nSyncStarted = 0

\* No more than MAX_BLOCKS_IN_TRANSIT_PER_PEER blocks are requested from a peer, whether
\* by SendMessages, by direct fetch or as compact blocks.
TransitBounded == \A p \in Peers : flight.nBlocksInFlight[p] <= MaxInTransit

\* A peer is disconnected as the staller of the window only while it owes a block:
\* nStallingSince is reset with every block that leaves its list.
StallerOwes == \A p \in Peers : flight.nStallingSince[p] => flight.vBlocksInFlight[p] # {}

\* The one peer that was sent a getheaders keeps it: it is connected, no block is in flight
\* from it that could time out, and no peer that answers will be asked as long as the best
\* header is older than a day.
HeldUp ==
    /\ \E p \in Peers \ Honest : fSyncStarted[p] /\ flight.vBlocksInFlight[p] = {}
    /\ \A p \in Honest : ~fSyncStarted[p] /\ p \notin getheaders
    /\ Height[Highest(headers)] < DayHeight

\* One preferred peer that has every block and answers is enough: whatever the other
\* peers announce, send or withhold, the tip gets to the most work.  Only a peer that was
\* chosen for the first getheaders can prevent it, by neither answering nor leaving: the
\* headers, other than the blocks, have no timeout.
SyncCompletes == <>MostWork(tip) \/ <>[]HeldUp

=============================================================================
