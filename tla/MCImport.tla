-------------------------------- MODULE MCImport --------------------------------
(***************************************************************************)
(* How peers, transactions and blocks come in and the chain is written,    *)
(* each part by itself: the set of peers, once for two peers and once for  *)
(* one that has every satellite protocol and connects again; the two       *)
(* fetchers; and the database of the chain, once for reorganisations of    *)
(* longer branches without faults and once with stops, crashes and rewinds;*)
(* and the bids of builders for the next block.                            *)
(***************************************************************************)
EXTENDS TxFetcher, TLC

CONSTANTS
    g, a1, a2, a3, a4, b2, b3, b4,  \* blocks
    Parts                           \* what to explore: "peers", "satellites", "txs", "blocks",
                                    \* "reorgs", "crashes", "bids"

VARIABLES
    part,
    lock, conn, up, caps, eth, ext, wait, pend, got, peers, snapPeers, perIP, trusted, flips, stopping, gaveUp,
    atTop, blockAnnounces, blockAnnounced, blockFetching, fetched, completing, queue, queues, queued,
    fetchTimer, completeTimer, headerReqs, bodyReqs, imports, chain, notifies, injects,
    blocks, diskStates, canon, headBlock, headHeader, lookup, alive, memStates, current, header, job,
    crashes, setHeads,
    crashed, running, receiving, toggles, bidHead, cleared, sender, slots, pending, newBidCh, loop,
    interrupted, main, simulating, env, best

peerVars ==
    <<lock, conn, up, caps, eth, ext, wait, pend, got, peers, snapPeers, perIP, trusted, flips, stopping, gaveUp>>
blockVars ==
    <<atTop, blockAnnounces, blockAnnounced, blockFetching, fetched, completing, queue, queues, queued,
      fetchTimer, completeTimer, headerReqs, bodyReqs, imports, chain, notifies, injects>>
chainVars ==
    <<blocks, diskStates, canon, headBlock, headHeader, lookup, alive, memStates, current, header, job,
      crashes, setHeads>>
bidVars ==
    <<crashed, running, receiving, toggles, bidHead, cleared, sender, slots, pending, newBidCh, loop,
      interrupted, main, simulating, env, best>>

-------------------------------------------------------------------------------
(* The peers *)

P == INSTANCE PeerSet WITH
        Ids <- {"p", "q"}, Exts <- <<"bsc">>, TryLockExts <- {"bsc"},
        MaxPeersPerIP <- 1, MayStop <- TRUE, MayTrust <- TRUE, MaxConns <- 1
S == INSTANCE PeerSet WITH
        Ids <- {"p"}, Exts <- <<"snap", "trust", "bsc">>, TryLockExts <- {"bsc"},
        MaxPeersPerIP <- 1, MayStop <- TRUE, MayTrust <- FALSE, MaxConns <- 3

-------------------------------------------------------------------------------
(* The fetchers: TxFetcher, and *)

\* A block on the genesis block, without transactions, and its child.
F == INSTANCE BlockFetcher WITH
        Hashes <- {"a1", "a2"}, Peers <- {"p", "q"}, Genesis <- "g", Empty <- {"a1"},
        Number <- [h \in {"a1", "a2"} |-> IF h = "a2" THEN 2 ELSE 1],
        Parent <- [h \in {"a1", "a2"} |-> IF h = "a2" THEN "a1" ELSE "g"],
        HashLimit <- 2, BlockLimit <- 1, MaxUncleDist <- 1, MaxQueueDist <- 2, FinalityLag <- 1,
        MaxNotifies <- 2, MaxInjects <- 2,
        announces <- blockAnnounces, announced <- blockAnnounced, fetching <- blockFetching

-------------------------------------------------------------------------------
(* The chain *)

Long == {g, a1, a2, a3, a4, b2, b3, b4}
Short == Long \ {a4, b4}

MCParent == [b \in Long \ {g} |->
    CASE b = a1 -> g [] b = a2 -> a1 [] b = a3 -> a2 [] b = a4 -> a3
      [] b = b2 -> a1 [] b = b3 -> b2 [] b = b4 -> b3]
MCNumber == [b \in Long |->
    CASE b = g -> 0 [] b = a1 -> 1 [] b \in {a2, b2} -> 2 [] b \in {a3, b3} -> 3 [] b \in {a4, b4} -> 4]

\* b2 justifies a block: it wins over a3 and ties with a4 although it is lower, so that
\* the losing branch can be TriesInMemory longer than the head.
MCWeight == [b \in Long |->
    CASE b = g -> 0 [] b = a1 -> 1 [] b = a2 -> 2 [] b = a3 -> 3 [] b \in {a4, b2} -> 4 [] b = b3 -> 5 [] b = b4 -> 6]

\* The forks share transactions at different heights.
MCTxsOf == [b \in Long |->
    CASE b = g -> {} [] b = a1 -> {1} [] b = a2 -> {2} [] b = a3 -> {3} [] b = a4 -> {4}
      [] b = b2 -> {3} [] b = b3 -> {2} [] b = b4 -> {5}]

R == INSTANCE ChainStore WITH
        Blocks <- Long, Genesis <- g, Parent <- MCParent, Number <- MCNumber, Weight <- MCWeight,
        TxsOf <- MCTxsOf, TriesInMemory <- 2, MaxCrashes <- 0, MaxSetHeads <- 1
C == INSTANCE ChainStore WITH
        Blocks <- Short, Genesis <- g, Parent <- MCParent, Number <- MCNumber, Weight <- MCWeight,
        TxsOf <- MCTxsOf, TriesInMemory <- 2, MaxCrashes <- 2, MaxSetHeads <- 1

-------------------------------------------------------------------------------
(* The bids *)

\* Three bids for a block: the second of builder x brings more fees than the first and
\* less to the validator, that of y is the best and fails.
MCBids == {"x1", "x2", "y1"}
MCBuilder == "x1" :> "x" @@ "x2" :> "x" @@ "y1" :> "y"
MCBlockReward == "x1" :> 2 @@ "x2" :> 3 @@ "y1" :> 4
MCValidatorReward == "x1" :> 2 @@ "x2" :> 1 @@ "y1" :> 2

B == INSTANCE BidSimulator WITH
        Bids <- MCBids, Builder <- MCBuilder, BlockNumber <- [b \in MCBids |-> 4],
        BlockReward <- MCBlockReward, ValidatorReward <- MCValidatorReward, Valid <- {"x1", "x2"},
        Clients <- {"x"}, Greedy <- 1, MaxBidPerBuilderPerBlock <- 1, ChanSize <- 1,
        TriesInMemory <- 3, FirstHead <- 3, LastHead <- 4, MaxToggles <- 1, head <- bidHead

-------------------------------------------------------------------------------
MCInit ==
    /\ part \in Parts
    /\ IF part = "peers" THEN P!Init ELSE S!Init
    /\ Init /\ F!Init /\ R!Init /\ B!Init

MCNext ==
    /\ \/ /\ \/ part = "peers" /\ P!Next
             \/ part = "satellites" /\ S!Next
          /\ UNCHANGED <<vars, blockVars, chainVars, bidVars>>
       \/ part = "txs" /\ Next /\ UNCHANGED <<peerVars, blockVars, chainVars, bidVars>>
       \/ part = "blocks" /\ F!Next /\ UNCHANGED <<peerVars, vars, chainVars, bidVars>>
       \/ /\ \/ part = "reorgs" /\ R!Next
             \/ part = "crashes" /\ C!Next
          /\ UNCHANGED <<peerVars, vars, blockVars, bidVars>>
       \/ part = "bids" /\ B!Next /\ UNCHANGED <<peerVars, vars, blockVars, chainVars>>
    /\ UNCHANGED part

MCSpec == MCInit /\ [][MCNext]_<<part, peerVars, vars, blockVars, chainVars, bidVars>>

\* Who waits for a satellite, or is sent to with the lock of the peer set held, is an
\* eth in that wait or on its way out of it.
SendersAwaited == IF part = "peers" THEN P!SendersAwaited ELSE S!SendersAwaited

\* Whoever sends with the lock of the peer set held is received.
SendersReceived == P!SendersReceived

\* The satellites that are registered or wait for eth are those of live connections,
\* unless eth gave up before; and the counts of peers are right.
SatellitesKept ==
    part \in {"peers", "satellites"} =>
        IF part = "peers" THEN P!ExtensionsAlive /\ P!PeersCounted
        ELSE S!ExtensionsAlive /\ S!PeersCounted

\* A block is imported by one goroutine at a time, the counts that limit the delivered
\* blocks are those of the queued ones, and the timers of the block fetcher run while
\* something waits for them.
BlocksInStep == F!ImportedOnce /\ F!QueueCounted /\ F!TimersRun

\* The head marker's chain is there and no other chain is marked below it, and a
\* waiting node has the state of its head.
ChainWhole == R!MarkersAgree /\ R!HeadHasState

\* A waiting node has a marker below every marker.
NoGaps == R!NoGaps

\* Without crashes, once a write is complete, there are no gaps; without rewinds nothing
\* above the head is canonical and the transaction index is exact as well.
IndexExact ==
    crashes = 0 =>
        /\ R!NoGaps
        /\ setHeads = 0 => R!NothingAboveHead /\ R!LookupExact

\* What newBidLoop compares bids with is really being simulated.
SimulatedForReal == B!SimulatedForReal

\* The loop that takes bids, which waits for the one that simulates them, goes on.
BidsTaken == part = "bids" /\ B!Fairness => B!BidsTaken
===============================================================================
