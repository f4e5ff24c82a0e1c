-------------------------------- MODULE VoteLoops --------------------------------
(***************************************************************************)
(* The goroutines that votes pass through and the bounded channels between *)
(* them: peers and the vote manager put votes into the pool's votesCh, the *)
(* pool announces each current vote to the manager's syncVoteCh and waits  *)
(* until it is taken, the chain sends every new head to both loops and     *)
(* waits likewise, and the sealer asks for votes under the pool's lock.    *)
(*                                                                         *)
(* Only how many votes are where is modelled; VotePool and VoteManager say *)
(* which.  The other subscribers of the pool's feed (broadcast, filters,   *)
(* monitor) are taken to drain their channels.                             *)
(***************************************************************************)
EXTENDS Naturals

CONSTANTS
    PutSize,      \* voteBufferForPut: the capacity of votesCh, 256 in the code
    SyncSize,     \* the capacity of syncVoteCh, 256
    HeadSize,     \* highestVerifiedBlockChanSize, 10
    MaxInFlight   \* the load: how many votes are on their way at a time

VARIABLES
    votesCh,   \* votes in votesCh
    future,    \* votes in futureVotes
    poolPc,    \* "select", or "send": votesFeed.Send of the votes in sending
    sending,   \* votes that are still to be announced
    locked,    \* pool.mu is held over the announcement
    syncCh,    \* votes in syncVoteCh
    managerPc, \* "select", or "put": pool.PutVote of an own vote
    headCh,    \* heads in highestVerifiedBlockCh of the pool and the manager
    unsent,    \* the loops that highestVerifiedBlockFeed.Send has not reached
    fetching   \* the sealer waits in FetchVoteByBlockHash

vars == <<votesCh, future, poolPc, sending, locked, syncCh, managerPc, headCh, unsent, fetching>>

Loops == {"pool", "manager"}

InFlight == votesCh + future + sending + syncCh + (IF managerPc = "put" THEN 1 ELSE 0)

-------------------------------------------------------------------------------
(* The chain, the peers and the sealer *)

\* writeBlockAndSetHead sends the head to both loops.
NewHead ==
    /\ unsent = {} /\ unsent' = Loops
    /\ UNCHANGED <<votesCh, future, poolPc, sending, locked, syncCh, managerPc, headCh, fetching>>

SendHead(l) ==
    /\ l \in unsent /\ headCh[l] < HeadSize
    /\ headCh' = [headCh EXCEPT ![l] = @ + 1]
    /\ unsent' = unsent \ {l}
    /\ UNCHANGED <<votesCh, future, poolPc, sending, locked, syncCh, managerPc, fetching>>

\* handleVotesBroadcast puts the vote of a peer.
PeerPut ==
    /\ InFlight < MaxInFlight /\ votesCh < PutSize
    /\ votesCh' = votesCh + 1
    /\ UNCHANGED <<future, poolPc, sending, locked, syncCh, managerPc, headCh, unsent, fetching>>

\* assembleVoteAttestation calls FetchVoteByBlockHash, which takes the lock.
CallFetch ==
    /\ ~fetching /\ fetching' = TRUE
    /\ UNCHANGED <<votesCh, future, poolPc, sending, locked, syncCh, managerPc, headCh, unsent>>

ReturnFetch ==
    /\ fetching /\ ~locked /\ fetching' = FALSE
    /\ UNCHANGED <<votesCh, future, poolPc, sending, locked, syncCh, managerPc, headCh, unsent>>

-------------------------------------------------------------------------------
(* The loop of the pool *)

\* putIntoVotePool: refused, kept for later, or announced before it is stored.
PoolTakesVote ==
    /\ poolPc = "select" /\ votesCh > 0
    /\ votesCh' = votesCh - 1
    /\ \/ UNCHANGED <<future, poolPc, sending>>
       \/ future' = future + 1 /\ UNCHANGED <<poolPc, sending>>
       \/ poolPc' = "send" /\ sending' = 1 /\ UNCHANGED future
    /\ UNCHANGED <<locked, syncCh, managerPc, headCh, unsent, fetching>>

\* Mutant: votes are served first.
PoolTakesHeadLast ==
    /\ poolPc = "select" /\ headCh["pool"] > 0 /\ votesCh = 0
    /\ headCh' = [headCh EXCEPT !["pool"] = @ - 1]
    /\ \E moved \in 0 .. future : \E valid \in 0 .. moved :
        /\ future' = future - moved
        /\ sending' = valid
        /\ locked' = (valid > 0)
        /\ poolPc' = IF valid > 0 THEN "send" ELSE "select"
    /\ UNCHANGED <<votesCh, syncCh, managerPc, unsent, fetching>>

\* Mutant: the lock is released only after an announcement.
PoolTakesHeadLocked ==
    /\ poolPc = "select" /\ headCh["pool"] > 0
    /\ headCh' = [headCh EXCEPT !["pool"] = @ - 1]
    /\ \E moved \in 0 .. future : \E valid \in 0 .. moved :
        /\ future' = future - moved
        /\ sending' = valid
        /\ locked' = TRUE
        /\ poolPc' = IF valid > 0 THEN "send" ELSE "select"
    /\ UNCHANGED <<votesCh, syncCh, managerPc, unsent, fetching>>

\* prune and transferVotesFromFutureToCur: of the votes whose time has come the
\* valid ones are announced, with the lock held.
PoolTakesHead ==
    /\ poolPc = "select" /\ headCh["pool"] > 0
    /\ headCh' = [headCh EXCEPT !["pool"] = @ - 1]
    /\ \E moved \in 0 .. future : \E valid \in 0 .. moved :
        /\ future' = future - moved
        /\ sending' = valid
        /\ locked' = (valid > 0)
        /\ poolPc' = IF valid > 0 THEN "send" ELSE "select"
    /\ UNCHANGED <<votesCh, syncCh, managerPc, unsent, fetching>>

\* votesFeed.Send returns when syncVoteCh has taken the vote.
PoolSends ==
    /\ poolPc = "send" /\ syncCh < SyncSize
    /\ syncCh' = syncCh + 1
    /\ sending' = sending - 1
    /\ locked' = (locked /\ sending > 1)
    /\ poolPc' = IF sending > 1 THEN "send" ELSE "select"
    /\ UNCHANGED <<votesCh, future, managerPc, headCh, unsent, fetching>>

-------------------------------------------------------------------------------
(* The loop of the manager *)

\* A head: no vote, or one that is signed and journaled.
ManagerTakesHead ==
    /\ managerPc = "select" /\ headCh["manager"] > 0
    /\ headCh' = [headCh EXCEPT !["manager"] = @ - 1]
    /\ \/ UNCHANGED managerPc
       \/ InFlight < MaxInFlight /\ managerPc' = "put"
    /\ UNCHANGED <<votesCh, future, poolPc, sending, locked, syncCh, unsent, fetching>>

\* pool.PutVote returns when votesCh has taken the vote.
ManagerPuts ==
    /\ managerPc = "put" /\ votesCh < PutSize
    /\ votesCh' = votesCh + 1
    /\ managerPc' = "select"
    /\ UNCHANGED <<future, poolPc, sending, locked, syncCh, headCh, unsent, fetching>>

\* A NewVoteEvent is read, and journaled or ignored.
ManagerSyncs ==
    /\ managerPc = "select" /\ syncCh > 0
    /\ syncCh' = syncCh - 1
    /\ UNCHANGED <<votesCh, future, poolPc, sending, locked, managerPc, headCh, unsent, fetching>>

-------------------------------------------------------------------------------
Init ==
    /\ votesCh = 0 /\ future = 0 /\ syncCh = 0
    /\ poolPc = "select" /\ sending = 0 /\ locked = FALSE
    /\ managerPc = "select"
    /\ headCh = [l \in Loops |-> 0] /\ unsent = {}
    /\ fetching = FALSE

Next ==
    \/ NewHead \/ \E l \in Loops : SendHead(l)
    \/ PeerPut \/ CallFetch \/ ReturnFetch
    \/ PoolTakesVote \/ PoolTakesHead \/ PoolSends
    \/ ManagerTakesHead \/ ManagerPuts \/ ManagerSyncs

\* A goroutine that can run does.  A select with several ready cases takes
\* each of them at some time (strong fairness), a channel serves the senders
\* that wait in order, and so does a lock.
Fairness ==
    /\ \A l \in Loops : SF_vars(SendHead(l))
    /\ SF_vars(ReturnFetch)
    /\ SF_vars(PoolTakesVote) /\ SF_vars(PoolTakesHead) /\ WF_vars(PoolSends)
    /\ SF_vars(ManagerTakesHead) /\ SF_vars(ManagerPuts) /\ SF_vars(ManagerSyncs)

Spec == Init /\ [][Next]_vars /\ Fairness

-------------------------------------------------------------------------------
(* Properties *)

\* The loops wait for each other: the pool's for room in the manager's full channel,
\* the manager's for room in the pool's.
EachOther ==
    /\ poolPc = "send" /\ syncCh = SyncSize
    /\ managerPc = "put" /\ votesCh = PutSize

\* The import of blocks, which waits for both loops to take the new head, goes on,
\* and ends only where the loops wait for each other.
ImportGoesOn == unsent # {} ~> unsent = {} \/ EachOther

\* The sealer gets the votes it waits for, with the same exception.
SealerServed == fetching ~> ~fetching \/ EachOther
===============================================================================
