------------------------------- MODULE MCProgress -------------------------------
(***************************************************************************)
(* What must go on, each part by itself: the vote pool over a chain of     *)
(* three blocks with a fork, the goroutines around it with their channels, *)
(* and the worker of a validator, with the blocks of others or with what   *)
(* may fail.                                                               *)
(***************************************************************************)
EXTENDS VotePool, TLC

CONSTANTS
    a1, a2, b2, a3,
    Parts,    \* what to explore: "pool", "loops", "worker", "faults"
    Load      \* how many votes are on their way in the channels at a time

VARIABLES part, votesCh, future, poolPc, sending, locked, syncCh, managerPc, headCh, unsent, fetching,
          known, headBlock, announced, importing, heads, running, request, building, prev, pendingTasks,
          sealers, resultCh, recentMinedBlocks, built, failures, toggles, published

loopVars ==
    <<votesCh, future, poolPc, sending, locked, syncCh, managerPc, headCh, unsent, fetching>>
workerVars ==
    <<known, headBlock, announced, importing, heads, running, request, building, prev, pendingTasks,
      sealers, resultCh, recentMinedBlocks, built, failures, toggles, published>>

\* A chain of three blocks with a fork at number 2.
MCNumberOf == a1 :> 1 @@ a2 :> 2 @@ b2 :> 2 @@ a3 :> 3
MCParentOf == a1 :> NoBlock @@ a2 :> a1 @@ b2 :> a1 @@ a3 :> a2

Vote(b, n, k, good) == [hash |-> b, number |-> n, key |-> k, good |-> good]

\* Votes for both branches, one with a key that is not in the validator set and
\* two with a number that is not their block's.
MCVotes ==
    {Vote(a1, 1, 1, TRUE), Vote(a2, 2, 1, TRUE), Vote(a2, 2, 2, FALSE),
     Vote(a2, 1, 3, TRUE), Vote(b2, 3, 2, TRUE)}

L == INSTANCE VoteLoops WITH PutSize <- 2, SyncSize <- 2, HeadSize <- 1, MaxInFlight <- Load

W == INSTANCE SealWorker WITH
        MaxNumber <- 1, MaxWork <- 2, MaxTasks <- 2, MaxOther <- 1, MaxFails <- 0, MaxToggles <- 0,
        TurnLength <- 1, StaleThreshold <- 1, CacheLimit <- 2, QueueSize <- 1,
        head <- headBlock, highest <- announced, fails <- failures

F == INSTANCE SealWorker WITH
        MaxNumber <- 1, MaxWork <- 2, MaxTasks <- 2, MaxOther <- 0, MaxFails <- 2, MaxToggles <- 0,
        TurnLength <- 1, StaleThreshold <- 1, CacheLimit <- 2, QueueSize <- 1,
        head <- headBlock, highest <- announced, fails <- failures

MCInit == part \in Parts /\ Init /\ L!Init /\ W!Init

MCNext ==
    /\ \/ part = "pool" /\ Next /\ UNCHANGED <<loopVars, workerVars>>
       \/ part = "loops" /\ L!Next /\ UNCHANGED <<vars, workerVars>>
       \/ part = "worker" /\ W!Next /\ UNCHANGED <<vars, loopVars>>
       \/ part = "faults" /\ F!Next /\ UNCHANGED <<vars, loopVars>>
    /\ UNCHANGED part

MCSpec == MCInit /\ [][MCNext]_<<part, vars, loopVars, workerVars>>

\* An early vote becomes current once its block is announced.
EarlyVotesGoOn == part = "pool" /\ Fairness => EarlyVotesCount

\* The import of blocks, which waits for both loops, goes on, and the sealer gets
\* the votes it waits for; the loops only ever stop where both channels between them
\* are full and each loop waits for the other.
LoopsGoOn == part = "loops" /\ L!Fairness => L!ImportGoesOn /\ L!SealerServed

\* A running validator that may sign on the head does not stop there, whatever fails
\* on the way, except that the guard keeps it from a second block after a failed write.
MinesOn ==
    /\ part = "worker" /\ W!Fairness => W!MinesOn
    /\ part = "faults" /\ F!Fairness => F!MinesOn
===============================================================================
