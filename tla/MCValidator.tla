------------------------------ MODULE MCValidator -------------------------------
(***************************************************************************)
(* What a validator must not do, and who looks for it, each part by        *)
(* itself: the vote manager that keeps the voting rules and the monitor    *)
(* that finds breaches of them, the worker that must not sign two blocks   *)
(* on one parent (on two block numbers; on one with restarts, with faults) *)
(* and the monitor of double signs.                                        *)
(***************************************************************************)
EXTENDS VoteManager

CONSTANT Parts  \* what to explore: "votes", "vote monitor", "numbers", "restarts", "faults",
                \* "sign monitor"

VARIABLES part, pending, curVotes, passed, reported,
          known, head, highest, importing, heads, running, request, building, prev, pendingTasks,
          sealers, resultCh, recentMinedBlocks, built, fails, toggles, broadcast,
          headers, headerNumbers, doubleSigns

voteMonitorVars == <<pending, curVotes, passed, reported>>
workerVars ==
    <<known, head, highest, importing, heads, running, request, building, prev, pendingTasks,
      sealers, resultCh, recentMinedBlocks, built, fails, toggles, broadcast>>
signMonitorVars == <<headers, headerNumbers, doubleSigns>>

Monitor == INSTANCE MaliciousVotes WITH
              Scope <- 2, Upper <- 1, CacheSize <- 3, Hashes <- {1}, MaxNumber <- 5

N == INSTANCE SealWorker WITH
        MaxNumber <- 2, MaxWork <- 2, MaxTasks <- 2, MaxOther <- 1, MaxFails <- 0, MaxToggles <- 0,
        TurnLength <- 1, StaleThreshold <- 1, CacheLimit <- 2, QueueSize <- 1, published <- broadcast
R == INSTANCE SealWorker WITH
        MaxNumber <- 1, MaxWork <- 2, MaxTasks <- 2, MaxOther <- 1, MaxFails <- 0, MaxToggles <- 2,
        TurnLength <- 1, StaleThreshold <- 1, CacheLimit <- 2, QueueSize <- 1, published <- broadcast
E == INSTANCE SealWorker WITH
        MaxNumber <- 1, MaxWork <- 2, MaxTasks <- 2, MaxOther <- 1, MaxFails <- 1, MaxToggles <- 0,
        TurnLength <- 1, StaleThreshold <- 1, CacheLimit <- 2, QueueSize <- 1, published <- broadcast

\* Three numbers; two validators, the second one signs twice on one parent.
MCHeaders ==
    LET H(n, p, c, i) == [number |-> n, parent |-> p, coinbase |-> c, id |-> i]
    IN {H(1, 0, "a", 1), H(1, 0, "b", 2), H(1, 0, "b", 3), H(2, 1, "a", 4), H(2, 2, "a", 5),
        H(2, 2, "b", 6), H(3, 4, "b", 7), H(3, 6, "b", 8), H(3, 6, "b", 9)}

D == INSTANCE DoubleSigns WITH
        Headers <- MCHeaders, MaxCacheHeader <- 1, reported <- doubleSigns

MCInit == part \in Parts /\ Init /\ Monitor!Init /\ N!Init /\ D!Init

MCNext ==
    /\ \/ part = "votes" /\ Next /\ UNCHANGED <<voteMonitorVars, workerVars, signMonitorVars>>
       \/ part = "vote monitor" /\ Monitor!Next /\ UNCHANGED <<vars, workerVars, signMonitorVars>>
       \/ /\ \/ part = "numbers" /\ N!Next
             \/ part = "restarts" /\ R!Next
             \/ part = "faults" /\ E!Next
          /\ UNCHANGED <<vars, voteMonitorVars, signMonitorVars>>
       \/ part = "sign monitor" /\ D!Next /\ UNCHANGED <<vars, voteMonitorVars, workerVars>>
    /\ UNCHANGED part

MCSpec == MCInit /\ [][MCNext]_<<part, vars, voteMonitorVars, workerVars, signMonitorVars>>

\* No two votes that break a rule pass the vote monitor while in scope, and what
\* it reports breaks a rule.
MonitorExact == Monitor!NoConflictPasses /\ Monitor!ReportedConflict

\* The node never broadcasts two blocks on one parent.
NoDoubleSign == N!NoDoubleSign

\* The heap and the map of the sign monitor hold the same numbers, within bounds.
HeapAndMapInStep == D!HeapAndMapInStep
===============================================================================
