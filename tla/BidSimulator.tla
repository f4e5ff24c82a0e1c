----------------------------- MODULE BidSimulator -----------------------------
(***************************************************************************)
(* The bids of builders, miner/bid_simulator.go: goroutines that send bids *)
(* (sendBid), one that compares them with the best one (newBidLoop), one   *)
(* that simulates them (mainLoop) and one that clears what a new head      *)
(* makes stale (clearLoop).  A bid is for the child of a head; its rewards *)
(* are numbers.                                                            *)
(***************************************************************************)
EXTENDS Integers, Sequences, FiniteSets

CONSTANTS
    Bids,
    Builder,        \* who sends the bid
    BlockNumber,    \* the block it is for
    BlockReward,    \* expectedBlockReward
    ValidatorReward,\* expectedValidatorReward, negative if it damages the validator
    Valid,          \* the bids whose transactions and rewards are in order
    Clients,        \* the builders that the node has a client for, to report issues
    Greedy,         \* what transactions of the pool may add to a block reward (GreedyMergeTx)
    MaxBidPerBuilderPerBlock,
    ChanSize,       \* capacity of newBidCh
    TriesInMemory,
    FirstHead, LastHead,  \* bound: the numbers of heads
    MaxToggles      \* bound: starts and stops

None == "none"
Blocks == {BlockNumber[b] : b \in Bids}

VARIABLES
    crashed,    \* has a goroutine of the node panicked
    running, receiving,  \* running (the miner) and bidReceiving (the admin API)
    toggles,
    head,       \* the number of the chain's head
    cleared,    \* the number of the last head that clearLoop has seen
    sender,     \* bid -> "idle", "called", "checked", "waits", "done"
    slots,      \* pairs of a block and a builder that have a map in pending
    pending,    \* the bids in pending
    newBidCh,   \* bids with or without a channel for the answer
    loop,       \* newBidLoop: the bid that it commits, or Quiet
    interrupted,\* has the latest simulation been interrupted
    main,       \* mainLoop: where it is, with which bid and with what reward
    simulating, \* block -> the bid in simulatingBid, or None
    env,        \* has the simulated bid its environment
    best        \* block -> the best bid and its packedBlockReward, or NoBid

sendVars == <<sender, slots, pending>>
mainVars == <<main, simulating, env>>
vars == <<crashed, running, receiving, toggles, head, cleared, sendVars, newBidCh, loop, interrupted, mainVars, best>>

\* BidRuntime.isExpectedBetterThan
IsExpectedBetterThan(b, c) ==
    BlockReward[b] >= BlockReward[c] /\ ValidatorReward[b] >= ValidatorReward[c]

Package(b, feedback) == [bid |-> b, feedback |-> feedback]
Quiet == Package(None, FALSE)
NoBid == [bid |-> None, reward |-> 0]
Idle == [at |-> "idle", bid |-> None, reward |-> 0]

Init ==
    /\ crashed = FALSE /\ running = TRUE /\ receiving = TRUE /\ toggles = 0
    /\ head = FirstHead /\ cleared = FirstHead
    /\ sender = [b \in Bids |-> "idle"] /\ slots = {} /\ pending = {}
    /\ newBidCh = <<>> /\ loop = Quiet /\ interrupted = FALSE
    /\ main = Idle /\ simulating = [n \in Blocks |-> None] /\ env = FALSE
    /\ best = [n \in Blocks |-> NoBid]

-------------------------------------------------------------------------------
(* The environment *)

\* start, stop, startReceivingBid, stopReceivingBid
Toggle ==
    /\ toggles < MaxToggles /\ toggles' = toggles + 1
    /\ \/ running' = ~running /\ UNCHANGED receiving
       \/ receiving' = ~receiving /\ UNCHANGED running
    /\ UNCHANGED <<crashed, head, cleared, sendVars, newBidCh, loop, interrupted, mainVars, best>>

NewHead ==
    /\ head < LastHead /\ head' = head + 1
    /\ UNCHANGED <<crashed, running, receiving, toggles, cleared, sendVars, newBidCh, loop, interrupted, mainVars, best>>

-------------------------------------------------------------------------------
(* MevAPI.SendBid and Miner.SendBid *)

\* The bid is for the next block and comes in time.
CallSendBid(b) ==
    /\ sender[b] = "idle" /\ running /\ receiving /\ BlockNumber[b] = head + 1
    /\ sender' = [sender EXCEPT ![b] = "called"]
    /\ UNCHANGED <<crashed, running, receiving, toggles, head, cleared, slots, pending, newBidCh, loop, interrupted, mainVars, best>>

CheckPending(b) ==
    LET n == BlockNumber[b]
        others == {c \in pending : BlockNumber[c] = n /\ Builder[c] = Builder[b]}
    IN  /\ sender[b] = "called"
        /\ slots' = slots \cup {<<n, Builder[b]>>}
        /\ sender' = [sender EXCEPT ![b] =
              IF b \in pending \/ Cardinality(others) >= MaxBidPerBuilderPerBlock THEN "done" ELSE "checked"]
        /\ UNCHANGED <<crashed, running, receiving, toggles, head, cleared, pending, newBidCh, loop, interrupted, mainVars, best>>

\* sendBid puts the bid into the channel, and AddPending notes it; without the
\* map the latter panics, which ends the call.
SendBid(b) ==
    /\ sender[b] = "checked" /\ Len(newBidCh) < ChanSize
    /\ newBidCh' = Append(newBidCh, Package(b, TRUE))
    /\ IF <<BlockNumber[b], Builder[b]>> \in slots
       THEN pending' = pending \cup {b} /\ sender' = [sender EXCEPT ![b] = "waits"]
       ELSE sender' = [sender EXCEPT ![b] = "done"] /\ UNCHANGED pending
    /\ UNCHANGED <<crashed, running, receiving, toggles, head, cleared, slots, loop, interrupted, mainVars, best>>

\* ErrMevBusy
Busy(b) ==
    /\ sender[b] \in {"checked", "waits"} /\ sender' = [sender EXCEPT ![b] = "done"]
    /\ UNCHANGED <<crashed, running, receiving, toggles, head, cleared, slots, pending, newBidCh, loop, interrupted, mainVars, best>>

-------------------------------------------------------------------------------
(* newBidLoop *)

\* The answer goes into a channel with room for it.
Answered(p) == IF p.feedback /\ sender[p.bid] = "waits" THEN [sender EXCEPT ![p.bid] = "done"] ELSE sender

\* Does newBidLoop commit the bid: it compares it with the one in simulation, or
\* else with the best one.
Wins(b) ==
    LET n == BlockNumber[b] IN
    /\ ValidatorReward[b] >= 0
    /\ IF simulating[n] # None THEN IsExpectedBetterThan(b, simulating[n])
       ELSE best[n].bid # None => IsExpectedBetterThan(b, best[n].bid)

TakeBid ==
    /\ loop = Quiet /\ newBidCh # <<>>
    /\ newBidCh' = Tail(newBidCh)
    /\ LET p == Head(newBidCh) IN
       IF running /\ Wins(p.bid)
       THEN /\ loop' = p /\ interrupted' = TRUE
            /\ UNCHANGED sender
       ELSE /\ sender' = IF running THEN Answered(p) ELSE sender
            /\ UNCHANGED <<loop, interrupted>>
    /\ UNCHANGED <<crashed, running, receiving, toggles, head, cleared, slots, pending, mainVars, best>>

\* simBidCh has no buffer: mainLoop takes the request, and drops it if stopped.
Commit ==
    /\ loop # Quiet /\ main.at = "idle"
    /\ loop' = Quiet /\ interrupted' = FALSE
    /\ sender' = Answered(loop)
    /\ main' = IF running THEN [at |-> "taken", bid |-> loop.bid, reward |-> 0] ELSE Idle
    /\ UNCHANGED <<crashed, running, receiving, toggles, head, cleared, slots, pending, newBidCh, simulating, env, best>>

-------------------------------------------------------------------------------
(* mainLoop: simBid *)

Number == BlockNumber[main.bid]
Goto(at) == main' = [main EXCEPT !.at = at]
mainOnly == <<running, receiving, toggles, head, cleared, sendVars, loop, interrupted>>

\* Mutant: SetSimulatingBid comes before the check, whose return leaves the bid there.
StartSimulationNoted ==
    /\ main.at = "taken" /\ env' = FALSE
    /\ main' = IF running /\ receiving THEN [main EXCEPT !.at = "prepare"] ELSE Idle
    /\ simulating' = [simulating EXCEPT ![Number] = main.bid]
    /\ UNCHANGED <<crashed, mainOnly, newBidCh, best>>

\* SetSimulatingBid, unless stopped in between.
StartSimulation ==
    /\ main.at = "taken"
    /\ IF running /\ receiving
       THEN /\ Goto("prepare") /\ env' = FALSE
            /\ simulating' = [simulating EXCEPT ![Number] = main.bid]
       ELSE main' = Idle /\ UNCHANGED <<simulating, env>>
    /\ UNCHANGED <<crashed, mainOnly, newBidCh, best>>

\* prepareWork, which may fail or leave no time, and the first look at the interrupt.
PrepareWork ==
    /\ main.at = "prepare"
    /\ \/ env' = TRUE /\ ~interrupted /\ Goto("execute")
       \/ env' \in BOOLEAN /\ Goto("failed")
    /\ UNCHANGED <<crashed, mainOnly, newBidCh, simulating, best>>

\* The transactions of the bid, which may be interrupted before each of them, but not
\* after the last; the greedy merge may add to what was expected.
ExecuteBid ==
    /\ main.at = "execute" /\ main.bid \in Valid
    /\ \E extra \in 0 .. Greedy :
          main' = [main EXCEPT !.at = "compare", !.reward = BlockReward[main.bid] + extra]
    /\ UNCHANGED <<crashed, mainOnly, newBidCh, simulating, env, best>>

Fail ==
    /\ main.at = "execute" /\ (interrupted \/ main.bid \notin Valid)
    /\ Goto("failed")
    /\ UNCHANGED <<crashed, mainOnly, newBidCh, simulating, env, best>>

\* Mutant: a recommitted bid waits for room in the channel.
RecommitWaiting(b) == Len(newBidCh) < ChanSize /\ newBidCh' = Append(newBidCh, Package(b, FALSE))

\* The bid is the best one so far.
IsBest == best[Number].bid = None \/ main.reward >= best[Number].reward

\* "only recommit self bid when newBidCh is empty"
Recommit(b) == newBidCh' = IF newBidCh = <<>> THEN <<Package(b, FALSE)>> ELSE newBidCh

\* SetBestBid, or the last best bid once more.
Compare ==
    /\ main.at = "compare"
    /\ IF IsBest
       THEN /\ best' = [best EXCEPT ![Number] = [bid |-> main.bid, reward |-> main.reward]]
            /\ Goto("succeeded") /\ UNCHANGED newBidCh
       ELSE Recommit(best[Number].bid) /\ Goto("failed") /\ UNCHANGED best
    /\ UNCHANGED <<crashed, mainOnly, simulating, env>>

\* The deferred function: RemoveSimulatingBid, close(finished), and a bid that won
\* is simulated again.  reportIssue, for a simulation that failed, reads the header of
\* the environment: without one it panics, where there is a client to report to.
Finish ==
    /\ main.at \in {"succeeded", "failed"}
    /\ IF main.at = "succeeded" THEN Recommit(main.bid) ELSE UNCHANGED newBidCh
    /\ simulating' = [simulating EXCEPT ![Number] = None]
    /\ env' = FALSE /\ main' = Idle
    /\ crashed' = (main.at = "failed" /\ ~env /\ Builder[main.bid] \in Clients)
    /\ UNCHANGED <<mainOnly, best>>

-------------------------------------------------------------------------------
(* clearLoop *)

\* BlockNumber <= blockNumber - TriesInMemory, in uint64
Stale(m, n) == n < TriesInMemory \/ m <= n - TriesInMemory

\* The bids of the new head's parent and those that are too old go.  The simulated
\* one is discarded with its environment, and without one this panics.
ClearFn ==
    LET n == cleared + 1
        old == {m \in Blocks : Stale(m, n)}
    IN  /\ cleared < head /\ cleared' = n
        /\ IF running
           THEN /\ slots' = {s \in slots : s[1] # n}
                /\ pending' = {b \in pending : BlockNumber[b] # n}
                /\ best' = [m \in Blocks |-> IF m = n \/ m \in old THEN NoBid ELSE best[m]]
                /\ crashed' = (~env /\ \E m \in old : simulating[m] # None)
                /\ simulating' = [m \in Blocks |-> IF m \in old THEN None ELSE simulating[m]]
           ELSE UNCHANGED <<crashed, slots, pending, best, simulating>>
        /\ UNCHANGED <<running, receiving, toggles, head, sender, newBidCh, loop, interrupted, main, env>>

-------------------------------------------------------------------------------
Simulate == StartSimulation \/ PrepareWork \/ ExecuteBid \/ Fail \/ Compare \/ Finish

Next ==
    /\ ~crashed
    /\ \/ Toggle \/ NewHead \/ ClearFn
       \/ \E b \in Bids : CallSendBid(b) \/ CheckPending(b) \/ SendBid(b) \/ Busy(b)
       \/ TakeBid \/ Commit
       \/ Simulate

\* Both loops go on: prepareWork and the execution of a bid end.
Fairness == WF_vars(~crashed /\ Commit) /\ WF_vars(~crashed /\ Simulate)

Spec == Init /\ [][Next]_vars

-------------------------------------------------------------------------------
(* Properties *)

\* What simulatingBid holds is what mainLoop works on.  newBidLoop refuses every bid
\* that is not better than it, and the sealer waits for it, so an entry that an
\* interrupted, failed or stopped simulation left behind would keep all other bids for
\* the block away.
SimulatedForReal ==
    \A n \in Blocks : simulating[n] # None => main.bid = simulating[n] /\ main.at \notin {"idle", "taken"}

\* newBidLoop, which has to wait until mainLoop takes its bid, comes back for the next
\* one: mainLoop, which puts bids into the channel of newBidLoop, never waits for it.
BidsTaken == loop # Quiet ~> (loop = Quiet \/ crashed)

\* "simulatingBid always better than bestBid": not so when newBidLoop has compared a bid
\* with the best one before mainLoop noted the better one that it had taken.
SimulatingBetter ==
    \A n \in Blocks :
        simulating[n] # None /\ best[n].bid # None /\ simulating[n] # best[n].bid =>
            IsExpectedBetterThan(simulating[n], best[n].bid)

\* maxBidPerBuilderPerBlock: not so when CheckPending lets two bids of a builder pass
\* before AddPending notes the first.
PendingBounded ==
    \A n \in Blocks, a \in {Builder[b] : b \in Bids} :
        Cardinality({b \in pending : BlockNumber[b] = n /\ Builder[b] = a}) <= MaxBidPerBuilderPerBlock

\* The node does not panic: not so when prepareWork fails for a bid of a builder in Clients,
\* and not so below block TriesInMemory, where the bound of what is old wraps around and
\* the bid in simulation is taken for an old one.
NoPanic == ~crashed
===============================================================================
