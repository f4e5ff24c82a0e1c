----------------------------- MODULE MCBlock ------------------------------------
(***************************************************************************)
(* What goes into building, checking and executing a block, each part by   *)
(* itself: the frequency data that calcFrequencyRLP computes, for four     *)
(* validators with stakes below, at and above one token; how the calls on  *)
(* a cached snapshot pass it on, for three validators, each in turn by one *)
(* of its values; the system transactions of three blocks across the forks,*)
(* a chain of one validator or branches of two; and the StateDB, on an     *)
(* account that is absent, funded or a contract: its                       *)
(* changes with a snapshot ("journal"), what belongs to a transaction with *)
(* nested snapshots ("tx"), several transactions, roots and copies before  *)
(* the commit ("block"), and the same before Hertzfix, with a prefetcher   *)
(* that shares what it reads ("shared").                                   *)
(***************************************************************************)
EXTENDS SnapshotCache

CONSTANTS
    va, vb, vc, f1, f2,
    Parts,   \* what to explore: "frequency", "cache", "system", "branches",
             \* "journal", "tx", "block", "shared"
    Reverts  \* the contract methods that may revert

VARIABLES part, stakes, recent, pc, freq, iteration, blocks, imported, rejected, head,
          s, disk, snap, pool, finalised

frequencyVars == <<stakes, recent, pc, freq, iteration>>
systemVars == <<blocks, imported, rejected, head>>
stateVars == <<s, disk, snap, pool, finalised>>

F == INSTANCE Frequency WITH
        Validators <- 1 .. 4, Stakes <- {1, 2, 5, 12}, Decimals <- 2,
        Precision <- 80, MinFrequencyFactor <- 2, MaxIterations <- 10

S == INSTANCE SystemTxs WITH
        Validators <- {"v"}, Fees <- {0, 11}, Turns <- {"inturn", "missed", "recent"},
        Funds <- 7, Dragon8Time <- 3, Dragon8FixTime <- 5, Pepper8Time <- 4, FeynmanTime <- 4,
        BreatheInterval <- 2, Epoch <- 2, MintAmount <- 5, FixedSupply <- 200, FixedAmount <- 6,
        SystemRewardPercent <- 5, MaxSystemBalance <- 3, MaxTime <- 5,
        MayRevert <- Reverts, MaxBlocks <- 3, Siblings <- 1

Br == INSTANCE SystemTxs WITH
        Validators <- {"v", "w"}, Fees <- {11}, Turns <- {"inturn"},
        Funds <- 7, Dragon8Time <- 3, Dragon8FixTime <- 5, Pepper8Time <- 4, FeynmanTime <- 4,
        BreatheInterval <- 2, Epoch <- 2, MintAmount <- 5, FixedSupply <- 200, FixedAmount <- 6,
        SystemRewardPercent <- 5, MaxSystemBalance <- 3, MaxTime <- 5,
        MayRevert <- {}, MaxBlocks <- 3, Siblings <- 2

StateParts == {"journal", "tx", "block", "shared"}

Nobody == [a \in {"a"} |-> {}]

MCDisks ==
    {Nobody,
     [a \in {"a"} |-> {[nonce |-> 0, bal |-> 1, code |-> 0, slot |-> 0]}],
     [a \in {"a"} |-> {[nonce |-> 1, bal |-> 0, code |-> 1, slot |-> 1]}]}

J == INSTANCE StateDB WITH
        Addrs <- {"a"}, Values <- {0, 1}, Disks <- MCDisks, Hertzfix <- TRUE,
        Parts <- {"account"}, MaxJournal <- 2, MaxRevisions <- 1, MaxFinalise <- 1
T == INSTANCE StateDB WITH
        Addrs <- {"a"}, Values <- {0, 1}, Disks <- MCDisks, Hertzfix <- TRUE,
        Parts <- {"tx"}, MaxJournal <- 3, MaxRevisions <- 2, MaxFinalise <- 1
B == INSTANCE StateDB WITH
        Addrs <- {"a"}, Values <- {0, 1}, Disks <- MCDisks, Hertzfix <- TRUE,
        Parts <- {"account"}, MaxJournal <- 2, MaxRevisions <- 0, MaxFinalise <- 2
H == INSTANCE StateDB WITH
        Addrs <- {"a"}, Values <- {0, 1}, Disks <- MCDisks, Hertzfix <- FALSE,
        Parts <- {"account"}, MaxJournal <- 2, MaxRevisions <- 0, MaxFinalise <- 2

MCValidators == {va, vb, vc}

MCFreqData == {f1, f2}

MCParsed == Data
MCParsedOrNot == Data \cup {Absent}

MCInTurn == [d \in MCFreqData \cup {NoData} |-> CASE d = f1 -> va [] d = f2 -> vb [] OTHER -> vc]

MCInit ==
    /\ part \in Parts
    /\ Init /\ F!Init /\ S!Init /\ J!Init
    /\ part # "frequency" => recent = {} /\ stakes = [v \in 1 .. 4 |-> 1]
    /\ part \notin StateParts \ {"tx"} => disk = Nobody

MCNext ==
    /\ \/ part = "cache" /\ Next /\ UNCHANGED <<frequencyVars, systemVars, stateVars>>
       \/ part = "frequency" /\ F!Next /\ UNCHANGED <<vars, systemVars, stateVars>>
       \/ /\ \/ part = "system" /\ S!Next
             \/ part = "branches" /\ Br!Next
          /\ UNCHANGED <<vars, frequencyVars, stateVars>>
       \/ /\ \/ part = "journal" /\ finalised <= 1 /\ J!Next
             \/ part = "tx" /\ finalised <= 1 /\ T!Next
             \/ part = "block" /\ finalised <= 2 /\ B!Next
             \/ part = "shared" /\ finalised <= 2 /\ H!Next
          /\ UNCHANGED <<vars, frequencyVars, systemVars>>
    /\ UNCHANGED part

MCSpec == MCInit /\ [][MCNext]_<<part, vars, frequencyVars, systemVars, stateVars>>

\* The frequencies of calcFrequencyRLP: the floor holds in the shares of the
\* selection, its rounds lose less than a unit per candidate, and more stake is
\* never a smaller frequency.
FrequenciesFair == part = "frequency" => F!MinimumShare /\ F!OnlyRoundingLost /\ F!StakeOrderKept

\* What an honest validator builds, an importing node accepts.
BuiltIsImported ==
    /\ part = "branches" => Br!BuiltIsImported
    /\ part = "system" => S!BuiltIsImported

\* The system transactions pass on exactly what the block brought in.
PassedOn == part = "system" => S!PassedOn

\* One block of each chain takes the steps of a fork.
ForkStepsOnce == part = "system" => S!ForkStepsOnce

\* "Allow liveness slash fail": a call of slash that reverts costs no block.
SlashMayFail == S!SlashMayFail

\* Before Hertzfix the world is not what WorldState says (README): nothing is
\* claimed of it there, and the other parts leave it alone.
After(x, y) == IF part \in StateParts \ {"shared"} THEN y ELSE x

World == INSTANCE WorldState WITH
            Addrs <- {"a"}, Values <- {0, 1},
            accts <- After(Nobody, J!Accts(s)), touched <- After({}, J!Touched(s)),
            tx <- After(J!Tx(J!New(Nobody)), J!Tx(s)), saved <- After(<<>>, J!Saved(s)),
            disk <- After(Nobody, disk)

\* The StateDB implements the plain map of accounts with snapshots.
WorldSpec == World!Spec

\* The snapshot tree and the trie describe the same state, and every account that
\* is pending or dirty has an object.
SnapshotAgrees == part \in StateParts => J!SnapshotAgrees /\ J!PendingHaveObjects

\* The state history leads back to the state before the block.
HistoryReverts == B!HistoryReverts /\ H!HistoryReverts
===============================================================================
