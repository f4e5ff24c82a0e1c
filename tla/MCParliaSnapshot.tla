--------------------------- MODULE MCParliaSnapshot ---------------------------
(***************************************************************************)
(* The snapshot of one branch and how it is found again, each by itself.   *)
(* "branch": sets of two and four validators that share one, so that a     *)
(* switch shrinks and grows the window, over more than two epochs,         *)
(* from a genesis block with each generation of the rules.  "replay": sets *)
(* of one and two over two and a half epochs, in which a node is restarted *)
(* and loses its snapshots; Snake8 from the genesis block, from block 5, *)
(* and not at all.                                                         *)
(***************************************************************************)
EXTENDS ParliaSnapshot

CONSTANT Parts  \* what to explore: "branch", "replay"

VARIABLES part, fork, headers, live, cache, disk, crossed

replayVars == <<fork, headers, live, cache, disk, crossed>>

MCValidatorSets == {{1, 2}, {2, 3, 4, 5}}

R == INSTANCE SnapshotReplay WITH
        ValidatorSets <- {{1}, {1, 2}, {2, 3}}, Epoch <- 4, Forks <- {0, 5, 99},
        CheckpointInterval <- 3, Threshold <- 4, MaxNumber <- 10, branch <- headers

MCInit ==
    /\ part \in Parts
    /\ Init /\ R!Init
    /\ part # "branch" => rules = "legacy" /\ validators = {1, 2}
    /\ part # "replay" => fork = 0 /\ live.validators = {1}

MCNext ==
    /\ \/ part = "branch" /\ Next /\ UNCHANGED replayVars
       \/ part = "replay" /\ R!Next /\ UNCHANGED vars
    /\ UNCHANGED part

MCSpec == MCInit /\ [][MCNext]_<<part, vars, replayVars>>

\* "snapshot retrieves the authorization snapshot at a given point in time": it
\* has the validators and the turns of the network.
RetrievedRight == R!RetrievedRight

\* It has, where the headers are applied with the turn length they were sealed with.
RetrievedWithinEra == part = "replay" => R!RetrievedWithinEra
===============================================================================
