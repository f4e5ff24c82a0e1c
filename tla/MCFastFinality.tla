---------------------------- MODULE MCFastFinality ----------------------------
(* Two branches that leave the genesis block, of up to three blocks each;   *)
(* the configuration's Hash says which of the blocks ever appear.            *)
EXTENDS FastFinality, TLC

CONSTANTS g, a1, a2, a3, b1, b2, b3, v1, v2, v3, f

MCNumber ==
    [h \in Hash |-> CASE h = g -> 0 [] h \in {a1, b1} -> 1 [] h \in {a2, b2} -> 2 [] OTHER -> 3]
MCParentHash ==
    [h \in Hash |-> CASE h \in {a1, b1} -> g [] h = a2 -> a1 [] h = a3 -> a2
                      [] h = b2 -> b1 [] h = b3 -> b2 [] OTHER -> g]
\* Branch a is sealed out of turn, branch b in turn.
MCDifficulty == [h \in Hash |-> IF h \in {a1, a2, a3} THEN 1 ELSE 2]

\* No block of this tree can attest a vote for the last block of a branch.  Such
\* votes count for FinalityLock only, for which the longer branch is enough.
LeavesUnvoted == \A w \in votes : w.data.target # a3 /\ (w.data.target = b3 => a3 \notin blocks)

\* The last block of branch b is there to see what the branches finalize, whatever
\* the head is.
HeadApart == b3 \in blocks => head = g

Symmetry == Permutations(Validators \ Faulty)
===============================================================================
