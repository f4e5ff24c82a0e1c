----------------------------- MODULE ParliaConfig -----------------------------
(* What the chain's configuration and its staking contract say, for          *)
(* ParliaSnapshot.                                                            *)
EXTENDS Integers, FiniteSets

CONSTANTS
    ValidatorSets,     \* the sets of addresses the staking contract may elect
    TurnLengths,       \* the turn lengths the contract may announce
    Epoch,             \* blocks per epoch
    GenesisRules,      \* the rules a chain may start with, of AllRules
    Snake8TurnLength,  \* 50 in the code
    MaxNumber          \* bound: the last block of the branch

\* parlia.go defaultTurnLength
DefaultTurnLength == 1

\* Snapshot.minerHistoryCheckLen
MinerHistoryCheckLen(n, t) == (n \div 2 + 1) * t - 1

AllTurnLengths == TurnLengths \cup {DefaultTurnLength, Snake8TurnLength}

\* The generations of the rules that the forks of a configuration select.
AllRules == {"legacy", "snake8", "bohr"}

\* Addresses are numbers: validators() sorts them.
ASSUME ParliaAssumption ==
    /\ GenesisRules \subseteq AllRules
    /\ MaxNumber \in Nat
    /\ Epoch \in Nat \ {0}
    /\ AllTurnLengths \subseteq Nat \ {0}
    /\ \A V \in ValidatorSets : V \subseteq Nat /\ V # {} /\ IsFiniteSet(V)

\* A set is in force before the next epoch block announces another one.
ASSUME EpochAssumption ==
    \A V \in ValidatorSets, t \in AllTurnLengths :
        MinerHistoryCheckLen(Cardinality(V), t) < Epoch
===============================================================================
