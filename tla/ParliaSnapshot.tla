---------------------------- MODULE ParliaSnapshot ----------------------------
(***************************************************************************)
(* The authorization snapshot of the Parlia engine along one branch: who   *)
(* may seal the next block, which recent blocks count against a validator, *)
(* and how an epoch block's validator set comes into force.                *)
(*                                                                         *)
(* The three generations of the rules are one model.  By the "legacy" ones *)
(* a validator may seal one block in any window of n/2 + 1 blocks.  With   *)
(* "snake8", from the genesis on or from a fork on, it may seal TurnLength *)
(* blocks in a window of (n/2 + 1) * TurnLength, with the constant turn    *)
(* length 50.  With "bohr" the turn length is announced by epoch blocks    *)
(* and a switch of the validator set clears the history.  No network of    *)
(* this chain has both.                                                    *)
(***************************************************************************)
EXTENDS Integers, FiniteSets, ParliaConfig

VARIABLES
    rules,       \* the generation in force: that of the next block
    number,      \* Snapshot.Number
    validators,  \* Snapshot.Validators
    turnLength,  \* Snapshot.TurnLength
    recents,     \* Snapshot.Recents: block number -> signer
    epochKey,    \* the epoch whose epochKey is in Recents, or NoEpoch
    checkpoint,  \* what the latest epoch block of the branch announces
    lastSwitch,  \* history: the block of the last change of the set or the rules
    signers,     \* history: who signed the last CheckLen + 1 blocks since then
    inturnOnly   \* history: all blocks since then were sealed in turn

vars == <<rules, number, validators, turnLength, recents, epochKey, checkpoint,
          lastSwitch, signers, inturnOnly>>

Bohr == rules = "bohr"
Snake8 == rules = "snake8"

NoEpoch == MaxNumber + 1

\* The empty map.
NoBlocks == [k \in {} |-> 0]

-------------------------------------------------------------------------------
(* Who may seal *)

CheckLen == MinerHistoryCheckLen(Cardinality(validators), turnLength)

\* Mutant: the bound itself is counted.
LeftHistoryBoundInclusive(n) == IF n > CheckLen THEN n - CheckLen - 1 ELSE 0

\* The last block before the window that ends in block n.
LeftHistoryBound(n) == IF n > CheckLen THEN n - CheckLen ELSE 0

\* Snapshot.countRecents on a snapshot with Number n and Recents r: the blocks
\* of v in the window.
CountRecents(n, r, v) ==
    Cardinality({k \in DOMAIN r : k > LeftHistoryBound(n) /\ r[k] = v})

\* Snapshot.SignRecently
SignRecently(n, r, v) == CountRecents(n, r, v) >= turnLength

\* selectValidatorRoundRobin: the validator at the offset in the ascending order.
InturnAt(n) ==
    LET offset == (n \div turnLength) % Cardinality(validators) IN
    CHOOSE v \in validators : Cardinality({w \in validators : w < v}) = offset

\* Snapshot.inturnValidator
InturnValidator == InturnAt(number + 1)

\* verifySeal, as far as it depends on the snapshot before the block.
VerifySeal(v) == v \in validators /\ ~SignRecently(number, recents, v)

-------------------------------------------------------------------------------
(* Snapshot.apply for the next header *)

Without(r, keys) == [k \in DOMAIN r \ keys |-> r[k]]

\* Mutant: the limit does not know of turns.
KeptOneTurn == LET next == number + 1
                   limit == Cardinality(validators) \div 2 + 1
               IN IF next >= limit THEN Without(recents, {next - limit}) ELSE recents

\* "Delete the oldest validator from the recent list".
Kept == LET next == number + 1
            limit == CheckLen + 1
        IN IF next >= limit THEN Without(recents, {next - limit}) ELSE recents

\* apply accepts the signer of the next header.  A batch of headers is applied
\* to a copy of the snapshot at base, and the copy's Number stays at base until
\* the batch is through.
ApplyAccepts(base, v) ==
    IF Bohr THEN ~SignRecently(base, Kept, v)
    ELSE Snake8 \/ \A k \in DOMAIN Kept : Kept[k] # v

\* Mutant: filed under the parent's number.
ExtendedAtParent(v) ==
    [k \in DOMAIN Kept \cup {number} |-> IF k = number THEN v ELSE Kept[k]]

\* recents[next] = v after the deletion.
Extended(v) ==
    [k \in DOMAIN Kept \cup {number + 1} |-> IF k = number + 1 THEN v ELSE Kept[k]]

\* Mutant: the second switch in an epoch is not skipped.
SwitchesAgain == (number + 1) % Epoch = CheckLen

\* Mutant: the mark of any epoch skips the switch.
SwitchesOnce == (number + 1) % Epoch = CheckLen /\ (Bohr => epochKey = NoEpoch)

\* The next block is where the set announced by c comes into force: CheckLen
\* blocks after the epoch block, but with Bohr only once per epoch.
Switches ==
    /\ (number + 1) % Epoch = CheckLen
    /\ Bohr => epochKey # (number + 1) \div Epoch

\* The entries that a smaller set makes obsolete, for a set of n validators.
Shrunk(n) ==
    LET next == number + 1
        oldLimit == Cardinality(validators) \div 2 + 1
        newLimit == n \div 2 + 1
    IN {next - newLimit - i : i \in 0 .. (oldLimit - newLimit - 1)}

\* Mutant: the history is not cleared.
SwitchSetKeepsRecents(v, c) ==
    /\ validators' = c.validators
    /\ turnLength' = IF Bohr THEN c.turnLength ELSE turnLength
    /\ recents' = Extended(v)
    /\ epochKey' = (number + 1) \div Epoch

\* The validator-set switch with the announcement c, after v's block was added.
SwitchSet(v, c) ==
    /\ validators' = c.validators
    /\ turnLength' = IF Bohr THEN c.turnLength ELSE turnLength
    /\ IF Bohr
       THEN recents' = NoBlocks /\ epochKey' = (number + 1) \div Epoch
       ELSE /\ recents' = Without(Extended(v), Shrunk(Cardinality(c.validators)))
            /\ UNCHANGED epochKey

\* The header v signs extends the branch; c is the latest announcement then.
Apply(v, c) ==
    /\ number' = number + 1
    /\ checkpoint' = c
    /\ IF Switches
       THEN SwitchSet(v, c)
       ELSE recents' = Extended(v) /\ UNCHANGED <<validators, turnLength, epochKey>>

\* The block after the head and the CheckLen blocks before it.
Window == number + 1 - CheckLen .. number + 1

\* The history starts anew with a changed set and with a cleared recents.
Record(v, c) ==
    IF Switches /\ (Bohr \/ c.validators # validators)
    THEN lastSwitch' = number + 1 /\ signers' = NoBlocks /\ inturnOnly' = TRUE
    ELSE /\ lastSwitch' = lastSwitch
         /\ signers' = [k \in Window \cap (DOMAIN signers \cup {number + 1}) |->
                           IF k = number + 1 THEN v ELSE signers[k]]
         /\ inturnOnly' = (inturnOnly /\ v = InturnValidator)

-------------------------------------------------------------------------------
Announcement == [validators : ValidatorSets, turnLength : AllTurnLengths]

\* What an epoch block may announce.  Only with Bohr it has a turn length
\* (parseTurnLength); without, the field is not used.
Announced ==
    {c \in Announcement : c.turnLength \in (IF Bohr THEN TurnLengths ELSE {DefaultTurnLength})}

\* newSnapshot from the genesis header.
Init ==
    /\ rules \in GenesisRules
    /\ checkpoint \in Announced
    /\ number = 0
    /\ validators = checkpoint.validators
    /\ turnLength = IF Snake8 THEN Snake8TurnLength
                    ELSE IF Bohr THEN checkpoint.turnLength ELSE DefaultTurnLength
    /\ recents = NoBlocks
    /\ epochKey = NoEpoch
    /\ lastSwitch = 0
    /\ signers = NoBlocks
    /\ inturnOnly = TRUE

\* What the header after the head announces: an epoch block, anything the
\* contract elected (verifyValidators, verifyTurnLength); another block, nothing.
NextAnnouncements ==
    IF (number + 1) % Epoch = 0 THEN Announced ELSE {checkpoint}

\* v seals the next block.
Seal(v, c) ==
    /\ number < MaxNumber
    /\ VerifySeal(v)
    /\ ApplyAccepts(number, v)
    /\ Apply(v, c)
    /\ Record(v, c)
    /\ UNCHANGED rules

\* The head is the first block with a time at or after snake8Time: snapshot(),
\* asked for its children, sets the turn length of the head's snapshot.  The
\* history starts anew, since what the longer window has lost counts no more.
Snake8Fork ==
    /\ rules = "legacy"
    /\ rules' = "snake8"
    /\ turnLength' = Snake8TurnLength
    /\ lastSwitch' = number /\ signers' = NoBlocks /\ inturnOnly' = TRUE
    /\ UNCHANGED <<number, validators, recents, epochKey, checkpoint>>

Next ==
    \/ \E v \in validators, c \in NextAnnouncements : Seal(v, c)
    \/ Snake8Fork

Spec == Init /\ [][Next]_vars

-------------------------------------------------------------------------------
(* Properties *)

\* The type invariant; recents and signers name blocks of the branch only.
TypeOK ==
    /\ rules \in AllRules
    /\ number \in 0 .. MaxNumber
    /\ validators \in ValidatorSets
    /\ turnLength \in AllTurnLengths
    /\ DOMAIN recents \subseteq 1 .. number
    /\ \A k \in DOMAIN recents : recents[k] \in Nat
    /\ epochKey \in 0 .. NoEpoch
    /\ checkpoint \in Announcement
    /\ lastSwitch \in 0 .. number
    /\ DOMAIN signers \subseteq lastSwitch + 1 .. number
    /\ \A k \in DOMAIN signers : signers[k] \in validators
    /\ inturnOnly \in BOOLEAN

\* A block that verifySeal accepts can be applied, alone or in a batch that
\* starts anywhere before it: otherwise every child of it would fail with
\* errRecentlySigned and the branch would end there, perhaps only for the nodes
\* that sync it in batches.
SealedBlocksApply ==
    \A v \in validators :
        VerifySeal(v) => \A base \in 0 .. number : ApplyAccepts(base, v)

\* Whatever sets were elected and whoever signed, some validator may seal the
\* next block.
SomeoneMaySeal == \E v \in validators : VerifySeal(v)

\* What the rule is for: among the last CheckLen + 1 blocks that the validator
\* set in force sealed, no validator has more than turnLength.  recents is
\* pruned on the way and must not lose the blocks that matter.
TurnsRespected ==
    \A v \in validators :
        Cardinality({k \in DOMAIN signers : signers[k] = v}) <= turnLength

\* Turns and the recents rule agree: as long as everybody seals in turn, the
\* validator in turn is never held off.  Without Bohr the blocks of the old set
\* still count, so this takes until they have left the window.  With Snake8 turns
\* are drawn among those who may seal (Frequency).
InturnMaySeal ==
    ~Snake8 /\ inturnOnly /\ (Bohr \/ number >= lastSwitch + CheckLen) => VerifySeal(InturnValidator)

\* snapshot(): "An offset `p.config.Epoch - 1` can ensure getting the right
\* validators": before an epoch block, what the previous one announced is in
\* force, so a snapshot built from that header alone has the right set.
CheckpointInForce ==
    (number + 1) % Epoch = 0 =>
        /\ validators = checkpoint.validators
        /\ Bohr => turnLength = checkpoint.turnLength

\* apply skips "the unexpected second switch": with Bohr, the history is cleared
\* at most once in an epoch.
OneSwitchPerEpoch ==
    [][Bohr /\ lastSwitch > 0 /\ lastSwitch' # lastSwitch
         => lastSwitch' \div Epoch # lastSwitch \div Epoch]_vars

-------------------------------------------------------------------------------
(* The inductive invariant behind them *)

\* The turn length is the one of the active forks.
TurnLengthInv ==
    /\ Snake8 => turnLength = Snake8TurnLength
    /\ ~Snake8 /\ ~Bohr => turnLength = DefaultTurnLength

\* apply compares with every entry of recents (before Bohr), or with those after
\* the start of the batch's window (Bohr), so none may be older than the window,
\* not even after the window has shrunk.
RecentsInv ==
    ~Snake8 => \A k \in DOMAIN recents : k >= number - CheckLen

\* The announced set is in force, or its switch is still to come in this epoch.
SwitchInv ==
    /\ epochKey = NoEpoch \/ epochKey <= number \div Epoch
    /\ \/ /\ validators = checkpoint.validators
          /\ Bohr => turnLength = checkpoint.turnLength
       \/ number % Epoch < CheckLen /\ (Bohr => epochKey # number \div Epoch)

\* recents still has the blocks of the set in force that count for the next one.
HistoryInv ==
    \A k \in DOMAIN signers :
        k > LeftHistoryBound(number) => k \in DOMAIN recents /\ recents[k] = signers[k]

\* With Bohr the mark in recents is that of the epoch of the last switch.
EpochKeyInv == Bohr /\ lastSwitch > 0 => epochKey = lastSwitch \div Epoch

\* As long as everybody seals in turn, recents has the turns of the set in force,
\* and with Bohr nothing else.
InturnInv ==
    /\ Bohr => \A k \in DOMAIN recents : k > lastSwitch
    /\ ~Snake8 /\ inturnOnly =>
          \A k \in DOMAIN recents : k > lastSwitch => recents[k] = InturnAt(k)

Inv == TypeOK /\ TurnLengthInv /\ RecentsInv /\ SwitchInv
===============================================================================
