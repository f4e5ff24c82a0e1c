-------------------------------- MODULE SystemTxs --------------------------------
(***************************************************************************)
(* The system transactions of a block: FinalizeAndAssemble of the          *)
(* validator that builds it and Finalize of a node that imports it         *)
(* (consensus/parlia/parlia.go).  Both run the same steps; the first signs *)
(* what it needs, the second must find each transaction at the end of the  *)
(* block, with the nonce of its own state.                                 *)
(*                                                                         *)
(* A contract call succeeds or reverts (external); which ones revert is    *)
(* part of the block's state.  Amounts are small numbers.                  *)
(***************************************************************************)
EXTENDS Integers, Sequences, SequencesExt, FiniteSets, FiniteSetsExt, Functions

CONSTANTS
    Validators,
    Fees,            \* possible fees of the ordinary transactions
    Funds,           \* what a validator owns at the beginning
    Dragon8Time, Dragon8FixTime, Pepper8Time, FeynmanTime,
    BreatheInterval, \* a day in the code
    Epoch,
    MintAmount,      \* of Pepper8
    FixedSupply, FixedAmount,  \* of the table of Dragon8Fix
    SystemRewardPercent, MaxSystemBalance,
    Turns,           \* "inturn", or the validator in turn "missed" its block or signed "recent"ly
    MayRevert,       \* contract methods that may revert
    MaxBlocks, MaxTime, Siblings  \* bounds; Siblings: blocks on one parent

VARIABLES
    blocks,    \* sequence of built blocks, 0 is the genesis block
    imported,  \* indices of the blocks the importing node has accepted
    rejected,  \* records of its refusals
    head       \* its canonical head

vars == <<blocks, imported, rejected, head>>

genesis ==
    [number |-> 0, time |-> 1, parent |-> 0, txs |-> <<>>,
     post |-> [nonce |-> [v \in Validators |-> 0], coin |-> [v \in Validators |-> Funds],
               system |-> 0, supply |-> 100,
               paid |-> [c \in {"reward", "validator", "tokenomics", "pepper"} |-> 0],
               calls |-> 0]]

B(i) == IF i = 0 THEN genesis ELSE blocks[i]
RECURSIVE AncestorAt(_, _)
AncestorAt(i, n) == IF B(i).number <= n THEN i ELSE AncestorAt(B(i).parent, n)

-------------------------------------------------------------------------------
(* applyTransaction.  A work record holds the state, the transactions so far,  *)
(* those of the block still to come, and whether an error ended it.            *)

Msg(to, method, value, arg) == [to |-> to, method |-> method, value |-> value, arg |-> arg]

\* The proposer signs the transaction, an importer takes the next one of the
\* block if it is the same one.  The nonce grows before the call, which may
\* revert.
ApplyTransaction(w, h, msg) ==
    LET tx == [nonce |-> w.st.nonce[h.coinbase], msg |-> msg]
        found == w.left # <<>> /\ Head(w.left) = tx
        sent == [w EXCEPT !.st.nonce[h.coinbase] = @ + 1, !.left = IF h.mining THEN @ ELSE Tail(@)]
    IN
    IF ~h.mining /\ ~found THEN [w EXCEPT !.err = TRUE]
    ELSE IF msg.method \in h.reverts \/ w.st.coin[h.coinbase] < msg.value THEN [sent EXCEPT !.err = TRUE]
    ELSE [sent EXCEPT !.txs = Append(@, tx),
                      !.st.coin[h.coinbase] = @ - msg.value,
                      !.st.calls = @ + (IF msg.method = "initialize" THEN 1 ELSE 0),
                      !.st.supply = IF msg.to = "tokenomics" /\ msg.method = "deposit" THEN msg.arg ELSE @,
                      !.st.paid = [c \in DOMAIN @ |-> IF c = msg.to THEN @[c] + msg.value ELSE @[c]]]

\* Messages in a row, the first error ends them.
ApplyAll(w, h, msgs) == FoldLeft(LAMBDA x, m : IF x.err THEN x ELSE ApplyTransaction(x, h, m), w, msgs)

\* An error that is logged and nothing else.
Tolerated(w) == [w EXCEPT !.err = FALSE]

Mint(w, h, amount) == [w EXCEPT !.st.coin[h.coinbase] = @ + amount]

-------------------------------------------------------------------------------
(* The steps *)

IsDragon8(t) == t >= Dragon8Time
IsDragon8Fix(t) == t >= Dragon8FixTime
IsFeynman(t) == t >= FeynmanTime
IsOnFeynman(pt, t) == ~IsFeynman(pt) /\ IsFeynman(t)
IsBreatheBlock(pt, t) == pt # 0 /\ pt \div BreatheInterval # t \div BreatheInterval

\* Mutant: every block after the fork mints.
IsPepper8BlockAfter(t, pt) == t >= Pepper8Time

IsPepper8Block(t, pt) == ~(pt >= Pepper8Time) /\ t >= Pepper8Time

\* What one block adds under Dragon8: a share of the supply at that time.
NewSupply(t, supply) == (supply * (10 - Min({t - Dragon8Time, 8}))) \div 100

initializeFeynmanContract(w, h) ==
    IF IsOnFeynman(h.ptime, h.time)
    THEN Tolerated(ApplyAll(w, h, [i \in 1..5 |-> Msg("feynman", "initialize", 0, i)]))
    ELSE w

initContract(w, h) ==
    IF h.number = 1
    THEN ApplyAll(w, h, [i \in 1..(IF IsDragon8(h.time) THEN 9 ELSE 8) |-> Msg("any", "init", 0, i)])
    ELSE w

slash(w, h) ==
    IF h.turn = "missed" /\ ~w.err
    THEN Tolerated(ApplyAll(w, h, <<Msg("slash", "slash", 0, h.spoiled)>>))
    ELSE w

pepper8(w, h) ==
    IF IsPepper8Block(h.time, h.ptime) /\ ~w.err
    THEN ApplyAll(Mint(w, h, MintAmount), h, <<Msg("pepper", "none", MintAmount, 0)>>)
    ELSE w

\* Mutant: the supply that is asked for is used after Dragon8Fix, too.
dragon8Asked(w, h) ==
    LET amount == NewSupply(h.time, h.lastSupply)
    IN
    IF ~IsDragon8(h.time) \/ w.err THEN w
    ELSE IF h.lastSupply = -1 THEN [w EXCEPT !.err = TRUE]
    ELSE ApplyAll(Mint(w, h, amount), h, <<Msg("tokenomics", "deposit", amount, h.lastSupply + amount)>>)

\* The supply is asked for by number, so that the answer is that of the node's
\* canonical chain; there may be none.
dragon8(w, h) ==
    LET amount == IF IsDragon8Fix(h.time) THEN FixedAmount ELSE NewSupply(h.time, h.lastSupply)
        supply == IF IsDragon8Fix(h.time) THEN FixedSupply ELSE h.lastSupply + amount
    IN
    IF ~IsDragon8(h.time) \/ w.err THEN w
    ELSE IF h.lastSupply = -1 THEN [w EXCEPT !.err = TRUE]
    ELSE ApplyAll(Mint(w, h, amount), h, <<Msg("tokenomics", "deposit", amount, supply)>>)

\* Mutant: the validator contract gets the whole of the fees, the system its part
\* besides.
distributeFeesTwice(w, h) ==
    LET balance == w.st.system
        rewards == IF ~IsDragon8(h.time) /\ w.st.paid["reward"] < MaxSystemBalance
                   THEN balance \div SystemRewardPercent ELSE 0
        taken == Mint([w EXCEPT !.st.system = 0], h, balance)
    IN
    IF balance = 0 \/ w.err THEN w
    ELSE ApplyAll(taken, h, (IF rewards > 0 THEN <<Msg("reward", "none", rewards, 0)>> ELSE <<>>)
                            \o <<Msg("validator", "deposit", balance, h.coinbase)>>)

distributeFees(w, h) ==
    LET balance == w.st.system
        rewards == IF ~IsDragon8(h.time) /\ w.st.paid["reward"] < MaxSystemBalance
                   THEN balance \div SystemRewardPercent ELSE 0
        taken == Mint([w EXCEPT !.st.system = 0], h, balance)
    IN
    IF balance = 0 \/ w.err THEN w
    ELSE ApplyAll(taken, h, (IF rewards > 0 THEN <<Msg("reward", "none", rewards, 0)>> ELSE <<>>)
                            \o <<Msg("validator", "deposit", balance - rewards, h.coinbase)>>)

distributeIncoming(w, h) == distributeFees(dragon8(pepper8(w, h), h), h)

distributeFinalityReward(w, h) ==
    IF h.number % Epoch = 0
    THEN ApplyAll(w, h, <<Msg("validator", "distributeFinalityReward", 0, h.parent)>>)
    ELSE w

updateValidatorSetV2(w, h) ==
    IF IsFeynman(h.time) /\ IsBreatheBlock(h.ptime, h.time) /\ ~IsOnFeynman(h.ptime, h.time)
    THEN ApplyAll(w, h, <<Msg("validator", "updateValidatorSetV2", 0, h.parent)>>)
    ELSE w

\* Mutant: an importer finalizes in another order.
StepsSwapped(w, h) ==
    LET begun == slash(initContract(initializeFeynmanContract(w, h), h), h)
    IN  IF h.mining THEN updateValidatorSetV2(distributeFinalityReward(distributeIncoming(begun, h), h), h)
        ELSE updateValidatorSetV2(distributeIncoming(distributeFinalityReward(begun, h), h), h)

Steps(w, h) ==
    updateValidatorSetV2(distributeFinalityReward(distributeIncoming(
        slash(initContract(initializeFeynmanContract(w, h), h), h), h), h), h)

\* The supply as the canonical chain of head c has it before block number n.
SupplyBefore(c, n) == IF B(c).number < n - 1 THEN -1 ELSE B(AncestorAt(c, n - 1)).post.supply

-------------------------------------------------------------------------------
(* Building and importing *)

\* The ordinary transactions leave their fees with the system address.
AfterTransactions(p, fees) == [B(p).post EXCEPT !.system = @ + fees]

Header(p, t, v, turn, reverts) ==
    [number |-> B(p).number + 1, time |-> t, ptime |-> B(p).time, parent |-> p, coinbase |-> v,
     turn |-> turn, spoiled |-> "s", reverts |-> reverts]

FinalizeAndAssemble(p, t, v, turn, fees, reverts) ==
    LET h == Header(p, t, v, turn, reverts)
        hm == h @@ [mining |-> TRUE, lastSupply |-> SupplyBefore(p, h.number)]
        w == Steps([st |-> AfterTransactions(p, fees), txs |-> <<>>, left |-> <<>>, err |-> FALSE], hm)
    IN
    /\ Len(blocks) < MaxBlocks
    /\ Cardinality({i \in DOMAIN blocks : blocks[i].parent = p}) < Siblings
    /\ ~w.err
    /\ blocks' = Append(blocks, h @@ [fees |-> fees, txs |-> w.txs, post |-> w.st])
    /\ UNCHANGED <<imported, rejected, head>>

\* Import of block i; which of two heads is better is left open.
Finalize(i) ==
    LET b == B(i)
        h == Header(b.parent, b.time, b.coinbase, b.turn, b.reverts)
        hv == h @@ [mining |-> FALSE, lastSupply |-> SupplyBefore(head, b.number)]
        w == Steps([st |-> AfterTransactions(b.parent, b.fees), txs |-> <<>>, left |-> b.txs, err |-> FALSE], hv)
        ok == ~w.err /\ w.left = <<>> /\ w.st = b.post
    IN
    /\ i \notin imported /\ b.parent \in imported \cup {0}
    /\ IF ok
       THEN imported' = imported \cup {i} /\ head' \in {head, i} /\ UNCHANGED rejected
       ELSE rejected' = rejected \cup {[block |-> i, head |-> head]} /\ UNCHANGED <<imported, head>>
    /\ UNCHANGED blocks

Init == blocks = <<>> /\ imported = {} /\ rejected = {} /\ head = 0

Next ==
    \/ \E p \in {0} \cup DOMAIN blocks, v \in Validators, turn \in Turns,
          fees \in Fees, reverts \in SUBSET MayRevert :
        \E t \in (B(p).time + 1)..MaxTime : FinalizeAndAssemble(p, t, v, turn, fees, reverts)
    \/ \E i \in DOMAIN blocks : Finalize(i)

Spec == Init /\ [][Next]_vars

-------------------------------------------------------------------------------
(* Properties *)

\* What an honest validator builds, an importing node accepts: with the same
\* transactions in the same order, the same nonces and the same state.  Until
\* Dragon8Fix the importer's canonical chain must hold the parent, after it a
\* block of the parent's number, since the supply is asked for by number.
BuiltIsImported ==
    \A r \in rejected :
        LET b == B(r.block)
        IN  /\ IsDragon8(b.time)
            /\ IF IsDragon8Fix(b.time) THEN B(r.head).number < b.number - 1
               ELSE AncestorAt(r.head, b.number - 1) # b.parent

\* The system transactions pass on exactly what the block brought in: no
\* validator loses or keeps any of it, and nothing stays with the system address.
PassedOn ==
    \A i \in DOMAIN blocks :
        blocks[i].post.coin = genesis.post.coin /\ blocks[i].post.system = 0

\* One block of each chain, the first after the fork, mints the Pepper8 amount,
\* and one initializes the contracts of Feynman.
ForkStepsOnce ==
    \A i \in DOMAIN blocks :
        /\ blocks[i].post.paid["pepper"] = (IF blocks[i].time >= Pepper8Time THEN MintAmount ELSE 0)
        /\ blocks[i].post.calls = (IF blocks[i].time >= FeynmanTime THEN 5 ELSE 0)

\* "Allow liveness slash fail": a call of slash that reverts costs no block.
SlashMayFail == rejected = {}
===============================================================================
