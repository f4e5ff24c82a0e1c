------------------------------- MODULE ChainStore -------------------------------
(***************************************************************************)
(* How core/blockchain.go writes the chain: blocks, canonical markers,     *)
(* head markers and the transaction index go to the database in batches    *)
(* one after the other, states stay in memory until a trie is flushed      *)
(* (hash scheme), and the node may crash between any two batches.  A start *)
(* loads the markers and rewinds a head that has no state.                 *)
(*                                                                         *)
(* The chain mutex is held from Import, SetHead or Stop until the last of  *)
(* their batches.  What is still to be written is the sequence job.        *)
(***************************************************************************)
EXTENDS Integers, Sequences, SequencesExt, FiniteSets, FiniteSetsExt, Functions

CONSTANTS
    Blocks, Genesis,
    Parent,         \* the parent of every block but Genesis
    Number,
    Weight,         \* what ReorgNeededWithFastFinality compares
    TxsOf,          \* the transactions of a block
    TriesInMemory,  \* 128 in the code
    MaxCrashes,     \* bound: how often the node crashes
    MaxSetHeads     \* bound: how often the chain is rewound on request

VARIABLES
    \* in the database
    blocks,      \* header, body, receipts and total difficulty
    diskStates,  \* the blocks whose state is in the database
    canon,       \* number -> hash
    headBlock, headHeader,
    lookup,      \* transaction -> number
    \* in memory
    alive,
    memStates,   \* the blocks whose state is referenced in the trie database
    current,     \* currentBlock
    header,      \* currentHeader
    job,         \* the batches to be written
    crashes, setHeads

disk == <<blocks, diskStates, canon, headBlock, headHeader, lookup>>
memory == <<memStates, current, header>>
vars == <<disk, alive, memory, job, crashes, setHeads>>

\* The ancestors of b, b first.
AncestorSeq[b \in Blocks] == IF b = Genesis THEN <<b>> ELSE <<b>> \o AncestorSeq[Parent[b]]
Ancestors(b) == Range(AncestorSeq[b])
Txs(bs) == UNION {TxsOf[b] : b \in bs}
CanonicalAt(n) == {canon[i] : i \in DOMAIN canon \cap {n}}
HasState(b) == b \in diskStates \cup memStates

\* The highest ancestor of b with a state in s: rewindHashHead.
RewindTo(b, s) ==
    LET found == {a \in Ancestors(b) : a \in s \cup {Genesis}}
    IN CHOOSE a \in found : \A c \in found : Number[c] <= Number[a]

\* ReorgNeededWithFastFinality: a coin decides between equals.
MayWin(b) == b # current /\ Weight[b] >= Weight[current]
MayLose(b) == Weight[b] <= Weight[current]

-------------------------------------------------------------------------------
(* What is to be written *)

HeadOp(b) == [op |-> "head", block |-> b, parts |-> {"canon", "lookup"}]
InsertOp(b) == [op |-> "insert", block |-> b]

\* Mutant: the new chain is made canonical from its head downwards.
ReorgOpsDown(b) ==
    LET old == Ancestors(current) \ Ancestors(b)
        new == SelectSeq(Tail(AncestorSeq[b]), LAMBDA a : a \notin Ancestors(current))
    IN [i \in 1 .. Len(new) |-> HeadOp(new[i])]
       \o <<[op |-> "unindex", txs |-> Txs(old) \ Txs(Range(new))],
            [op |-> "uncanon", from |-> Number[b]]>>

\* Mutant: the markers go from the common ancestor upwards.
ReorgOpsFromCommon(b) ==
    LET old == Ancestors(current) \ Ancestors(b)
        new == SelectSeq(Reverse(Tail(AncestorSeq[b])), LAMBDA a : a \notin Ancestors(current))
    IN [i \in 1 .. Len(new) |-> HeadOp(new[i])]
       \o <<[op |-> "unindex", txs |-> Txs(old) \ Txs(Range(new))],
            [op |-> "uncanon", from |-> Number[RewindTo(b, Ancestors(current))] + 1]>>

\* Mutant: the transactions of the old chain that the new one repeats go too.
ReorgOpsUnindexAll(b) ==
    LET old == Ancestors(current) \ Ancestors(b)
        new == SelectSeq(Reverse(Tail(AncestorSeq[b])), LAMBDA a : a \notin Ancestors(current))
    IN [i \in 1 .. Len(new) |-> HeadOp(new[i])]
       \o <<[op |-> "unindex", txs |-> Txs(old)], [op |-> "uncanon", from |-> Number[b]]>>

\* Mutant: the markers of a longer old chain stay.
ReorgOpsKeepCanon(b) ==
    LET old == Ancestors(current) \ Ancestors(b)
        new == SelectSeq(Reverse(Tail(AncestorSeq[b])), LAMBDA a : a \notin Ancestors(current))
    IN [i \in 1 .. Len(new) |-> HeadOp(new[i])]
       \o <<[op |-> "unindex", txs |-> Txs(old) \ Txs(Range(new))]>>

\* reorg: the new chain but its head, the lowest block first; then the index of
\* the dropped transactions; then the markers from the number of b upwards.
ReorgOps(b) ==
    LET old == Ancestors(current) \ Ancestors(b)
        new == SelectSeq(Reverse(Tail(AncestorSeq[b])), LAMBDA a : a \notin Ancestors(current))
    IN [i \in 1 .. Len(new) |-> HeadOp(new[i])]
       \o <<[op |-> "unindex", txs |-> Txs(old) \ Txs(Range(new))],
            [op |-> "uncanon", from |-> Number[b]]>>

\* writeBlockAndSetHead and writeKnownBlock, after the block is written.
CanonOps(b) == (IF Parent[b] = current THEN <<>> ELSE ReorgOps(b)) \o <<HeadOp(b)>>

-------------------------------------------------------------------------------
(* Imports *)

\* A known block with its state that wins: writeKnownBlock.
ImportKnown(b) ==
    /\ alive /\ job = <<>> /\ b # Genesis
    /\ b \in blocks /\ HasState(b)
    /\ MayWin(b)
    /\ Number[b] <= Number[current] => CanonicalAt(Number[b]) # {b}
    /\ job' = CanonOps(b)
    /\ UNCHANGED <<disk, alive, memory, crashes, setHeads>>

\* A block whose parent has its state.
Import(b) ==
    /\ alive /\ job = <<>> /\ b # Genesis
    /\ ~(b \in blocks /\ HasState(b))
    /\ Parent[b] \in blocks /\ HasState(Parent[b])
    /\ job' = <<InsertOp(b)>>
    /\ UNCHANGED <<disk, alive, memory, crashes, setHeads>>

\* insertSideChain: the parent's state is pruned.  The block is written without a
\* state, and if it wins all the blocks without one are imported again.
ImportSide(b) ==
    LET again == SelectSeq(Reverse(AncestorSeq[b]),
                           LAMBDA a : Number[a] > Number[RewindTo(b, diskStates \cup memStates)])
    IN
    /\ alive /\ job = <<>> /\ b # Genesis
    /\ ~(b \in blocks /\ HasState(b))
    /\ Parent[b] \in blocks /\ ~HasState(Parent[b])
    /\ blocks' = blocks \cup {b}
    /\ \/ MayLose(b) /\ UNCHANGED job
       \/ MayWin(b) /\ job' = [i \in 1 .. Len(again) |-> InsertOp(again[i])]
    /\ UNCHANGED <<diskStates, canon, headBlock, headHeader, lookup, alive, memory, crashes, setHeads>>

\* writeBlockWithState: the block's batch, the state in memory, perhaps the trie of
\* the canonical block TriesInMemory below, and the end of the older ones.
Insert ==
    LET b == Head(job).block
        chosen == Number[b] - TriesInMemory
    IN
    /\ alive /\ job # <<>> /\ Head(job).op = "insert"
    /\ blocks' = blocks \cup {b}
    /\ memStates' = {s \in memStates \cup {b} : Number[b] <= TriesInMemory \/ Number[s] > chosen}
    /\ diskStates' \in {diskStates} \cup
         (IF Number[b] > TriesInMemory /\ chosen \in DOMAIN canon /\ canon[chosen] \in memStates
          THEN {diskStates \cup {canon[chosen]}} ELSE {})
    /\ \/ MayLose(b) /\ job' = Tail(job)
       \/ MayWin(b) /\ job' = CanonOps(b) \o Tail(job)
    /\ UNCHANGED <<canon, headBlock, headHeader, lookup, alive, current, header, crashes, setHeads>>

\* writeHeadBlock: two batches side by side, then the markers in memory.
WriteHead ==
    LET b == Head(job).block
        parts == Head(job).parts
    IN
    /\ alive /\ job # <<>> /\ Head(job).op = "head"
    /\ \E p \in parts :
        /\ IF p = "canon" THEN /\ canon' = [n \in DOMAIN canon \cup {Number[b]} |->
                                                IF n = Number[b] THEN b ELSE canon[n]]
                               /\ headBlock' = b /\ headHeader' = b
                               /\ UNCHANGED lookup
                          ELSE /\ lookup' = [t \in DOMAIN lookup \cup TxsOf[b] |->
                                                IF t \in TxsOf[b] THEN Number[b] ELSE lookup[t]]
                               /\ UNCHANGED <<canon, headBlock, headHeader>>
        /\ IF parts = {p} THEN job' = Tail(job) /\ current' = b /\ header' = b
           ELSE /\ job' = <<[Head(job) EXCEPT !.parts = parts \ {p}]>> \o Tail(job)
                /\ UNCHANGED <<current, header>>
    /\ UNCHANGED <<blocks, diskStates, alive, memStates, crashes, setHeads>>

Unindex ==
    /\ alive /\ job # <<>> /\ Head(job).op = "unindex"
    /\ lookup' = Restrict(lookup, DOMAIN lookup \ Head(job).txs)
    /\ job' = Tail(job)
    /\ UNCHANGED <<blocks, diskStates, canon, headBlock, headHeader, alive, memory, crashes, setHeads>>

\* The markers from a number upwards, as far as there are any without a gap.
Uncanon ==
    LET from == Head(job).from
        gap == Min({n \in from .. Max(DOMAIN canon) + 1 + from : n \notin DOMAIN canon})
    IN
    /\ alive /\ job # <<>> /\ Head(job).op = "uncanon"
    /\ canon' = Restrict(canon, DOMAIN canon \ (from .. gap))
    /\ job' = Tail(job)
    /\ UNCHANGED <<blocks, diskStates, headBlock, headHeader, lookup, alive, memory, crashes, setHeads>>

-------------------------------------------------------------------------------
(* Rewinding *)

\* setHead down to number n: the markers step by step, what is above at the end.
SetHead(n) ==
    /\ alive /\ job = <<>> /\ setHeads < MaxSetHeads
    /\ n < Number[header]
    /\ job' = <<[op |-> "sethead", to |-> n, top |-> Number[header]]>>
    /\ setHeads' = setHeads + 1
    /\ UNCHANGED <<disk, alive, memory, crashes>>

\* Mutant: the head goes with the header, without regard to its state.
SetHeadTo(p) == p

\* updateFn: the head that goes with header p.
HeadUnder(p) == RewindTo(p, diskStates \cup memStates)

\* Mutant: only the markers in memory go down.
SetHeadDownInMemory ==
    LET p == Parent[header] IN
    /\ alive /\ job # <<>> /\ Head(job).op = "sethead" /\ Number[header] > Head(job).to
    /\ header' = p
    /\ current' = IF Number[p] <= Number[current] THEN HeadUnder(p) ELSE current
    /\ UNCHANGED <<disk, alive, memStates, job, crashes, setHeads>>

SetHeadDown ==
    LET p == Parent[header] IN
    /\ alive /\ job # <<>> /\ Head(job).op = "sethead" /\ Number[header] > Head(job).to
    /\ header' = p /\ headHeader' = p
    /\ IF Number[p] <= Number[current]
       THEN current' = HeadUnder(p) /\ headBlock' = HeadUnder(p)
       ELSE UNCHANGED <<current, headBlock>>
    /\ UNCHANGED <<blocks, diskStates, canon, lookup, alive, memStates, job, crashes, setHeads>>

\* The one batch of deletions, all forks included, and the blocks above the head
\* that there were as far as they are without a gap.
SetHeadFlush ==
    LET to == Head(job).to
        top == Head(job).top
        gap == Min({n \in top + 1 .. top + 1 + Cardinality(Blocks) : ~\E b \in blocks : Number[b] = n})
        gone == to + 1 .. gap - 1
    IN
    /\ alive /\ job # <<>> /\ Head(job).op = "sethead" /\ Number[header] <= Head(job).to
    /\ blocks' = {b \in blocks : Number[b] \notin gone}
    /\ canon' = Restrict(canon, DOMAIN canon \ gone)
    /\ job' = Tail(job)
    /\ UNCHANGED <<diskStates, headBlock, headHeader, lookup, alive, memory, crashes, setHeads>>

-------------------------------------------------------------------------------
(* The end and the beginning *)

\* Stop: the states of the head, of its parent and of the oldest in memory.  The
\* code has no case for a missing marker: it ends there.
Stop ==
    LET asked == {Number[current] - o : o \in {0, 1, TriesInMemory - 1}} \cap 1 .. Number[current]
        saved == UNION {CanonicalAt(n) : n \in {k \in asked : asked \cap k .. Number[current] \subseteq DOMAIN canon}}
    IN
    /\ alive /\ job = <<>> /\ crashes < MaxCrashes /\ crashes' = crashes + 1
    /\ diskStates' = diskStates \cup (saved \cap memStates)
    /\ headBlock' = IF Number[current] > 0 THEN current ELSE headBlock
    /\ alive' = FALSE
    /\ memStates' = {} /\ current' = Genesis /\ header' = Genesis
    /\ UNCHANGED <<blocks, canon, headHeader, lookup, job, setHeads>>

\* The process is killed.
Crash ==
    /\ alive /\ crashes < MaxCrashes /\ crashes' = crashes + 1
    /\ alive' = FALSE /\ job' = <<>>
    /\ memStates' = {} /\ current' = Genesis /\ header' = Genesis
    /\ UNCHANGED <<disk, setHeads>>

\* A head without state is rewound, the header chain left alone.
RepairedHead == RewindTo(headBlock, diskStates)

\* NewBlockChain: loadLastState and the repair.
Start ==
    /\ ~alive /\ alive' = TRUE
    /\ current' = RepairedHead
    /\ headBlock' = RepairedHead
    /\ header' = headHeader
    /\ UNCHANGED <<blocks, diskStates, canon, headHeader, lookup, memStates, job, crashes, setHeads>>

Init ==
    /\ blocks = {Genesis} /\ diskStates = {Genesis}
    /\ canon = [n \in {0} |-> Genesis]
    /\ headBlock = Genesis /\ headHeader = Genesis
    /\ lookup = [t \in {} |-> 0]
    /\ alive = TRUE /\ memStates = {} /\ current = Genesis /\ header = Genesis
    /\ job = <<>> /\ crashes = 0 /\ setHeads = 0

Next ==
    \/ \E b \in Blocks : ImportKnown(b) \/ Import(b) \/ ImportSide(b)
    \/ Insert \/ WriteHead \/ Unindex \/ Uncanon
    \/ (\E n \in 0 .. Max(Range(Number)) : SetHead(n)) \/ SetHeadDown \/ SetHeadFlush
    \/ Stop \/ Crash \/ Start

Spec == Init /\ [][Next]_vars

-------------------------------------------------------------------------------
(* Properties *)

\* In every state of the database, the ones a crash leaves included, the blocks
\* of the chain that ends in the head marker are there, and no number up to the
\* head is marked with a block of another chain.
MarkersAgree ==
    /\ headHeader \in blocks
    /\ \A a \in Ancestors(headBlock) :
          a \in blocks /\ CanonicalAt(Number[a]) \subseteq {a}

\* A node that waits for the next block has a marker below every marker:
\* verifyNoGaps of the tests of SetHead and of the repair.
NoGaps ==
    alive /\ job = <<>> => \A n \in DOMAIN canon \ {0} : n - 1 \in DOMAIN canon

\* A node that waits for the next block can execute it on its head: the state of
\* the current block is there, unless a losing branch is TriesInMemory longer.
HeadHasState ==
    alive /\ job = <<>> /\ (\A b \in blocks : Number[b] < Number[current] + TriesInMemory) =>
        HasState(current)

\* Without crashes and rewinds nothing above the head is marked as canonical once a
\* write is complete.
NothingAboveHead == alive /\ job = <<>> => Max(DOMAIN canon) = Number[header]

\* Without crashes and rewinds the transaction index names the transactions of
\* the canonical chain and no others, at their numbers, however many
\* reorganisations moved them.
LookupExact ==
    alive /\ job = <<>> =>
        /\ DOMAIN lookup = Txs(Ancestors(current))
        /\ \A a \in Ancestors(current) : \A t \in TxsOf[a] : lookup[t] = Number[a]
===============================================================================
