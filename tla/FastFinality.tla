----------------------------- MODULE FastFinality -----------------------------
(***************************************************************************)
(* Fast finality of the Parlia engine with Luban and Plato active.         *)
(*                                                                         *)
(* Validators vote for the block they hold as the best one.  A block may   *)
(* carry an attestation: the aggregated votes of at least 2/3 of the       *)
(* validators for its parent, all with the parent's justified block as     *)
(* source.  The snapshot of a block remembers the last attestation of its  *)
(* branch: its target is justified, its source finalized.  A node follows  *)
(* the branch with the highest justified block, and among equals the       *)
(* heaviest one.                                                           *)
(*                                                                         *)
(* The model has one set of verified blocks (what the network ever         *)
(* accepted), the votes of the validators, and one full node's head.       *)
(* Validators vote for any verified block that the voting rules allow: the *)
(* choice of a validator's own head only narrows that.                     *)
(***************************************************************************)
EXTENDS Naturals, FiniteSets, VoteSpans

CONSTANTS
    Validators,  \* the validator set (its changes are ParliaSnapshot's matter)
    Faulty,      \* validators whose votes no journal binds
    Hash,        \* block hashes
    Genesis,     \* the hash of the genesis block
    Number,      \* Number[h], ParentHash[h], Difficulty[h]: the fields of the
    ParentHash,  \*   header that h is the hash of
    Difficulty,
    Nil          \* no attestation

\* A hash commits to its header, so the fields are functions of the hash.
ASSUME HeaderAssumption ==
    /\ Genesis \in Hash
    /\ Number \in [Hash -> Nat]
    /\ Number[Genesis] = 0
    /\ ParentHash \in [Hash -> Hash]
    /\ Difficulty \in [Hash -> Nat]

\* Fewer than a third of the validators vote against the rules.
ASSUME FaultyAssumption ==
    /\ IsFiniteSet(Validators)
    /\ Faulty \subseteq Validators
    /\ 3 * Cardinality(Faulty) < Cardinality(Validators)

\* types.VoteData: the hashes determine the numbers.
VoteData == [source : Hash, target : Hash]

ASSUME NilAssumption == Nil \notin VoteData

VARIABLES
    blocks,       \* the hashes of the verified headers
    branch,       \* branch[h]: h and its ancestors
    td,           \* td[h]: total difficulty of the branch that ends in h
    attestation,  \* attestation[h]: Attestation of the snapshot at h
    votes,        \* the votes that validators outside Faulty signed
    head          \* the node's current block

vars == <<blocks, branch, td, attestation, votes, head>>

-------------------------------------------------------------------------------
(* What a snapshot says about its branch *)

\* GetJustifiedNumberAndHash: the target of the last attestation.
Justified(h) == IF attestation[h] = Nil THEN Genesis ELSE attestation[h].target

\* GetFinalizedHeader: its source.
Finalized(h) == IF attestation[h] = Nil THEN Genesis ELSE attestation[h].source

\* cmath.CeilDiv
CeilDiv(x, y) == (x + y - 1) \div y

\* Mutant: a simple majority.
QuorumHalf == CeilDiv(Cardinality(Validators), 2)

Quorum == CeilDiv(2 * Cardinality(Validators), 3)

\* v's signature on d exists.  Faulty validators sign whatever is asked.
Signed(v, d) == v \in Faulty \/ [voter |-> v, data |-> d] \in votes

\* An aggregate of enough signatures on d can be formed.
Supermajority(d) == Cardinality({v \in Validators : Signed(v, d)}) >= Quorum

\* The attestation that a child of h can carry.
ParentVote(h) == [source |-> Justified(h), target |-> h]

\* verifyVoteAttestation for a header whose parent is p: no attestation, or
\* one for the parent.  The snapshot that names the voters is the one before
\* the parent, so the parent must not be the genesis block.
VerifyVoteAttestation(p, a) ==
    \/ a = Nil
    \/ /\ a = ParentVote(p)
       /\ Number[p] >= 1
       /\ Supermajority(a)

\* Snapshot.updateAttestation: the source moves only with two justified
\* blocks in a row; otherwise the last finalized block is kept.
UpdateAttestation(old, a) ==
    IF a = Nil THEN old
    ELSE IF old # Nil /\ Number[a.source] + 1 # Number[a.target]
         THEN [source |-> old.source, target |-> a.target]
         ELSE a

-------------------------------------------------------------------------------
(* The fork choice of the node *)

\* ForkChoice.ReorgNeeded: more difficulty wins, then the lower number; which
\* of two blocks of one number wins depends on arrival times and on chance.
ReorgNeeded(current, h) ==
    \/ td[h] > td[current]
    \/ td[h] = td[current] /\ Number[h] <= Number[current]

\* Mutant: the fork choice without fast finality.
ReorgByDifficulty(current, h) == ReorgNeeded(current, h)

\* ForkChoice.ReorgNeededWithFastFinality
ReorgNeededWithFastFinality(current, h) ==
    \/ Number[Justified(h)] > Number[Justified(current)]
    \/ /\ Number[Justified(h)] = Number[Justified(current)]
       /\ ReorgNeeded(current, h)

-------------------------------------------------------------------------------
(* Voting *)

SpanOf(d) == [source |-> Number[d.source], target |-> Number[d.target]]

\* Mutant: Rule 2 only.
UnderRulesNoHeight(v, d) ==
    \A w \in votes : w.voter = v => ~(\/ Surrounds(SpanOf(w.data), SpanOf(d))
                                     \/ Surrounds(SpanOf(d), SpanOf(w.data)))

\* Mutant: Rule 1 only.
UnderRulesNoSpan(v, d) ==
    \A w \in votes : w.voter = v => ~SameHeight(SpanOf(w.data), SpanOf(d))

\* VoteManager.UnderRules, with a journal that forgets nothing: no vote of v
\* conflicts with d.
UnderRules(v, d) ==
    \A w \in votes : w.voter = v => ~Conflict(SpanOf(w.data), SpanOf(d))

-------------------------------------------------------------------------------
Init ==
    /\ blocks = {Genesis}
    /\ branch = [h \in Hash |-> {Genesis}]
    /\ td = [h \in Hash |-> 0]
    /\ attestation = [h \in Hash |-> Nil]
    /\ votes = {}
    /\ head = Genesis

\* A header that follows a verified one and carries the attestation a, or
\* none, passes verifyHeader and verifyCascadingFields; its snapshot is the
\* parent's, updated.
VerifyHeader(h, a) ==
    LET p == ParentHash[h] IN
    /\ h \notin blocks
    /\ p \in blocks
    /\ Number[h] = Number[p] + 1
    /\ VerifyVoteAttestation(p, a)
    /\ blocks' = blocks \cup {h}
    /\ branch' = [branch EXCEPT ![h] = branch[p] \cup {h}]
    /\ td' = [td EXCEPT ![h] = td[p] + Difficulty[h]]
    /\ attestation' = [attestation EXCEPT ![h] = UpdateAttestation(attestation[p], a)]
    /\ UNCHANGED <<votes, head>>

\* The vote manager of validator v handles the HighestVerifiedBlockEvent of h.
\* The event is sent before the block is written, so h need not be anybody's
\* head when the vote is cast, nor become it.
CastVote(v, h) ==
    /\ v \notin Faulty
    /\ h \in blocks
    /\ UnderRules(v, ParentVote(h))
    /\ votes' = votes \cup {[voter |-> v, data |-> ParentVote(h)]}
    /\ UNCHANGED <<blocks, branch, td, attestation, head>>

\* Mutant: the head follows any hash that is heard of.
SetHeadUnknown(h) ==
    /\ head' = h
    /\ UNCHANGED <<blocks, branch, td, attestation, votes>>

\* writeBlockAndSetHead: the node imports h and makes it its head.
SetHead(h) ==
    /\ h \in blocks
    /\ ReorgNeededWithFastFinality(head, h)
    /\ head' = h
    /\ UNCHANGED <<blocks, branch, td, attestation, votes>>

Next ==
    \/ \E h \in Hash : \E a \in {Nil, ParentVote(ParentHash[h])} : VerifyHeader(h, a)
    \/ \E v \in Validators, h \in Hash : CastVote(v, h)
    \/ \E h \in Hash : SetHead(h)

Spec == Init /\ [][Next]_vars

-------------------------------------------------------------------------------
(* Properties *)

\* The type invariant; the head is a verified block.
TypeOK ==
    /\ blocks \in SUBSET Hash
    /\ branch \in [Hash -> SUBSET Hash]
    /\ td \in [Hash -> Nat]
    /\ attestation \in [Hash -> VoteData \cup {Nil}]
    /\ votes \in SUBSET [voter : Validators, data : VoteData]
    /\ head \in blocks

\* Two blocks are on one branch.
Compatible(x, y) == x \in branch[y] \/ y \in branch[x]

\* No two blocks of one number are ever justified, on whatever branches
\* (verifyVoteAttestation with UnderRules, Rule 1).
OneJustifiedPerNumber ==
    \A a, b \in blocks :
        Number[Justified(a)] = Number[Justified(b)] => Justified(a) = Justified(b)

\* Votes suffice to justify x: a child of x may attest it.
Justifiable(x) == x = Genesis \/ Supermajority(ParentVote(x))

\* Votes suffice to finalize x: x and a child that builds on x are justifiable.
Finalizable(x) ==
    \/ x = Genesis
    \/ /\ Supermajority(ParentVote(x))
       /\ \E t \in blocks : /\ Number[t] = Number[x] + 1
                           /\ Justified(t) = x
                           /\ Supermajority(ParentVote(t))

\* Once the votes suffice to finalize a block, every block that is not lower
\* and that votes suffice to justify descends from it, whether or not a header
\* carries those votes yet (UnderRules, Rules 1 and 2).
FinalityLock ==
    \A x, y \in blocks :
        Finalizable(x) /\ Justifiable(y) /\ Number[y] >= Number[x] => x \in branch[y]

\* Finality: the blocks that any two branches finalize are on one branch.
FinalizedAgreement ==
    \A a, b \in blocks : Compatible(Finalized(a), Finalized(b))

\* A reorganisation never drops the block that the node reported as finalized
\* (writeBlockAndSetHead with ReorgNeededWithFastFinality).
FinalizedNeverReverted == [][Finalized(head) \in branch'[head']]_vars

-------------------------------------------------------------------------------
(* The inductive invariant behind them *)

\* Branches are closed under ancestors and numbered upwards.
BranchInv ==
    /\ Genesis \in blocks
    /\ \A b \in blocks :
        /\ b # Genesis => Number[b] > 0
        /\ b \in branch[b]
        /\ Genesis \in branch[b]
        /\ branch[b] \subseteq blocks
        /\ \A x \in branch[b] : branch[x] \subseteq branch[b] /\ Number[x] <= Number[b]

\* A vote is the one vote its target can get, and votes of one validator do
\* not conflict.
VoteInv ==
    /\ \A w \in votes : /\ w.voter \notin Faulty
                        /\ w.data.target \in blocks
                        /\ w.data = ParentVote(w.data.target)
    /\ \A w1, w2 \in votes :
        w1.voter = w2.voter /\ w1 # w2 => ~Conflict(SpanOf(w1.data), SpanOf(w2.data))

\* What a snapshot calls justified or finalized got the votes for it.
AttestationInv ==
    \A b \in blocks :
        /\ Justified(b) \in branch[b]
        /\ Finalized(b) \in branch[b]
        /\ Justifiable(Justified(b))
        /\ Finalizable(Finalized(b))
        /\ Number[Finalized(b)] <= Number[Justified(b)]
        /\ b # Genesis => Number[Justified(b)] < Number[b]

Inv == TypeOK /\ BranchInv /\ VoteInv /\ AttestationInv
===============================================================================
