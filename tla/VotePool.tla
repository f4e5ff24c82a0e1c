-------------------------------- MODULE VotePool --------------------------------
(***************************************************************************)
(* The vote pool of a node (core/vote/vote_pool.go): the votes for known   *)
(* blocks (curVotes), the votes that came before their block               *)
(* (futureVotes), a heap over each of the two maps and the set of hashes   *)
(* against duplicates.  The loop of the pool takes one vote or one head    *)
(* event at a time, while the chain goes on: it announces a block before   *)
(* it writes it (writeBlockAndSetHead), and the write may fail.            *)
(*                                                                         *)
(* A vote with a bad BLS signature leaves the pool as it is (basicVerify), *)
(* so every vote here is signed.  good says that its source and its key    *)
(* are what VerifyVote looks for.                                          *)
(***************************************************************************)
EXTENDS Integers, Sequences, FiniteSets, Functions

CONSTANTS
    Blocks,     \* the blocks, by hash
    NumberOf,   \* their numbers
    ParentOf,   \* their parents; the parent of the first ones is NoBlock
    Votes,      \* the signed votes: hash, number, key, good
    Lower,      \* lowerLimitOfVoteBlockNumber, 256 in the code
    Upper,      \* upperLimitOfVoteBlockNumber, 11
    MaxCur,     \* maxCurVoteAmountPerBlock, 21
    MaxFuture,  \* maxFutureVoteAmountPerBlock, 50
    MaxFails,   \* bound: how often the write of a block fails
    NoBlock     \* no block

ASSUME PoolConstants ==
    /\ NumberOf \in [Blocks -> Nat] /\ NoBlock \notin Blocks
    /\ \A v \in Votes : v.hash \in Blocks /\ v.number \in Nat /\ v.good \in BOOLEAN
    /\ Lower \in Nat /\ Upper \in Nat /\ MaxCur \in Nat /\ MaxFuture \in Nat \ {0} /\ MaxFails \in Nat

VARIABLES
    headers,      \* the blocks on disk
    highest,      \* highestVerifiedBlock, possibly only in memory
    writing,      \* the block is announced and not yet written
    head,         \* the number of CurrentBlock
    fails,        \* how many writes failed
    events,       \* highestVerifiedBlockCh
    taken,        \* the vote in hand and the map it goes to, or NoTask
    received,     \* receivedVotes
    curVotes, futureVotes,  \* hash -> box
    curVotesPq, futureVotesPq

chain == <<headers, highest, writing, head, fails>>
pool == <<received, curVotes, futureVotes, curVotesPq, futureVotesPq>>
vars == <<chain, events, taken, pool>>

NoTask == <<>>
None == [b \in {} |-> <<>>]  \* the empty map

\* GetVerifiedBlockByHash finds b.
Verified(b) == b = highest \/ b \in headers

\* Parlia.VerifyVote accepts v.
VerifyVote(v) == Verified(v.hash) /\ v.number = NumberOf[v.hash] /\ v.good

VoteData(v) == [number |-> v.number, hash |-> v.hash]
VotesIn(boxes) == UNION {Range(boxes[b].votes) : b \in DOMAIN boxes}

\* A heap, as how often it holds each of its entries: the heap with each entry
\* of a set once, and a heap after one push of each entry of a set.
HeapOf(S) == [e \in S |-> 1]
Pushed(pq, S) ==
    [e \in DOMAIN pq \cup S |->
        (IF e \in DOMAIN pq THEN pq[e] ELSE 0) + (IF e \in S THEN 1 ELSE 0)]

\* The elements of a finite set, in some order.
InOrder(S) == CHOOSE f \in [1 .. Cardinality(S) -> S] : IsInjective(f)

-------------------------------------------------------------------------------
(* The chain *)

\* The chain imports b: it is new and its parent is there.
Imports(b) == ~writing /\ b \notin headers /\ ParentOf[b] \in headers \cup {NoBlock}

\* writeBlockAndSetHead stores and announces a block that becomes the head.
AnnounceBlock(b) ==
    /\ Imports(b)
    /\ highest' = b /\ writing' = TRUE
    /\ events' = Append(events, NumberOf[b])
    /\ UNCHANGED <<headers, head, fails, taken, pool>>

\* It writes the block, or fails to.
WriteBlock ==
    /\ writing /\ writing' = FALSE
    /\ \/ headers' = headers \cup {highest} /\ head' = NumberOf[highest] /\ UNCHANGED fails
       \/ fails < MaxFails /\ fails' = fails + 1 /\ UNCHANGED <<headers, head>>
    /\ UNCHANGED <<highest, events, taken, pool>>

\* A block of a side chain is written and not announced.
WriteSide(b) ==
    /\ Imports(b)
    /\ headers' = headers \cup {b}
    /\ UNCHANGED <<highest, writing, head, fails, events, taken, pool>>

-------------------------------------------------------------------------------
(* The loop: votes *)

\* Mutant: the set of seen hashes is not asked.
BasicVerifyAgain(v, boxes, max) ==
    v.hash \in DOMAIN boxes => Len(boxes[v.hash].votes) < max

\* Mutant: the votes of a block are not counted.
BasicVerifyNoLimit(v, boxes, max) == v \notin received

\* basicVerify of a signed vote: new, and its box has room.
BasicVerify(v, boxes, max) ==
    /\ v \notin received
    /\ v.hash \in DOMAIN boxes => Len(boxes[v.hash].votes) < max

InRange(v) == v.number + Lower - 1 >= head /\ v.number <= head + Upper

\* putIntoVotePool up to putVote: the vote is read from votesCh, and refused
\* (the pool is as before) or assigned to a map by what the chain has now.
TakeVote(v) ==
    /\ taken = NoTask
    /\ InRange(v)
    /\ IF Verified(v.hash)
       THEN BasicVerify(v, curVotes, MaxCur) /\ VerifyVote(v) /\ taken' = <<v, "cur">>
       ELSE BasicVerify(v, futureVotes, MaxFuture) /\ taken' = <<v, "future">>
    /\ UNCHANGED <<chain, events, pool>>

\* The map with this box for the block.
With(boxes, hash, box) == [b \in DOMAIN boxes \cup {hash} |-> IF b = hash THEN box ELSE boxes[b]]

\* Mutant: the heap takes an entry with every vote.
PutVoteAlways(boxes, pq, v) ==
    LET box == IF v.hash \in DOMAIN boxes THEN boxes[v.hash]
                                          ELSE [number |-> v.number, votes |-> <<>>]
    IN [boxes |-> With(boxes, v.hash, [number |-> box.number, votes |-> Append(box.votes, v)]),
        pq |-> Pushed(pq, {VoteData(v)})]

\* The map and the heap after putVote: only a new box has an entry pushed.
PutVote(boxes, pq, v) ==
    LET new == v.hash \notin DOMAIN boxes
        box == IF new THEN [number |-> v.number, votes |-> <<>>] ELSE boxes[v.hash]
    IN [boxes |-> With(boxes, v.hash, [number |-> box.number, votes |-> Append(box.votes, v)]),
        pq |-> IF new THEN Pushed(pq, {VoteData(v)}) ELSE pq]

\* putVote.
StoreVote ==
    LET v == taken[1] IN
    /\ taken # NoTask
    /\ \/ /\ taken[2] = "cur"
          /\ LET p == PutVote(curVotes, curVotesPq, v) IN
             curVotes' = p.boxes /\ curVotesPq' = p.pq
          /\ UNCHANGED <<futureVotes, futureVotesPq>>
       \/ /\ taken[2] = "future"
          /\ LET p == PutVote(futureVotes, futureVotesPq, v) IN
             futureVotes' = p.boxes /\ futureVotesPq' = p.pq
          /\ UNCHANGED <<curVotes, curVotesPq>>
    /\ received' = received \cup {v}
    /\ taken' = NoTask
    /\ UNCHANGED <<chain, events>>

-------------------------------------------------------------------------------
(* The loop: a head event with the number n *)

\* Mutant: one block more is pruned.
OutdatedEarly(n) == {e \in DOMAIN curVotesPq : e.number + Lower - 1 <= n}

\* The entries that prune pops.
Outdated(n) == {e \in DOMAIN curVotesPq : e.number + Lower - 1 < n}

\* Mutant: the votes of the head itself wait for the next head.
RipeLate(n) ==
    {e \in DOMAIN futureVotesPq :
        e.number + Upper < n \/ (e.number < n /\ Verified(e.hash))}

\* The entries that transferVotesFromFutureToCur pops for good: below the
\* window all of them, within it those whose block is known.
Ripe(n) ==
    {e \in DOMAIN futureVotesPq :
        e.number + Upper < n \/ (e.number <= n /\ Verified(e.hash))}

\* Mutant: the votes are not verified when their block is there.
ValidVotesAll(box) == box.votes

\* transfer keeps the votes that VerifyVote accepts.  Nothing reads their order.
ValidVotes(box) ==
    LET valid == InOrder({i \in DOMAIN box.votes : VerifyVote(box.votes[i])})
    IN [i \in DOMAIN valid |-> box.votes[valid[i]]]

Without(boxes, hashes) == [b \in DOMAIN boxes \ hashes |-> boxes[b]]

HandleHead ==
    LET n       == Head(events)
        old     == Outdated(n)
        pruned  == {e.hash : e \in old} \cap DOMAIN curVotes
        cur     == Without(curVotes, pruned)
        ripe    == Ripe(n)
        moved   == {e.hash : e \in ripe} \cap DOMAIN futureVotes
        added   == moved \ DOMAIN cur
        released == UNION {Range(curVotes[b].votes) : b \in pruned}
        refused == UNION {Range(futureVotes[b].votes) \ Range(ValidVotes(futureVotes[b])) : b \in moved}
        keep(pq, es) == [e \in DOMAIN pq \ es |-> pq[e]]
    IN
    /\ taken = NoTask
    /\ events # <<>> /\ events' = Tail(events)
    /\ curVotes' =
         [b \in DOMAIN cur \cup moved |->
            IF b \in added
            THEN [number |-> futureVotes[b].number, votes |-> ValidVotes(futureVotes[b])]
            ELSE IF b \in moved
            THEN [number |-> cur[b].number, votes |-> cur[b].votes \o ValidVotes(futureVotes[b])]
            ELSE cur[b]]
    /\ futureVotes' = Without(futureVotes, moved)
    /\ curVotesPq' = Pushed(keep(curVotesPq, old), {e \in ripe : e.hash \in added})
    /\ futureVotesPq' = keep(futureVotesPq, ripe)
    /\ received' = (received \ released) \ refused
    /\ UNCHANGED <<chain, taken>>

-------------------------------------------------------------------------------
Init ==
    /\ headers = {} /\ highest = NoBlock /\ writing = FALSE /\ head = 0 /\ fails = 0
    /\ events = <<>> /\ taken = NoTask
    /\ received = {}
    /\ curVotes = None /\ futureVotes = None
    /\ curVotesPq = HeapOf({}) /\ futureVotesPq = HeapOf({})

Next ==
    \/ \E b \in Blocks : AnnounceBlock(b) \/ WriteSide(b)
    \/ WriteBlock
    \/ \E v \in Votes : TakeVote(v)
    \/ StoreVote
    \/ HandleHead

\* The goroutine of the pool runs, and selects a waiting head event even if
\* votes keep coming: select chooses among the ready cases at random.
Fairness == WF_vars(StoreVote) /\ SF_vars(HandleHead)

Spec == Init /\ [][Next]_vars /\ Fairness

-------------------------------------------------------------------------------
(* Properties *)

Boxes == [number : Nat, votes : Seq(Votes)]

\* The type invariant, with the limit on the votes that wait for one block.
TypeOK ==
    /\ headers \subseteq Blocks /\ highest \in Blocks \cup {NoBlock}
    /\ writing \in BOOLEAN /\ head \in Nat /\ fails \in 0 .. MaxFails
    /\ events \in Seq(Nat)
    /\ taken \in {NoTask} \cup (Votes \X {"cur", "future"})
    /\ received \subseteq Votes
    /\ \A m \in {curVotes, futureVotes} :
        DOMAIN m \subseteq Blocks /\ \A b \in DOMAIN m : m[b] \in Boxes
    /\ \A b \in DOMAIN futureVotes : Len(futureVotes[b].votes) <= MaxFuture
    /\ \A pq \in {curVotesPq, futureVotesPq} : pq \in [DOMAIN pq -> Nat \ {0}]

Entries(boxes) == {[number |-> boxes[b].number, hash |-> b] : b \in DOMAIN boxes}

\* Every box has exactly one entry in the heap of its map, with its number: a
\* box without one is never pruned or transferred, a second entry pops a box
\* that is gone.
HeapsInStep ==
    curVotesPq = HeapOf(Entries(curVotes)) /\ futureVotesPq = HeapOf(Entries(futureVotes))

\* receivedVotes has the votes of the boxes and no other, and a vote is in one
\* box once: a hash that stays behind keeps a vote out for ever, one that is
\* missing counts the vote twice in an attestation.
ReceivedInStep ==
    /\ received = VotesIn(curVotes) \cup VotesIn(futureVotes)
    /\ VotesIn(curVotes) \cap VotesIn(futureVotes) = {}
    /\ \A m \in {curVotes, futureVotes} : \A b \in DOMAIN m :
        /\ IsInjective(m[b].votes)
        /\ \A v \in Range(m[b].votes) : v.hash = b

\* What FetchVoteByBlockHash hands to the assembly of an attestation are votes
\* that VerifyVote accepted: right number, source and key.
CurVotesVerified == \A v \in VotesIn(curVotes) : v.good /\ v.number = NumberOf[v.hash]

\* Every box of the pool has exactly one entry in the heap of its map and keeps its
\* limit, receivedVotes has the votes of the boxes and no other, and what an
\* attestation is assembled from are votes that VerifyVote accepted.
PoolInStep == TypeOK /\ HeapsInStep /\ ReceivedInStep /\ CurVotesVerified

\* A head event n takes no vote out of the pool whose box is in the window
\* (n - Lower, n], unless VerifyVote refuses it: what was received for a recent
\* block is there when the attestation is assembled.
WindowKept ==
    [][\A v \in received :
        Len(events') < Len(events) /\ v \notin received'
            => \/ ~VerifyVote(v)
               \/ \E m \in {curVotes, futureVotes} :
                    /\ v \in VotesIn(m)
                    /\ m[v.hash].number + Lower <= Head(events)]_vars

\* A vote that was early becomes current once its block is announced: no vote
\* stays in futureVotes when the chain has taken its block as head.  A box takes
\* its number from its first vote; one with a number above its block's waits on.
EarlyVotesCount ==
    \A b \in Blocks :
        (b \in DOMAIN futureVotes /\ futureVotes[b].number <= NumberOf[b] /\ b = highest)
            ~> (b \notin DOMAIN futureVotes \/ ~Verified(b))
===============================================================================
