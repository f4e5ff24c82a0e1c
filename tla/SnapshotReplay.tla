---------------------------- MODULE SnapshotReplay ----------------------------
(***************************************************************************)
(* Parlia.snapshot(): the snapshot of a block is looked up in the cache,   *)
(* loaded from a checkpoint on disk, or built anew from the genesis block  *)
(* or a trusted epoch block, and the headers since then are applied to it  *)
(* in one batch.  The network seals a branch, which a node follows; the    *)
(* node may be restarted and may lose its database of snapshots ("chain    *)
(* reinit from a freezer").  Snake8 begins at some block, or never; Bohr,  *)
(* which no network of this chain has, does not.                           *)
(***************************************************************************)
EXTENDS Integers, FiniteSets, Sequences

CONSTANTS
    ValidatorSets,       \* what an epoch block may announce
    Epoch,               \* blocks per epoch
    Snake8TurnLength,    \* 50 in the code
    Forks,               \* the first block with a time of Snake8 is one of these
    CheckpointInterval,  \* 1024 in the code
    Threshold,           \* params.FullImmutabilityThreshold
    MaxNumber            \* bound: the last block of the branch

VARIABLES
    fork,    \* the first block with a time of Snake8
    branch,  \* the headers after the genesis block: who signed, what is announced
    live,    \* the snapshot of the head as every header's own child computed it
    cache,   \* recentSnaps of the node: block number -> snapshot
    disk,    \* the stored snapshots of the node: block number -> snapshot
    crossed  \* history: snapshots were built with the turns of another era

vars == <<fork, branch, live, cache, disk, crossed>>

Nothing == [k \in {} |-> 0]
Put(f, k, x) == [j \in DOMAIN f \cup {k} |-> IF j = k THEN x ELSE f[j]]

Tip == Len(branch) - 1

\* The header of block n of a branch, which starts with the genesis block.
Header(headers, n) == headers[n + 1]

\* isSnake8Enabled for a child of block n.
Snake8(n) == n >= fork

-------------------------------------------------------------------------------
(* Snapshot *)

\* newSnapshot: ok is FALSE once apply has returned an error.
NewSnapshot(n, vals) ==
    [number |-> n, validators |-> vals, turnLength |-> 1, recents |-> Nothing, ok |-> TRUE]

\* minerHistoryCheckLen
CheckLen(s) == (Cardinality(s.validators) \div 2 + 1) * s.turnLength - 1

Without(r, keys) == [k \in DOMAIN r \ keys |-> r[k]]

\* SignRecently
SignRecently(s, v) ==
    Cardinality({k \in DOMAIN s.recents : k > s.number - CheckLen(s) /\ s.recents[k] = v})
        >= s.turnLength

\* Snapshot.apply for block n, one of a batch for a caller with or without Snake8.
Apply(s, headers, n, snake8) ==
    LET kept == IF n >= CheckLen(s) + 1 THEN Without(s.recents, {n - CheckLen(s) - 1}) ELSE s.recents
        signer == Header(headers, n).signer
        accepted == signer \in s.validators /\ (snake8 \/ \A k \in DOMAIN kept : kept[k] # signer)
        applied == [s EXCEPT !.number = n, !.recents = Put(kept, n, signer), !.ok = @ /\ accepted]
        vals == Header(headers, n - CheckLen(s)).announced
        oldLimit == Cardinality(s.validators) \div 2 + 1
        newLimit == Cardinality(vals) \div 2 + 1
    IN IF n % Epoch # CheckLen(s) THEN applied
       ELSE [applied EXCEPT !.validators = vals,
                            !.recents = Without(@, {n - newLimit - i : i \in 0 .. oldLimit - newLimit - 1})]

-------------------------------------------------------------------------------
(* Parlia.snapshot *)

\* loadSnapshot
LoadSnapshot(n, snake8) ==
    IF snake8 THEN [disk[n] EXCEPT !.turnLength = Snake8TurnLength] ELSE disk[n]

\* A checkpoint that is trusted, when so many headers have piled up.
Trusted(n, target) == (n + 1) % Epoch = 0 /\ target - n > Threshold

OnDisk(n) == n % CheckpointInterval = 0 /\ n \in DOMAIN disk

\* Where the way back from the target ends.
BaseNumber(target) ==
    LET ends == {n \in 0 .. target : n \in DOMAIN cache \/ OnDisk(n) \/ n = 0 \/ Trusted(n, target)}
    IN CHOOSE n \in ends : \A m \in ends : m <= n

BuiltAnew(n) == n \notin DOMAIN cache /\ ~OnDisk(n)

\* Mutant: the set that the next epoch block announces.
CheckpointNext(n) == IF n = 0 THEN 0 ELSE n + 1

\* The epoch block whose set is in force at the trusted block n.
Checkpoint(n) == IF n = 0 THEN 0 ELSE (n + 1) - Epoch

Base(n, snake8) ==
    CASE n \in DOMAIN cache -> cache[n]
      [] n \notin DOMAIN cache /\ OnDisk(n) -> LoadSnapshot(n, snake8)
      [] BuiltAnew(n) -> NewSnapshot(n, Header(branch, Checkpoint(n)).announced)

\* The batch of headers up to the target, on top of the base.
Applied(target, snake8) ==
    LET base == BaseNumber(target)
        after[n \in base .. target] ==
            IF n = base THEN Base(base, snake8) ELSE Apply(after[n - 1], branch, n, snake8)
    IN after[target]

\* "if Snake8 is enabled": the turn length is set after the headers were applied.
Populated(s, snake8) == IF snake8 THEN [s EXCEPT !.turnLength = Snake8TurnLength] ELSE s

\* What snapshot() returns.
Result(target, snake8) == Populated(Applied(target, snake8), snake8)

\* History: the headers are applied with the turn length in force when they were
\* sealed.  Without Snake8 they are; with it, when they start from a snapshot of the
\* Snake8 era that was not built anew, or end at the first block of it and did
\* not start from a snapshot on disk, whose turn length is set on loading.
SameEra(target, snake8) ==
    LET base == BaseNumber(target) IN
    snake8 => IF base >= fork THEN ~BuiltAnew(base) \/ base = target
              ELSE target = fork /\ (base \in DOMAIN cache \/ BuiltAnew(base))

\* And what it leaves in the cache and on disk, if no header was refused.
Remember(target, snake8) ==
    LET base == BaseNumber(target)
        built == IF BuiltAnew(base) THEN Put(disk, base, Base(base, snake8)) ELSE disk
        result == Result(target, snake8)
    IN /\ cache' = IF result.ok THEN Put(cache, target, result) ELSE cache
       /\ disk' = IF result.ok /\ target % CheckpointInterval = 0 /\ base < target
                  THEN Put(built, target, result) ELSE built
       /\ crossed' = (crossed \/ ~SameEra(target, snake8))

-------------------------------------------------------------------------------
Init ==
    /\ fork \in Forks
    /\ \E vals \in ValidatorSets :
          /\ branch = <<[signer |-> 0, announced |-> vals]>>
          /\ live = Populated(NewSnapshot(0, vals), Snake8(0))
    /\ cache = Nothing /\ disk = Nothing /\ crossed = FALSE

\* verifySeal of the next header by the network, which has the snapshot of the
\* head, and by the node, which asks for it as well.
Seal(v, announced) ==
    /\ Tip < MaxNumber
    /\ v \in live.validators /\ ~SignRecently(live, v)
    /\ Remember(Tip, Snake8(Tip))
    /\ branch' = Append(branch, [signer |-> v, announced |-> announced])
    /\ live' = Populated(Apply(live, branch', Tip + 1, Snake8(Tip + 1)), Snake8(Tip + 1))
    /\ UNCHANGED fork

\* Any other question about the head: isSnake8Enabled is asked with the head.
Ask ==
    /\ Tip > 0
    /\ Remember(Tip, Snake8(Tip - 1))
    /\ UNCHANGED <<fork, branch, live>>

\* The cache is gone.
Restart ==
    /\ cache' = Nothing
    /\ UNCHANGED <<fork, branch, live, disk, crossed>>

\* The snapshots on disk are gone as well.
Reinit ==
    /\ cache' = Nothing /\ disk' = Nothing
    /\ UNCHANGED <<fork, branch, live, crossed>>

Next ==
    \/ \E v \in UNION ValidatorSets :
          \E vals \in IF (Tip + 1) % Epoch = 0 THEN ValidatorSets ELSE {{}} : Seal(v, vals)
    \/ Ask \/ Restart \/ Reinit

Spec == Init /\ [][Next]_vars

-------------------------------------------------------------------------------
(* Properties *)

\* The snapshot that the node gets for verifying a child of the head: it is the
\* one of the network, but that a validator may be held off for less ("results
\* in a more lenient check") when the history was lost.
Agrees(s) ==
    /\ s.ok
    /\ s.validators = live.validators /\ s.turnLength = live.turnLength
    /\ \A v \in s.validators : SignRecently(s, v) => SignRecently(live, v)

\* "snapshot retrieves the authorization snapshot at a given point in time": the
\* node never differs from the network about the head.
RetrievedRight == Agrees(Result(Tip, Snake8(Tip)))

\* It does not as long as all its snapshots come from headers that were applied
\* with the turn length they were sealed under: then every way to the snapshot
\* of the head leads to the same validators and turns, across epochs, restarts,
\* the beginning of Snake8 and, without it, the loss of all snapshots.
RetrievedWithinEra == ~crossed /\ SameEra(Tip, Snake8(Tip)) => RetrievedRight
===============================================================================
