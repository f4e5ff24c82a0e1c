------------------------------- MODULE SealWorker -------------------------------
(***************************************************************************)
(* How a validator gets from a chain head to a published block: the loops  *)
(* of miner/worker.go and the goroutines that Parlia.Seal starts.  Work is *)
(* resubmitted, a sealing goroutine is told to stop but may be past the    *)
(* point where it listens, results queue up, blocks of other validators    *)
(* arrive in between, the miner is stopped and started, the node is        *)
(* restarted.                                                              *)
(*                                                                         *)
(* A block is the path of labels from the genesis to it, so its parent is  *)
(* the front of the path and its number is the length.  A label names the  *)
(* sealer, the attempt (transactions, time) and the attestation, which is  *)
(* added by Seal and is not part of the seal hash.                         *)
(***************************************************************************)
EXTENDS Naturals, Sequences, FiniteSets, Functions

CONSTANTS
    MaxNumber,       \* bound: the highest block number
    MaxWork,         \* bound: the attempts per parent
    MaxTasks,        \* bound: the different tasks that are built
    MaxOther,        \* bound: the blocks of others per parent
    MaxFails,        \* bound: how often assembly, signature or write fails
    MaxToggles,      \* bound: how often the miner is stopped or the node restarted
    TurnLength,      \* how many blocks in a row the validator may seal
    StaleThreshold,  \* staleThreshold, 11 in the code
    CacheLimit,      \* recentMinedCacheLimit, 20: a task is stale before the guard forgets it
    QueueSize        \* resultQueueSize, 10

VARIABLES
    known,      \* the blocks in the database
    head,       \* CurrentBlock
    highest,    \* highestVerifiedHeader, or Nothing
    importing,  \* the block of another validator that is being written, or Nothing
    heads,      \* chainHeadCh: the number of the newest event, or 0; events that
                \* queue up are handled as one
    running,    \* worker.running
    request,    \* newWorkLoop waits to hand over a newWorkReq
    building,   \* the task that mainLoop assembles, or Nothing
    prev,       \* taskLoop's prev
    pendingTasks,
    sealers,    \* the goroutines of Seal
    resultCh,
    recentMinedBlocks,  \* number and parents, from least to most recently used
    built,          \* history: the tasks that were built
    fails, toggles, \* how many there were
    published   \* history: the blocks of this node that were broadcast

chainVars == <<known, head, highest, importing>>
vars == <<chainVars, heads, running, request, building, prev, pendingTasks, sealers,
          resultCh, recentMinedBlocks, built, fails, toggles, published>>

Nothing == <<>>  \* the genesis block is never sealed
Own(w, a) == [by |-> "me", work |-> w, att |-> a]
Other(k) == [by |-> "other", work |-> k, att |-> 0]

\* The parent of a block.
Front(b) == [i \in 1 .. Len(b) - 1 |-> b[i]]

\* The block with attestation a in its header, and Parlia.SealHash: the header
\* without the attestation.
Attested(b, a) == [b EXCEPT ![Len(b)] = [b[Len(b)] EXCEPT !.att = a]]
SealHash(b) == Attested(b, 0)

\* Snapshot.SignRecently for the validator after block p.
SignRecently(p) ==
    Len(p) >= TurnLength /\ \A i \in Len(p) - TurnLength + 1 .. Len(p) : p[i].by = "me"

\* ReorgNeededWithFastFinality may choose block b: it is as high as the head, or
\* its attestation, which needs a grandparent, justifies a higher block.
MayWin(b) == Len(b) >= Len(head) \/ Len(b) >= 2

Fail == fails < MaxFails /\ fails' = fails + 1

-------------------------------------------------------------------------------
(* The chain *)

\* insertChain for a block of another validator that goes to the head or wins over
\* it, up to the note of its header.
ImportVerified(k) ==
    \E p \in known :
        LET b == Append(p, Other(k)) IN
        /\ importing = Nothing /\ Len(p) < MaxNumber /\ b \notin known
        /\ MayWin(b)
        /\ importing' = b /\ highest' = b
        /\ UNCHANGED <<known, head, heads, running, request, building, prev, pendingTasks,
                       sealers, resultCh, recentMinedBlocks, built, fails, toggles, published>>

\* The block is not what its header says.
ImportFailed ==
    /\ importing # Nothing /\ Fail
    /\ importing' = Nothing
    /\ UNCHANGED <<known, head, highest, heads, running, request, building, prev, pendingTasks,
                   sealers, resultCh, recentMinedBlocks, built, toggles, published>>

\* writeBlockAndSetHead.
ImportWritten ==
    /\ importing # Nothing
    /\ known' = known \cup {importing} /\ head' = importing
    /\ heads' = Len(importing)
    /\ importing' = Nothing
    /\ UNCHANGED <<highest, running, request, building, prev, pendingTasks, sealers,
                   resultCh, recentMinedBlocks, built, fails, toggles, published>>

-------------------------------------------------------------------------------
(* newWorkLoop *)

Fresh(ts, n) == {t \in ts : Len(t) + StaleThreshold > n}

\* A ChainHeadEvent.
OnHead ==
    /\ heads # 0 /\ ~request
    /\ heads' = 0
    /\ IF running
       THEN /\ pendingTasks' = Fresh(pendingTasks, heads)
            /\ request' \in {~SignRecently(head), FALSE}  \* or an error of SignRecently
       ELSE UNCHANGED <<pendingTasks, request>>
    /\ UNCHANGED <<chainVars, running, building, prev, sealers, resultCh,
                   recentMinedBlocks, built, fails, toggles, published>>

\* The timer: the work is resubmitted.
OnTimer ==
    /\ running /\ ~request
    /\ request' = TRUE
    /\ UNCHANGED <<chainVars, heads, running, building, prev, pendingTasks, sealers,
                   resultCh, recentMinedBlocks, built, fails, toggles, published>>

\* start.
StartMining ==
    /\ ~running /\ ~request
    /\ running' = TRUE /\ request' = TRUE
    /\ pendingTasks' = Fresh(pendingTasks, Len(head))
    /\ UNCHANGED <<chainVars, heads, building, prev, sealers, resultCh,
                   recentMinedBlocks, built, fails, toggles, published>>

\* stop: what is under way goes on.
StopMining ==
    /\ running /\ toggles < MaxToggles
    /\ running' = FALSE /\ toggles' = toggles + 1
    /\ UNCHANGED <<chainVars, heads, request, building, prev, pendingTasks, sealers,
                   resultCh, recentMinedBlocks, built, fails, published>>

-------------------------------------------------------------------------------
(* mainLoop: commitWork *)

\* prepareWork on the current block: the transactions and the time of attempt w.
Prepare(w) ==
    LET t == Append(head, Own(w, 0)) IN
    /\ request /\ building = Nothing
    /\ Len(head) < MaxNumber
    /\ Cardinality(built \cup {t}) <= MaxTasks
    /\ request' = FALSE
    /\ building' = t /\ built' = built \cup {t}
    /\ UNCHANGED <<chainVars, heads, running, prev, pendingTasks, sealers, resultCh,
                   recentMinedBlocks, fails, toggles, published>>

\* prepareWork fails, or the node is syncing.
PrepareNothing ==
    /\ request /\ building = Nothing
    /\ request' = FALSE
    /\ \/ Len(head) = MaxNumber /\ UNCHANGED fails
       \/ Fail
    /\ UNCHANGED <<chainVars, heads, running, building, prev, pendingTasks, sealers, resultCh,
                   recentMinedBlocks, built, toggles, published>>

\* commitWork is interrupted, commit finds the worker stopped, or
\* FinalizeAndAssemble fails.
Abandon ==
    /\ building # Nothing
    /\ \/ (request \/ ~running) /\ UNCHANGED fails
       \/ Fail
    /\ building' = Nothing
    /\ UNCHANGED <<chainVars, heads, running, request, prev, pendingTasks, sealers,
                   resultCh, recentMinedBlocks, built, toggles, published>>

Stopped(ss) == {[s EXCEPT !.stopped = TRUE] : s \in ss}

\* commit hands the task to taskLoop, which interrupts the one before it and
\* calls Seal: with an error, without a goroutine, or with one.
Commit ==
    /\ building # Nothing /\ running
    /\ building' = Nothing
    /\ IF building = prev
       THEN UNCHANGED <<prev, pendingTasks, sealers, fails>>
       ELSE /\ prev' = building
            /\ \/ /\ Fail
                  /\ pendingTasks' = pendingTasks \ {building}
                  /\ sealers' = Stopped(sealers)
               \/ /\ UNCHANGED fails
                  /\ pendingTasks' = pendingTasks \cup {building}
                  /\ sealers' = Stopped(sealers) \cup
                       (IF SignRecently(Front(building)) THEN {}
                        ELSE {[block |-> building, backOff |-> FALSE, stopped |-> FALSE]})
    /\ UNCHANGED <<chainVars, heads, running, request, resultCh, recentMinedBlocks,
                   built, toggles, published>>

-------------------------------------------------------------------------------
(* The goroutines of Seal *)

\* A stop that the goroutine listens to, before its time or while it waits for
\* the block of another validator.
SealStopped ==
    \E s \in sealers :
        /\ s.stopped
        /\ sealers' = sealers \ {s}
        /\ UNCHANGED <<chainVars, heads, running, request, building, prev, pendingTasks,
                       resultCh, recentMinedBlocks, built, fails, toggles, published>>

\* Mutant: the result is dropped although the queue has room.
SendNever(b) == resultCh' = resultCh

\* results <- block, or the result is dropped.
Send(b) == resultCh' = IF Len(resultCh) < QueueSize THEN Append(resultCh, b) ELSE resultCh

\* Its time has come: assembleVoteAttestation, signFn and, out of turn with the
\* block of another validator announced, the wait for it.
SealSigned ==
    \E s \in sealers :
        LET waits == highest # <<>> /\ Front(highest) = Front(s.block) IN
        /\ ~s.backOff
        /\ \/ Fail /\ sealers' = sealers \ {s} /\ UNCHANGED resultCh
           \/ /\ UNCHANGED fails
              /\ \E a \in IF Len(s.block) < 2 THEN {0} ELSE {0, 1} :
                  \/ sealers' = sealers \ {s} /\ Send(Attested(s.block, a))  \* in turn, or nothing to wait for
                  \/ /\ waits
                     /\ sealers' = (sealers \ {s}) \cup {[s EXCEPT !.backOff = TRUE, !.block = Attested(s.block, a)]}
                     /\ UNCHANGED resultCh
        /\ UNCHANGED <<chainVars, heads, running, request, building, prev, pendingTasks,
                       recentMinedBlocks, built, toggles, published>>

\* processBackOffTime is over.
SealBackOff ==
    \E s \in sealers :
        /\ s.backOff
        /\ sealers' = sealers \ {s}
        /\ IF Len(head) >= Len(s.block) THEN UNCHANGED resultCh ELSE Send(s.block)
        /\ UNCHANGED <<chainVars, heads, running, request, building, prev, pendingTasks,
                       recentMinedBlocks, built, fails, toggles, published>>

-------------------------------------------------------------------------------
(* resultLoop *)

ParentsAt(n) == UNION {e.parents : e \in {f \in Range(recentMinedBlocks) : f.number = n}}

\* Mutant: the first block of a number leaves no trace.
RememberSecond(b) ==
    IF ParentsAt(Len(b)) = {} THEN recentMinedBlocks
    ELSE Append(recentMinedBlocks, [number |-> Len(b), parents |-> {Front(b)}])

\* recentMinedBlocks without the entry of number n.
Without(n) ==
    LET found == {i \in DOMAIN recentMinedBlocks : recentMinedBlocks[i].number = n}
        at == CHOOSE i \in found : TRUE
    IN IF found = {} THEN recentMinedBlocks
       ELSE [i \in 1 .. Len(recentMinedBlocks) - 1 |-> recentMinedBlocks[IF i < at THEN i ELSE i + 1]]

\* recentMinedBlocks.Add: one more parent, the most recently used entry.
Remember(b) ==
    LET s == Append(Without(Len(b)),
                    [number |-> Len(b), parents |-> ParentsAt(Len(b)) \cup {Front(b)}])
    IN IF Len(s) > CacheLimit THEN Tail(s) ELSE s

\* A result that is not written: a known block, no task for it, a second block
\* for one parent, which Get makes the most recently used entry, or a write that
\* fails after the guard took note of it.
ResultDropped ==
    LET b == Head(resultCh) IN
    /\ resultCh # <<>> /\ resultCh' = Tail(resultCh)
    /\ \/ /\ b \in known \/ SealHash(b) \notin pendingTasks
          /\ UNCHANGED <<known, recentMinedBlocks, fails>>
       \/ /\ b \notin known /\ SealHash(b) \in pendingTasks /\ Front(b) \in ParentsAt(Len(b))
          /\ recentMinedBlocks' = Remember(b)
          /\ UNCHANGED <<known, fails>>
       \/ /\ b \notin known /\ SealHash(b) \in pendingTasks /\ Front(b) \notin ParentsAt(Len(b))
          /\ Fail
          /\ recentMinedBlocks' = Remember(b)
          \* The block and its state are written side by side: one may be there.
          /\ known' \in {known, known \cup {b}}
    /\ UNCHANGED <<head, highest, importing, heads, running, request, building, prev, pendingTasks,
                   sealers, built, toggles, published>>

\* Mutant: the block is broadcast before it is in the database.
ResultUnwritten ==
    LET b == Head(resultCh) IN
    /\ resultCh # <<>> /\ resultCh' = Tail(resultCh)
    /\ importing = Nothing
    /\ b \notin known /\ SealHash(b) \in pendingTasks /\ Front(b) \notin ParentsAt(Len(b))
    /\ recentMinedBlocks' = Remember(b)
    /\ published' = published \cup {b}
    /\ UNCHANGED <<known, head, highest, heads, importing, running, request, building, prev,
                   pendingTasks, sealers, built, fails, toggles>>

\* A result that is written, as the head or on a side branch.  Only the head is
\* broadcast.
ResultWritten ==
    LET b == Head(resultCh) IN
    /\ resultCh # <<>> /\ resultCh' = Tail(resultCh)
    /\ importing = Nothing
    /\ b \notin known /\ SealHash(b) \in pendingTasks /\ Front(b) \notin ParentsAt(Len(b))
    /\ recentMinedBlocks' = Remember(b)
    /\ known' = known \cup {b}
    /\ \/ /\ MayWin(b)
          /\ head' = b
          /\ heads' = Len(b)
          /\ published' = published \cup {b}
       \/ /\ Front(b) # head
          /\ UNCHANGED <<head, heads, published>>
    /\ UNCHANGED <<highest, importing, running, request, building, prev, pendingTasks, sealers,
                   built, fails, toggles>>

-------------------------------------------------------------------------------
\* The node is shut down in order and started again: what is in the database
\* stays, what the worker remembers does not.
Restart ==
    /\ toggles < MaxToggles /\ toggles' = toggles + 1
    /\ importing = Nothing
    /\ highest' = <<>>
    /\ heads' = 0 /\ request' = FALSE /\ building' = Nothing /\ prev' = Nothing
    /\ pendingTasks' = {} /\ sealers' = {} /\ resultCh' = <<>> /\ recentMinedBlocks' = <<>>
    /\ running' = FALSE
    /\ UNCHANGED <<known, head, importing, built, fails, published>>

Init ==
    /\ known = {<<>>} /\ head = <<>> /\ highest = <<>> /\ importing = Nothing
    /\ heads = 0 /\ running = FALSE /\ request = FALSE /\ building = Nothing
    /\ prev = Nothing /\ pendingTasks = {} /\ sealers = {} /\ resultCh = <<>>
    /\ recentMinedBlocks = <<>>
    /\ built = {} /\ fails = 0 /\ toggles = 0 /\ published = {}

Next ==
    \/ \E k \in 1 .. MaxOther : ImportVerified(k)
    \/ ImportWritten \/ ImportFailed
    \/ OnHead \/ OnTimer \/ StartMining \/ StopMining
    \/ (\E w \in 1 .. MaxWork : Prepare(w)) \/ PrepareNothing \/ Abandon \/ Commit
    \/ SealStopped \/ SealSigned \/ SealBackOff
    \/ ResultDropped \/ ResultWritten
    \/ Restart

\* The loops and the goroutines run.  Time passes: sooner or later the header
\* of a new attempt differs and it is committed, a block under way is written, and
\* a goroutine comes to its time although resubmissions replace it, for they aim
\* at the same moment, and to the end of its second of waiting, for they come every
\* three.
Fairness ==
    /\ WF_vars(ImportWritten) /\ WF_vars(OnHead) /\ WF_vars(OnTimer)
    /\ \A w \in 1 .. MaxWork : SF_vars(Prepare(w))
    /\ WF_vars(Commit) /\ SF_vars(building # prev /\ Commit)
    /\ SF_vars(SealSigned) /\ SF_vars(SealBackOff)
    /\ SF_vars(ResultDropped) /\ SF_vars(ResultWritten)

Spec == Init /\ [][Next]_vars

-------------------------------------------------------------------------------
(* Properties *)

\* The node never broadcasts two blocks on one parent, whatever resubmission,
\* stale goroutine or restart has sealed: that is what the double sign monitor
\* and the slashing contract look for.
NoDoubleSign ==
    \A b, c \in published : b # c => Front(b) # Front(c)

\* The guard has taken note of a block on p and the block was not broadcast: its
\* write failed, or it lost to another branch.
Silenced(p) == p \in ParentsAt(Len(p) + 1) /\ \A b \in published : Front(b) # p

\* A running validator that may sign on the head does not stop there: it
\* publishes a block or is overtaken by one.  Seal's goroutines that are told to
\* stop, failed attempts, results that are dropped and duplicates never use up all
\* attempts; the one thing that ends them is the guard after a failed write.
MinesOn ==
    \A p \in {<<>>} \cup {<<Other(k)>> : k \in 1 .. MaxOther} :
        (running /\ head = p /\ Len(p) < MaxNumber) ~> (head # p \/ ~running \/ Silenced(p))
===============================================================================
