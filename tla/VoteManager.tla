------------------------------ MODULE VoteManager ------------------------------
(***************************************************************************)
(* The vote manager of one node and its journal: which votes a vote key    *)
(* publishes when votes are signed, journaled and published in separate    *)
(* steps, the node may crash between any two of them, the journal forgets, *)
(* and a backup node with the same key may vote while this one does not    *)
(* mine.                                                                   *)
(*                                                                         *)
(* A header is modelled by the vote it would get: its number as target and *)
(* the number of the justified block of its branch as source.  Two blocks  *)
(* of one number and one source are the same value here, so the number of  *)
(* votes is counted: publishing a value again is a second vote.            *)
(***************************************************************************)
EXTENDS Naturals, Sequences, SequencesExt, FiniteSets, VoteSpans

CONSTANTS
    MaxNumber,    \* bound: the highest block number
    Scope,        \* maliciousVoteSlashScope, 256 in the code
    Upper,        \* upperLimitOfVoteBlockNumber, 11
    JournalSize,  \* maxSizeOfRecentEntry, 512
    Wait,         \* blocksNumberSinceMining, 5
    ChanSize,     \* voteBufferForPut, 256: the capacity of syncVoteCh
    MaxSource,    \* bound: the highest justified block
    MaxFaults,    \* bound: how often the miner is stopped, the downloader starts
                  \* or the node crashes
    MaxExtra,     \* bound: the entries of the log beyond the published votes
    NearHeads     \* do heads stay near the votes (see Near)

ASSUME SizeAssumption ==
    /\ {MaxNumber, MaxSource, MaxFaults, MaxExtra, Scope, Upper, Wait} \subseteq Nat
    /\ ChanSize \in Nat \ {0}
    /\ NearHeads \in BOOLEAN
    \* The journal is larger than what the rules look at.  In the code there is
    \* room for 233 votes that a stopped miner journals a second time or that a
    \* crash leaves unpublished.
    /\ JournalSize \in Nat
    /\ JournalSize >= Scope + 2 * Upper + 1 + MaxExtra

Votes == {d \in [source : 0 .. MaxSource, target : 1 .. MaxNumber] : d.source < d.target}

VARIABLES
    syncCh,       \* syncVoteCh
    mining,       \* Backend.IsMining
    faults,       \* how many faults there were
    extra,        \* how many entries were journaled twice or left unpublished
    startVote,    \* loop's startVote
    sinceMining,  \* loop's blockCountSinceMining
    vote,         \* the vote that is journaled and not yet published, or NoVote
    wal,          \* the entries of the write-ahead log, on disk
    buffer,       \* voteDataBuffer: the votes from least to most recently used
    behind,       \* history: the journal may lack a vote of the backup node
    published,    \* history: the votes that left a node with this key
    count         \* history: how many did

envVars == <<mining, faults, extra>>
history == <<behind, published, count>>
vars == <<syncCh, envVars, startVote, sinceMining, vote, wal, buffer, history>>

NoVote == [source |-> 0, target |-> 0]

-------------------------------------------------------------------------------
(* The journal *)

\* lru.Cache.Add: the newest entry, and the oldest one leaves a full cache.
Add(b, d) ==
    LET s == Append(SelectSeq(b, LAMBDA e : e.target # d.target), d) IN
    IF Len(s) > JournalSize THEN Tail(s) ELSE s

\* lru.Cache.Get on the numbers in ns, in ascending order.
Touch(b, ns) ==
    SelectSeq(b, LAMBDA e : e.target \notin ns)
        \o SetToSortSeq({e \in Range(b) : e.target \in ns}, LAMBDA d, e : d.target < e.target)

HasVote(n) == \E e \in Range(buffer) : e.target = n

\* Mutant: the log is opened and not read.
ReloadNothing == <<>>

\* NewVoteJournal reads the log into an empty cache.
Reload == FoldLeft(Add, <<>>, wal)

\* Mutant: log and cache keep one entry less.
JournalShort(b, d) ==
    LET Cut(s) == IF Len(s) > JournalSize - 1 THEN Tail(s) ELSE s IN
    /\ wal' = Cut(Append(wal, d))
    /\ buffer' = Cut(Add(b, d))

\* VoteJournal.WriteVote with the cache b, when the log takes the entry.
Journal(b, d) ==
    LET log == Append(wal, d) IN
    /\ wal' = SubSeq(log, IF Len(log) > JournalSize THEN 2 ELSE 1, Len(log))
    /\ buffer' = Add(b, d)

-------------------------------------------------------------------------------
(* VoteManager.UnderRules for a head with the span d *)

\* Mutant: no look at the votes above the head.
ScanRangeBelow(d) ==
    (IF d.source + 1 + Scope < d.target THEN d.target - Scope ELSE d.source + 1)
        .. d.target - 1

\* The numbers whose entries are compared: the last Scope of those above the
\* source, and Upper above the target.
ScanRange(d) ==
    LET first == IF d.source + 1 + Scope < d.target THEN d.target - Scope
                                                    ELSE d.source + 1
    IN (first .. d.target - 1) \cup (d.target + 1 .. d.target + Upper)

\* The entry for block n stands in the way of a vote d.
Hit(d, n) ==
    \E e \in Range(buffer) :
        /\ e.target = n
        /\ \/ n < d.target /\ e.source > d.source
           \/ n > d.target /\ e.source < d.source

UnderRules(d) == ~HasVote(d.target) /\ \A n \in ScanRange(d) : ~Hit(d, n)

\* The entries that the scan reads: it ends at the first one in the way, and
\* does not begin when the height has a vote.
Scanned(d) ==
    IF HasVote(d.target) THEN {}
    ELSE {n \in ScanRange(d) : \A m \in ScanRange(d) : m < n => ~Hit(d, m)}

-------------------------------------------------------------------------------
(* The environment *)

\* A head h is near an earlier vote w if the scans of UnderRules reach w from
\* h: the chain does not fall back by more than Upper blocks below a vote, and
\* where its justified block falls back, not by more than Scope.
Near(w, h) ==
    /\ w.target <= h.target + Upper
    /\ w.source > h.source => h.target <= w.target + Scope

\* miner.Start and Stop.  One of the two nodes mines at a time, and this one
\* takes over only with a journal that has the other's votes.
SetMining ==
    /\ IF mining THEN faults < MaxFaults ELSE syncCh = <<>> /\ ~behind
    /\ mining' = ~mining
    /\ faults' = IF mining THEN faults + 1 ELSE faults
    /\ UNCHANGED <<extra, syncCh, startVote, sinceMining, vote, wal, buffer, history>>

\* The backup node publishes a vote by the rules, and it reaches this node's
\* vote pool, which sends a NewVoteEvent.
PeerVote(d) ==
    /\ ~mining /\ vote = NoVote
    /\ Len(syncCh) < ChanSize
    /\ \A w \in published : ~Conflict(w, d)
    /\ NearHeads => \A w \in published : Near(w, d)
    /\ syncCh' = Append(syncCh, d)
    /\ published' = published \cup {d}
    /\ count' = count + 1
    /\ UNCHANGED <<envVars, startVote, sinceMining, vote, wal, buffer, behind>>

-------------------------------------------------------------------------------
(* The loop *)

\* StartEvent, DoneEvent or FailedEvent of the downloader.
DownloaderEvent ==
    /\ vote = NoVote
    /\ startVote => faults < MaxFaults
    /\ startVote' = ~startVote
    /\ faults' = IF startVote THEN faults + 1 ELSE faults
    /\ UNCHANGED <<syncCh, mining, extra, sinceMining, vote, wal, buffer, history>>

\* The event of a head that is not considered: the downloader runs, or the node
\* does not mine, or has not for long enough, or it is too late to vote, or the
\* key is not in the validator set.
SkipHead ==
    /\ vote = NoVote
    /\ sinceMining' = IF ~startVote THEN sinceMining
                      ELSE IF ~mining THEN 0
                      ELSE IF sinceMining <= Wait THEN sinceMining + 1
                      ELSE sinceMining   \* bound: counted up to Wait + 1
    /\ UNCHANGED <<syncCh, envVars, startVote, vote, wal, buffer, history>>

\* The event of a head that is considered, up to the journal.  Nothing outside
\* the loop sees a vote before it is journaled.
ConsiderHead(h) ==
    /\ vote = NoVote
    /\ startVote /\ mining /\ sinceMining >= Wait
    /\ NearHeads => \A w \in published : Near(w, h)
    /\ sinceMining' = Wait + 1
    /\ LET touched == Touch(buffer, Scanned(h)) IN
       \/ UnderRules(h) /\ Journal(touched, h) /\ vote' = h
       \* against the rules, or an error of SignVote or of WriteVote
       \/ buffer' = touched /\ UNCHANGED <<wal, vote>>
    /\ UNCHANGED <<syncCh, envVars, startVote, history>>

\* pool.PutVote.  The pool may announce the vote to this loop again.
PutVote ==
    /\ vote # NoVote
    /\ published' = published \cup {vote}
    /\ count' = count + 1
    /\ \/ syncCh' = syncCh
       \/ Len(syncCh) < ChanSize /\ syncCh' = Append(syncCh, vote)
    /\ vote' = NoVote
    /\ UNCHANGED <<envVars, startVote, sinceMining, wal, buffer, behind>>

\* A NewVoteEvent with a vote of this key.
SyncVote ==
    LET d == Head(syncCh)
        again == IF d \in Range(wal) THEN 1 ELSE 0
    IN
    /\ vote = NoVote
    /\ syncCh # <<>>
    /\ syncCh' = Tail(syncCh)
    /\ \/ mining /\ UNCHANGED <<extra, wal, buffer, behind>>
       \/ /\ ~mining /\ extra + again <= MaxExtra
          /\ Journal(buffer, d) /\ extra' = extra + again
          /\ UNCHANGED behind
       \/ ~mining /\ behind' = TRUE /\ UNCHANGED <<extra, wal, buffer>>  \* an error
    /\ UNCHANGED <<mining, faults, startVote, sinceMining, vote, published, count>>

\* A crash and the restart.
Crash ==
    /\ faults < MaxFaults /\ faults' = faults + 1
    /\ LET left == IF vote = NoVote THEN 0 ELSE 1 IN
       extra + left <= MaxExtra /\ extra' = extra + left
    /\ syncCh' = <<>>
    /\ mining' = FALSE /\ startVote' = TRUE /\ sinceMining' = 0
    /\ vote' = NoVote
    /\ buffer' = Reload
    /\ behind' = (behind \/ syncCh # <<>>)
    /\ UNCHANGED <<wal, published, count>>

-------------------------------------------------------------------------------
Init ==
    /\ syncCh = <<>>
    /\ mining = FALSE /\ faults = 0 /\ extra = 0
    /\ startVote = TRUE /\ sinceMining = 0
    /\ vote = NoVote
    /\ wal = <<>> /\ buffer = <<>>
    /\ behind = FALSE /\ published = {} /\ count = 0

Next ==
    \/ \E d \in Votes : PeerVote(d)
    \/ SetMining \/ DownloaderEvent
    \/ SkipHead \/ \E h \in Votes : ConsiderHead(h)
    \/ PutVote \/ SyncVote \/ Crash

Spec == Init /\ [][Next]_vars

-------------------------------------------------------------------------------
(* Properties *)

Rules == INSTANCE VoteRules WITH Votes <- Votes, published <- published, count <- count

\* The loop, the journal and the restarts implement rules 1 and 2 of
\* UnderRules: no two votes published with the key ever conflict.
RulesKept == Rules!Spec
===============================================================================
