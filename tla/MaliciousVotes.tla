----------------------------- MODULE MaliciousVotes -----------------------------
(***************************************************************************)
(* The malicious vote monitor (core/monitor/malicious_vote_monitor.go),    *)
(* which the handler feeds with the votes that the pool announces          *)
(* (eth/handler.go startMaliciousVoteMonitor).  It keeps an LRU cache of   *)
(* votes by target number for every vote address; the caches do not        *)
(* interact, so this is the cache of one address.  Votes come in any order *)
(* within the pool's window around the head.                               *)
(***************************************************************************)
EXTENDS VoteSpans, Sequences, SequencesExt, FiniteSets

CONSTANTS
    Scope,      \* maliciousVoteSlashScope, and the pool's lower limit: 256 in the code
    Upper,      \* upperLimitOfVoteBlockNumber, 11
    CacheSize,  \* maxSizeOfRecentEntry, 512
    Hashes,     \* the target blocks of one number
    MaxNumber   \* bound: the highest target

VARIABLES
    pending,   \* CurrentHeader's number + 1
    curVotes,  \* the cache, from least to most recently used
    passed,    \* history: the votes in scope that were found to be harmless
    reported   \* history: the two votes of the last report

vars == <<pending, curVotes, passed, reported>>

Votes == {v \in [source : 0 .. MaxNumber, target : 0 .. MaxNumber, hash : Hashes] :
              v.source < v.target}

InScope(n, p) == n + Scope > p

\* A vote that the pool lets in: the head is at pending - 1.
Announced(v) == v.target <= pending - 1 + Upper /\ v.target + Scope >= pending

\* The numbers that ConflictDetect looks at.
Window(v) ==
    LET first == IF InScope(v.source + 1, pending) THEN v.source + 1 ELSE pending - Scope + 1
    IN first .. pending + Upper

\* Mutant: a surrounding vote is looked for among the lower targets only.
MaliciousBelow(w, v) ==
    \/ w.target = v.target /\ w # v
    \/ w.target < v.target /\ w.source > v.source

\* Mutant: rule 2 with equal sources.
MaliciousEqual(w, v) ==
    \/ w.target = v.target /\ w # v
    \/ w.target < v.target /\ w.source >= v.source
    \/ w.target > v.target /\ w.source <= v.source

\* Rule 1 and rule 2 between the cached vote w and the new vote v.
Malicious(w, v) ==
    \/ w.target = v.target /\ w # v
    \/ w.target < v.target /\ w.source > v.source
    \/ w.target > v.target /\ w.source < v.source

\* lru.Get of each cached number in ns, from the lowest to the highest.
Touched(ns) ==
    LET old == SelectSeq(curVotes, LAMBDA w : w.target \notin ns)
        hit == SelectSeq(curVotes, LAMBDA w : w.target \in ns)
    IN old \o SortSeq(hit, LAMBDA v, w : v.target < w.target)

\* Mutant: the cache holds one vote less.
CachedLess(votes, v) ==
    LET s == Append(SelectSeq(votes, LAMBDA w : w.target # v.target), v)
    IN IF Len(s) >= CacheSize THEN Tail(s) ELSE s

\* lru.Add.
Cached(votes, v) ==
    LET s == Append(SelectSeq(votes, LAMBDA w : w.target # v.target), v)
    IN IF Len(s) > CacheSize THEN Tail(s) ELSE s

\* ConflictDetect.
ConflictDetect(v) ==
    LET bad == {w \in Range(curVotes) : w.target \in Window(v) /\ Malicious(w, v)}
        first == CHOOSE w \in bad : \A u \in bad : w.target <= u.target
    IN
    /\ Announced(v)
    /\ \/ /\ ~InScope(v.target, pending)
          /\ UNCHANGED <<curVotes, passed, reported>>
       \/ /\ InScope(v.target, pending) /\ bad # {}
          /\ reported' = <<first, v>>
          /\ curVotes' = Touched({n \in Window(v) : n <= first.target})
          /\ UNCHANGED passed
       \/ /\ InScope(v.target, pending) /\ bad = {}
          /\ curVotes' = Cached(Touched(Window(v)), v)
          /\ passed' = passed \cup {v}
          /\ UNCHANGED reported
    /\ UNCHANGED pending

\* A new head.
NewHead ==
    /\ pending < MaxNumber + 1
    /\ pending' = pending + 1
    /\ passed' = {v \in passed : InScope(v.target, pending + 1)}
    /\ UNCHANGED <<curVotes, reported>>

Init ==
    /\ pending = 1
    /\ curVotes = <<>> /\ passed = {} /\ reported = <<>>

Next == NewHead \/ \E v \in Votes : ConflictDetect(v)

Spec == Init /\ [][Next]_vars

-------------------------------------------------------------------------------
(* Properties *)

\* The least cache that keeps the votes in scope, however many old ones were used
\* after them: 531 with the code's numbers, which is more than its 512.
Roomy == CacheSize >= 2 * (Scope + Upper) - 3

\* No two votes of one address that break a voting rule pass ConflictDetect
\* while both are in the slash scope, in whatever order they come, with a cache
\* that has the room.
NoConflictPasses ==
    Roomy => \A v, w \in passed : v # w => ~Conflict(v, w)

\* What is reported is a breach of the rules that the vote manager follows.
ReportedConflict ==
    reported # <<>> => reported[1] # reported[2] /\ Conflict(reported[1], reported[2])
===============================================================================
